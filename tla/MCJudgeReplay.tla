--------------------------- MODULE MCJudgeReplay ----------------------------
(* JudgeReplay for TLC: interchangeable workers and nonces.                  *)
EXTENDS JudgeReplay, TLC

WorkerSymmetry == Permutations(Workers)

Symmetry == WorkerSymmetry \cup Permutations(Nonces)
=============================================================================
