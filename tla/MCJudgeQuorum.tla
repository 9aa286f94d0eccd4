--------------------------- MODULE MCJudgeQuorum ----------------------------
(* JudgeQuorum for TLC: two remote judges and a local one, the remote ones   *)
(* first in the providers file.                                              *)
EXTENDS JudgeQuorum

CONSTANTS h1, h2, l1

HttpFirst == <<h1, h2, l1>>
TwoHttp == <<h1, h2>>
=============================================================================
