------------------------------ MODULE Executor ------------------------------
(***************************************************************************)
(* The HTTP plugin of the executor (apps/executor/plugins.py, runner.py):  *)
(* a request that may be sent again when its answer says so, or when no    *)
(* answer comes, which does not tell whether it took effect.               *)
(***************************************************************************)
EXTENDS Naturals

CONSTANTS Retries   \* numbers of retries a decision or the environment may ask for

VARIABLES decision,  \* what is asked for
          attempt,   \* the attempt under way, from 0; or what came of the call
          outcome,    \* "none" while it is under way, else what the runner reports
          effects    \* history: how often the request took effect
vars == <<decision, attempt, outcome, effects>>

\* A method that repeats without harm or not, one declared so by the decision, and
\* DECISIONOS_EXEC_HTTP_RETRY_NON_IDEMPOTENT.
Decisions == [idempotent : BOOLEAN, declared : BOOLEAN, allowed : BOOLEAN,
              retries : Retries, default : Retries]

\* Answers that are worth another attempt, that forbid one, and the others; or none.
Answers == {"busy", "refused", "done", "none"}

\* Variant of RetriesOf: whatever the method.
RetriesOfAny(d) == IF d.retries = 0 THEN d.default ELSE d.retries

\* None asked for is as many as the environment says.
RetriesOf(d) ==
  IF d.idempotent \/ d.declared \/ d.allowed
  THEN IF d.retries = 0 THEN d.default ELSE d.retries
  ELSE 0

\* _should_retry
ShouldRetry(answer) == answer \in {"busy", "none"}

-----------------------------------------------------------------------------
Init == decision \in Decisions /\ attempt = 0 /\ outcome = "none" /\ effects = 0

\* One attempt. The service acts on the request, or refuses it, or is never reached; its
\* answer is lost or arrives. A service that answers "busy" may have acted all the same.
Attempt ==
  /\ outcome = "none"
  /\ \E answer \in Answers, acted \in BOOLEAN :
       /\ answer = "done" => acted
       /\ answer = "refused" => ~acted
       /\ effects' = IF acted THEN effects + 1 ELSE effects
       /\ IF attempt < RetriesOf(decision) /\ ShouldRetry(answer)
            THEN attempt' = attempt + 1 /\ UNCHANGED outcome
            ELSE UNCHANGED attempt /\ outcome' = IF answer = "none" THEN "exec.error" ELSE "exec.ok"
  /\ UNCHANGED decision

Next == Attempt

Spec == Init /\ [][Next]_vars

-----------------------------------------------------------------------------
\* A request that may not be repeated takes effect at most once, whatever answers are
\* lost (plugins.py:69-84, :107-150).
NoUnaskedRepeat ==
  effects > 1 => decision.idempotent \/ decision.declared \/ decision.allowed
=============================================================================
