----------------------------- MODULE RotationBot ----------------------------
(***************************************************************************)
(* The notice that keys expire soon (scripts/ci/key_rotation_bot.py): a    *)
(* branch with a document and a draft pull request with labels, or an      *)
(* issue if that fails. It runs every day, and again when asked to, in an  *)
(* environment that may forbid the issue, or the whole run.                *)
(***************************************************************************)
CONSTANTS Days,      \* days on which the bot runs
          Countdown  \* labels of the time that is left

VARIABLES bot,      \* the run of the bot
          notices,  \* GitHub: its pull requests and issues
          kept      \* history: every run that ended well, and was to tell, left its notice
vars == <<bot, notices, kept>>

Idle == [pc |-> "idle"]

Init == bot = Idle /\ notices = {} /\ kept = TRUE

\* main: the labels of the keys that expire soon, and what the environment says: whether
\* the bot is enabled and has a token and a repository, and ALLOW_ISSUE_FALLBACK.
BotStart(d, wanted, able, fallback) ==
  /\ bot = Idle
  /\ bot' = [pc |-> "start", day |-> d, labels |-> wanted, able |-> able, fallback |-> fallback]
  /\ UNCHANGED <<notices, kept>>

\* A run that can tell somebody, and has something to tell.
IsToTell(run) == run.able /\ run.labels # {}

BotGoes ==
  /\ bot.pc = "start" /\ IsToTell(bot)
  /\ bot' = [bot EXCEPT !.pc = "push"] /\ UNCHANGED <<notices, kept>>

\* Ends with exit status 0.
BotEnds ==
  /\ bot' = Idle
  /\ kept' = (kept /\ (IsToTell(bot) => \E n \in notices' : n.day = bot.day /\ bot.labels \subseteq n.labels))

\* Disabled, without token or repository, or nothing expires: exit status 0 all the same.
BotSkips == bot.pc = "start" /\ ~IsToTell(bot) /\ UNCHANGED notices /\ BotEnds

\* A notice on a branch of today's, pushed with force.
Push == bot.pc = "push" /\ bot' = [bot EXCEPT !.pc = "open"] /\ UNCHANGED <<notices, kept>>

\* Variant of AfterFailure: a pull request without labels is taken for good.
AfterFailureDone(pc, fallback) ==
  IF pc = "label" THEN "done" ELSE IF pc = "open" /\ fallback THEN "issue" ELSE "failed"

\* Whatever fails of a pull request, an issue is opened, if that is allowed; a push or
\* an issue that fails ends the run.
AfterFailure(pc, fallback) == IF pc \in {"open", "label"} /\ fallback THEN "issue" ELSE "failed"

\* A request fails, and changes nothing at GitHub.
RequestFails ==
  /\ UNCHANGED notices
  /\ LET next == AfterFailure(bot.pc, bot.fallback)
     IN  CASE next = "issue"  -> bot' = [bot EXCEPT !.pc = "issue"] /\ UNCHANGED kept
           [] next = "failed" -> bot' = Idle /\ UNCHANGED kept
           [] OTHER           -> BotEnds

\* create_pr: GitHub has one pull request of a branch.
OpenPr ==
  /\ bot.pc = "open"
  /\ LET pr == [kind |-> "pr", day |-> bot.day, labels |-> {}]
     IN  IF \E n \in notices : n.kind = "pr" /\ n.day = bot.day
         THEN RequestFails
         ELSE notices' = notices \cup {pr} /\ bot' = [bot EXCEPT !.pc = "label"] /\ UNCHANGED kept

LabelPr ==
  /\ bot.pc = "label"
  /\ LET pr == CHOOSE n \in notices : n.kind = "pr" /\ n.day = bot.day
     IN  notices' = (notices \ {pr}) \cup {[pr EXCEPT !.labels = @ \cup bot.labels]}
  /\ BotEnds

BotFail == bot.pc \in {"push", "open", "label", "issue"} /\ RequestFails

OpenIssue ==
  /\ bot.pc = "issue"
  /\ notices' = notices \cup {[kind |-> "issue", day |-> bot.day, labels |-> bot.labels]}
  /\ BotEnds

-----------------------------------------------------------------------------
Next ==
  \/ \E d \in Days, wanted \in SUBSET Countdown, able \in BOOLEAN, fallback \in BOOLEAN :
       BotStart(d, wanted, able, fallback)
  \/ BotGoes \/ BotSkips \/ Push \/ OpenPr \/ LabelPr \/ OpenIssue \/ BotFail

Spec == Init /\ [][Next]_vars

-----------------------------------------------------------------------------
\* A run of the bot that ends well, is enabled, has token and repository and keys that
\* expire soon, has left a notice with all its labels, whichever of its requests failed
\* and whatever is left of earlier runs (key_rotation_bot.py:56-179). A run without one
\* of these ends well and tells nobody (:85-105).
ExpiryIsTold == kept
=============================================================================
