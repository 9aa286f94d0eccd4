--------------------------- MODULE Release_proofs ---------------------------
(* Theorems about the way of a release: about Rollout, for any controllers,  *)
(* scripts, windows, stages and times, and about the decisions of Gates, for *)
(* any facts of the kinds Gates names.                                       *)
EXTENDS Rollout, Gates, FiniteSetTheorems, SequenceTheorems, TLAPS

\* What p's guard has met: the present is always part of it, and what p has
\* passed tells which grounds did not bind it at some moment.
GuardKnows(p) ==
  /\ pc[p] \in InGuard =>
       /\ Grounds \ Binding(p) \subseteq freed[p]
       /\ Met(p) \subseteq bound[p]
       /\ BlocksAt(p, seen[p]) => "ground" \in bound[p]
       /\ ~BlocksAt(p, seen[p]) => "window" \in freed[p]
       /\ pc[p] \in {"glass", "blocked"} => "ground" \in bound[p]
       /\ pc[p] = "windows" => "flag" \in freed[p]
       /\ pc[p] \in {"token", "act"} => freed[p] = Grounds
  /\ p \in Controllers /\ pc[p] = "refused" => bound[p] = {"ground", "no glass"}

GuardsKnow == \A p \in Actors : GuardKnows(p)

\* A controller that is going to write the stage knows what.
DueIsKnown == \A c \in Controllers : pc[c] \in {"save", "stage"} => due[c] # "none"

\* While an abort lasts, whoever is about to save saves 0.
SavesNothing ==
  aborted /\ ~raced => \A c \in Controllers : pc[c] = "save" => pct[c] = 0

\* The inductive invariant.
IInv == TypeOK /\ GuardsKnow /\ DueIsKnown /\ SavesNothing /\ AbortPersists

USE DEF Actors, Grounds, InGuard, NoGlass

-----------------------------------------------------------------------------
LEMMA NextStageIsStage == ASSUME NEW v \in Pcts PROVE NextStage(v) \in Pcts
  BY PctsAssumption DEF NextStage

LEMMA InitInvariant == ASSUME Init PROVE IInv
<1>1. TypeOK
  <2>1. now \in 1 .. MaxTime /\ glass \in 0 .. MaxTime + Ttl /\ 0 \in 0 .. MaxTime
    BY TimesAssumption DEF Init
  <2>2. 0 \in Pcts
    BY PctsAssumption
  <2> QED
    BY <2>1, <2>2 DEF Init, TypeOK
<1>2. GuardsKnow /\ DueIsKnown /\ SavesNothing /\ AbortPersists
  BY DEF Init, GuardsKnow, GuardKnows, DueIsKnown, SavesNothing, AbortPersists
<1> QED
  BY <1>1, <1>2 DEF IInv

\* Who does nothing in a step that leaves the world alone knows what it knew.
LEMMA OthersKnow ==
  ASSUME NEW p \in Actors, GuardKnows(p), UNCHANGED outside,
         pc'[p] = pc[p], seen'[p] = seen[p], freed'[p] = freed[p], bound'[p] = bound[p]
  PROVE  GuardKnows(p)'
  BY DEF GuardKnows, Binding, Met, Existing, GlassValid, BlocksAt, outside

\* Who leaves the guard owes nothing.
LEMMA LeaversKnow ==
  ASSUME NEW p \in Actors, pc'[p] \in {"idle", "save", "stage"}
  PROVE  GuardKnows(p)'
  BY DEF GuardKnows

-----------------------------------------------------------------------------
LEMMA WorldType ==
  ASSUME TypeOK, World PROVE TypeOK'
<1>1. Observe /\ UNCHANGED rollout
  BY DEF World, Tick, Pause, Resume, Revoke, Issue
<1>2. freed' \in [Actors -> SUBSET Grounds]
  BY <1>1 DEF TypeOK, Observe
<1>3. \A p \in Actors : Met(p)' \subseteq {"ground", "no glass"}
  BY DEF Met
<1>4. bound' \in [Actors -> SUBSET {"ground", "no glass"}]
  BY <1>1, <1>3 DEF TypeOK, Observe
<1>5. now' \in 1 .. MaxTime /\ glass' \in 0 .. MaxTime + Ttl
  <2> now \in 1 .. MaxTime /\ glass \in 0 .. MaxTime + Ttl
    BY DEF TypeOK
  <2>1. CASE Tick
    BY <2>1, TimesAssumption DEF Tick
  <2>2. CASE Pause \/ Resume
    BY <2>2 DEF Pause, Resume
  <2>3. CASE Issue
    BY <2>3, TimesAssumption DEF Issue
  <2>4. CASE Revoke
    BY <2>4, TimesAssumption DEF Revoke
  <2> QED
    BY <2>1, <2>2, <2>3, <2>4 DEF World
<1>6. flag' \in BOOLEAN
  BY DEF TypeOK, World, Tick, Pause, Resume, Revoke, Issue
<1> QED
  BY <1>1, <1>2, <1>4, <1>5, <1>6 DEF TypeOK, rollout

LEMMA WorldKnows ==
  ASSUME TypeOK, GuardsKnow, World PROVE GuardsKnow'
<1>1. Observe /\ UNCHANGED <<pc, seen>>
  BY DEF World, Tick, Pause, Resume, Revoke, Issue, rollout
<1> SUFFICES ASSUME NEW p \in Actors PROVE GuardKnows(p)'
  BY DEF GuardsKnow
<1>2. GuardKnows(p)
  BY DEF GuardsKnow
<1>3. CASE pc[p] \notin InGuard
  BY <1>1, <1>2, <1>3 DEF GuardKnows, Observe
<1>4. CASE pc[p] \in InGuard
  <2>1. freed'[p] = freed[p] \cup (Grounds \ Binding(p)')
    BY <1>1, <1>4 DEF Observe
  <2>2. bound'[p] = bound[p] \cup Met(p)'
    BY <1>1, <1>4 DEF Observe
  <2>3. BlocksAt(p, seen[p])' = BlocksAt(p, seen[p])
    BY <1>1 DEF BlocksAt
  <2>4. freed[p] \subseteq Grounds
    BY DEF TypeOK
  <2> QED
    BY <1>1, <1>2, <1>4, <2>1, <2>2, <2>3, <2>4 DEF GuardKnows
<1> QED
  BY <1>3, <1>4

LEMMA WorldInvariant ==
  ASSUME IInv, World PROVE IInv'
<1>1. UNCHANGED rollout
  BY DEF World, Tick, Pause, Resume, Revoke, Issue
<1>2. DueIsKnown' /\ SavesNothing' /\ AbortPersists'
  BY <1>1 DEF IInv, rollout, DueIsKnown, SavesNothing, AbortPersists
<1> QED
  BY <1>2, WorldType, WorldKnows DEF IInv

-----------------------------------------------------------------------------
\* Steps of the guard change the place of their actor only, or end the guard.
\* Whoever moves on within its guard with what the next place asks for.
LEMMA GotoKnows ==
  ASSUME TypeOK, NEW p \in Actors, GuardKnows(p), pc[p] \in InGuard, NEW l, Goto(p, l),
         l \in {"glass", "blocked"} => "ground" \in bound[p],
         l = "windows" => "flag" \in freed[p],
         l \in {"token", "act"} => freed[p] = Grounds,
         p \in Controllers /\ l = "refused" => bound[p] = {"ground", "no glass"}
  PROVE  GuardKnows(p)'
<1>1. UNCHANGED <<seen, freed, bound, now, flag, glass>> /\ pc'[p] = l
  BY DEF TypeOK, Goto, outside, book
<1>2. /\ Binding(p)' = Binding(p) /\ Met(p)' = Met(p)
      /\ BlocksAt(p, seen[p])' = BlocksAt(p, seen[p])
  BY <1>1 DEF Binding, Met, Existing, GlassValid, BlocksAt
<1> QED
  BY <1>1, <1>2 DEF GuardKnows

LEMMA GuardType ==
  ASSUME TypeOK, NEW p \in Actors, Guard(p) PROVE TypeOK'
<1> DEFINE Places == InGuard \cup {"idle", "refused", "save", "stage"}
<1>1. UNCHANGED outside /\ UNCHANGED effects
  BY DEF Guard, Begin, CheckFlag, CheckGlass, CheckWindows, Override, VerifyToken, Refuse,
         Goto, Leave, EndGuard
<1>2. \/ Begin(p) \/ Leave(p)
      \/ \E l \in InGuard \cup {"refused"} : Goto(p, l)
  BY DEF Guard, Begin, CheckFlag, CheckGlass, CheckWindows, Override, VerifyToken, Refuse
<1>3. pc' \in [Actors -> Places]
  BY <1>2 DEF TypeOK, Begin, Leave, EndGuard, Goto
<1>4. due' \in [Controllers -> {"none", "stable", "canary", "promote", "abort"}]
  BY <1>2 DEF TypeOK, Begin, Leave, Goto, book
<1>5. seen' \in [Actors -> 0 .. MaxTime]
  <2>1. now \in 1 .. MaxTime
    BY DEF TypeOK
  <2>2. now \in 0 .. MaxTime /\ 0 \in 0 .. MaxTime
    BY <2>1, TimesAssumption
  <2> QED
    BY <1>2, <2>2 DEF TypeOK, Begin, Leave, EndGuard, Goto, book
<1>6. \/ freed' = [freed EXCEPT ![p] = Grounds \ Binding(p)] /\ bound' = [bound EXCEPT ![p] = Met(p)]
      \/ freed' = [freed EXCEPT ![p] = {}] /\ bound' = [bound EXCEPT ![p] = {}]
      \/ UNCHANGED <<freed, bound>>
  BY <1>2 DEF Begin, Leave, EndGuard, Goto, book
<1>7. freed' \in [Actors -> SUBSET Grounds] /\ bound' \in [Actors -> SUBSET {"ground", "no glass"}]
  <2>1. Grounds \ Binding(p) \in SUBSET Grounds /\ Met(p) \in SUBSET {"ground", "no glass"}
    BY DEF Met
  <2>2. freed \in [Actors -> SUBSET Grounds] /\ bound \in [Actors -> SUBSET {"ground", "no glass"}]
    BY DEF TypeOK
  <2> HIDE DEF Grounds
  <2> QED
    BY <1>6, <2>1, <2>2
<1> QED
  BY <1>1, <1>3, <1>4, <1>5, <1>7 DEF TypeOK, outside, effects

LEMMA GuardKnowsOwn ==
  ASSUME TypeOK, NEW p \in Actors, GuardKnows(p), Guard(p) PROVE GuardKnows(p)'
<1>1. CASE Begin(p)
  <2>1. UNCHANGED outside /\ pc'[p] = "flag" /\ seen'[p] = now
        /\ freed'[p] = Grounds \ Binding(p) /\ bound'[p] = Met(p)
    BY <1>1 DEF TypeOK, Begin
  <2>2. Binding(p)' = Binding(p) /\ Met(p)' = Met(p) /\ BlocksAt(p, seen[p])' = BlocksAt(p, now)
    BY <2>1 DEF outside, Binding, Met, Existing, GlassValid, BlocksAt
  <2>3. /\ BlocksAt(p, now) => "ground" \in Met(p)
        /\ ~BlocksAt(p, now) => "window" \notin Binding(p)
    BY DEF Binding, Met, Existing
  <2> QED
    BY <2>1, <2>2, <2>3 DEF GuardKnows
<1>2. CASE CheckFlag(p)
  <2>1. p \in EnvFrozen \/ flag => "ground" \in bound[p]
    BY <1>2 DEF CheckFlag, GuardKnows, Met, Existing
  <2>2. ~(p \in EnvFrozen \/ flag) => "flag" \in freed[p]
    BY <1>2 DEF CheckFlag, GuardKnows, Binding, Existing
  <2>3. \/ (p \in EnvFrozen \/ flag) /\ (Goto(p, "blocked") \/ Goto(p, "glass"))
        \/ ~(p \in EnvFrozen \/ flag) /\ Goto(p, "windows")
    BY <1>2 DEF CheckFlag
  <2>4. pc[p] \in InGuard
    BY <1>2 DEF CheckFlag
  <2> QED
    BY <2>1, <2>2, <2>3, <2>4, GotoKnows
<1>3. CASE CheckGlass(p)
  <2>1. GlassValid => freed[p] = Grounds
    BY <1>3 DEF CheckGlass, GuardKnows, Binding, TypeOK
  <2>2. pc[p] \in InGuard /\ "ground" \in bound[p]
    BY <1>3 DEF CheckGlass, GuardKnows
  <2>3. \/ GlassValid /\ Goto(p, "windows")
        \/ ~GlassValid /\ Goto(p, "blocked")
    BY <1>3 DEF CheckGlass
  <2> QED
    BY <2>1, <2>2, <2>3, GotoKnows
<1>4. CASE CheckWindows(p)
  <2>1. BlocksAt(p, seen[p]) => "ground" \in bound[p]
    BY <1>4 DEF CheckWindows, GuardKnows
  <2>2. ~BlocksAt(p, seen[p]) => freed[p] = Grounds
    <3>1. freed[p] \subseteq Grounds
      BY DEF TypeOK
    <3> QED
      BY <1>4, <3>1 DEF CheckWindows, GuardKnows
  <2>3. \/ BlocksAt(p, seen[p]) /\ Goto(p, "blocked")
        \/ ~BlocksAt(p, seen[p]) /\ (Goto(p, "act") \/ Goto(p, "token"))
    BY <1>4 DEF CheckWindows
  <2>4. pc[p] \in InGuard
    BY <1>4 DEF CheckWindows
  <2> QED
    BY <2>1, <2>2, <2>3, <2>4, GotoKnows
<1>5. CASE Override(p)
  <2>1. GlassValid => freed[p] = Grounds
    BY <1>5 DEF Override, GuardKnows, Binding, TypeOK
  <2>2. ~GlassValid => bound[p] = {"ground", "no glass"}
    <3>1. bound[p] \subseteq {"ground", "no glass"}
      BY DEF TypeOK
    <3> QED
      BY <1>5, <3>1 DEF Override, GuardKnows, Met
  <2>3. \/ GlassValid /\ Goto(p, "act")
        \/ ~(p \in Controllers /\ GlassValid) /\ Goto(p, "refused")
    BY <1>5 DEF Override
  <2>4. pc[p] \in InGuard
    BY <1>5 DEF Override
  <2> QED
    BY <2>1, <2>2, <2>3, <2>4, GotoKnows
<1>6. CASE VerifyToken(p)
  <2>1. pc[p] \in InGuard /\ freed[p] = Grounds
    BY <1>6 DEF VerifyToken, GuardKnows
  <2>2. Goto(p, "act") \/ Leave(p)
    BY <1>6 DEF VerifyToken
  <2>3. Leave(p) => pc'[p] = "idle"
    BY DEF TypeOK, Leave, EndGuard
  <2> QED
    BY <2>1, <2>2, <2>3, GotoKnows, LeaversKnow
<1>7. CASE Refuse(p)
  <2>1. pc'[p] = "idle"
    BY <1>7 DEF TypeOK, Refuse, Leave, EndGuard
  <2> QED
    BY <2>1, LeaversKnow
<1> QED
  BY <1>1, <1>2, <1>3, <1>4, <1>5, <1>6, <1>7 DEF Guard

LEMMA GuardInvariant ==
  ASSUME IInv, NEW p \in Actors, Guard(p) PROVE IInv'
<1> USE DEF Guard, Begin, CheckFlag, CheckGlass, CheckWindows, Override, VerifyToken,
            Refuse, Goto, Leave, EndGuard, book, outside, effects
<1>1. TypeOK'
  BY GuardType DEF IInv
<1>2. ASSUME NEW q \in Actors PROVE GuardKnows(q)'
  <2>1. CASE q = p
    BY <2>1, GuardKnowsOwn DEF IInv, GuardsKnow
  <2>2. CASE q # p
    <3>1. UNCHANGED outside
      OBVIOUS
    <3>2. pc'[q] = pc[q] /\ seen'[q] = seen[q] /\ freed'[q] = freed[q] /\ bound'[q] = bound[q]
      BY <2>2 DEF IInv, TypeOK
    <3> QED
      BY <3>1, <3>2, OthersKnow DEF IInv, GuardsKnow
  <2> QED
    BY <2>1, <2>2
<1>3. UNCHANGED effects /\ pc'[p] \notin {"save", "stage"}
  BY DEF IInv, TypeOK
<1>4. \A c \in Controllers : c # p => pc'[c] = pc[c] /\ due'[c] = due[c]
  BY DEF IInv, TypeOK
<1>5. DueIsKnown' /\ SavesNothing' /\ AbortPersists'
  BY <1>3, <1>4 DEF IInv, DueIsKnown, SavesNothing, AbortPersists
<1> QED
  BY <1>1, <1>2, <1>5 DEF IInv, GuardsKnow

-----------------------------------------------------------------------------
\* Steps of a controller or a script that make a change: each leaves the guard,
\* or is past it.
LEMMA ChangeKnows ==
  ASSUME TypeOK, GuardsKnow, NEW p \in Actors, UNCHANGED outside,
         \/ EndGuard(p, "idle") \/ EndGuard(p, "save") \/ EndGuard(p, "stage")
         \/ p \in Controllers /\ pc[p] = "save" /\ Goto(p, "stage")
  PROVE  GuardsKnow'
<1> SUFFICES ASSUME NEW q \in Actors PROVE GuardKnows(q)'
  BY DEF GuardsKnow
<1>1. CASE q = p
  BY <1>1, LeaversKnow DEF TypeOK, EndGuard, Goto
<1>2. CASE q # p
  <2>1. pc'[q] = pc[q] /\ seen'[q] = seen[q] /\ freed'[q] = freed[q] /\ bound'[q] = bound[q]
    BY <1>2 DEF TypeOK, EndGuard, Goto, book
  <2> QED
    BY <2>1, OthersKnow DEF GuardsKnow
<1> QED
  BY <1>1, <1>2

LEMMA EndGuardType ==
  ASSUME TypeOK, NEW p \in Actors, NEW l \in {"idle", "save", "stage"}, EndGuard(p, l)
  PROVE  /\ pc' \in [Actors -> InGuard \cup {"idle", "refused", "save", "stage"}]
         /\ seen' \in [Actors -> 0 .. MaxTime]
         /\ freed' \in [Actors -> SUBSET Grounds]
         /\ bound' \in [Actors -> SUBSET {"ground", "no glass"}]
         /\ UNCHANGED outside
<1>1. 0 \in 0 .. MaxTime
  BY TimesAssumption
<1> QED
  BY <1>1 DEF TypeOK, EndGuard

LEMMA ScriptInvariant ==
  ASSUME IInv, NEW p \in Actors, ScriptActs(p) PROVE IInv'
<1>1. p \in Scripts /\ EndGuard(p, "idle") /\ UNCHANGED <<pctFile, pct, aborted, raced>>
  BY DEF ScriptActs, Leave
<1>2. token' \in {"stable", "canary", "promote", "abort"}
  <2>1. PICK o \in OpsOf[p] :
          token' \in CASE o = "promote" -> {"promote"}
                       [] o = "abort"   -> {"stable"}
                       [] o = "canary"  -> {"canary"}
                       [] o = "auto"    -> {"promote", "abort", token}
    BY DEF ScriptActs
  <2>2. o \in {"promote", "abort", "canary", "auto"}
    BY <1>1, OpsAssumption
  <2> QED
    BY <2>1, <2>2 DEF IInv, TypeOK
<1>3. UNCHANGED due
  BY <1>1, ActorsAssumption DEF ScriptActs, Leave, IInv, TypeOK
<1>4. TypeOK'
  BY <1>1, <1>2, <1>3, EndGuardType DEF IInv, TypeOK, outside
<1>5. GuardsKnow'
  BY <1>1, ChangeKnows DEF IInv, EndGuard
<1>6. \A c \in Controllers : pc'[c] = pc[c]
  BY <1>1, ActorsAssumption DEF IInv, TypeOK, EndGuard
<1>7. DueIsKnown' /\ SavesNothing' /\ AbortPersists'
  BY <1>1, <1>3, <1>6 DEF IInv, DueIsKnown, SavesNothing, AbortPersists
<1> QED
  BY <1>4, <1>5, <1>7 DEF IInv

\* A controller that begins to save: v is the percentage, t the token to write.
LEMMA SaveInvariant ==
  ASSUME IInv, NEW c \in Controllers, NEW v \in Pcts, NEW t \in {"stable", "canary", "abort"},
         StartSave(c, v, t),
         \/ v = 0 /\ aborted' = TRUE
         \/ aborted' = FALSE
  PROVE  IInv'
<1>1. EndGuard(c, "save") /\ pc'[c] = "save" /\ pct'[c] = v /\ pctFile' = 0 /\ due'[c] = t
  BY DEF IInv, TypeOK, StartSave, EndGuard
<1>2. \A d \in Controllers \ {c} : pc'[d] = pc[d] /\ pct'[d] = pct[d] /\ due'[d] = due[d]
  BY DEF IInv, TypeOK, StartSave, EndGuard
<1>3. TypeOK'
  <2>1. pct' \in [Controllers -> Pcts] /\ pctFile' \in Pcts
    BY PctsAssumption DEF IInv, TypeOK, StartSave
  <2>2. due' \in [Controllers -> {"none", "stable", "canary", "promote", "abort"}]
    BY DEF IInv, TypeOK, StartSave
  <2>3. raced' \in BOOLEAN /\ aborted' \in BOOLEAN /\ token' = token
    BY DEF IInv, TypeOK, StartSave
  <2> QED
    BY <1>1, <2>1, <2>2, <2>3, EndGuardType DEF IInv, TypeOK, outside
<1>4. GuardsKnow'
  BY <1>1, ChangeKnows DEF IInv, EndGuard
<1>5. DueIsKnown'
  BY <1>1, <1>2 DEF IInv, DueIsKnown
<1>6. SavesNothing'
  <2> SUFFICES ASSUME aborted', ~raced', NEW d \in Controllers, pc'[d] = "save"
               PROVE  pct'[d] = 0
    BY DEF SavesNothing
  <2>1. Writing = {} /\ v = 0
    BY DEF StartSave
  <2> QED
    BY <1>1, <1>2, <2>1 DEF Writing
<1> QED
  BY <1>1, <1>3, <1>4, <1>5, <1>6 DEF IInv, AbortPersists

LEMMA ChangeInvariant ==
  ASSUME IInv, NEW c \in Controllers, Change(c) PROVE IInv'
<1>1. CASE Cutover(c)
  <2>1. EndGuard(c, "idle") /\ UNCHANGED effects
    BY <1>1 DEF Cutover, Leave
  <2>2. pc'[c] = "idle" /\ \A d \in Controllers \ {c} : pc'[d] = pc[d] /\ due'[d] = due[d]
    BY <1>1 DEF Cutover, Leave, EndGuard, IInv, TypeOK
  <2>3. due' \in [Controllers -> {"none", "stable", "canary", "promote", "abort"}]
    BY <1>1 DEF Cutover, Leave, IInv, TypeOK
  <2>4. TypeOK' /\ GuardsKnow'
    BY <2>1, <2>3, EndGuardType, ChangeKnows DEF IInv, TypeOK, outside, effects
  <2> QED
    BY <2>1, <2>2, <2>4 DEF IInv, DueIsKnown, SavesNothing, AbortPersists, effects
<1>2. CASE Promote(c)
  <2>1. EndGuard(c, "stage") /\ UNCHANGED effects /\ due' = [due EXCEPT ![c] = "promote"]
    BY <1>2 DEF Promote
  <2>2. pc'[c] = "stage" /\ due'[c] = "promote"
        /\ \A d \in Controllers \ {c} : pc'[d] = pc[d] /\ due'[d] = due[d]
    BY <2>1 DEF EndGuard, IInv, TypeOK
  <2>3. due' \in [Controllers -> {"none", "stable", "canary", "promote", "abort"}]
    BY <2>1 DEF IInv, TypeOK
  <2>4. TypeOK' /\ GuardsKnow'
    BY <2>1, <2>3, EndGuardType, ChangeKnows DEF IInv, TypeOK, outside, effects
  <2> QED
    BY <2>1, <2>2, <2>4 DEF IInv, DueIsKnown, SavesNothing, AbortPersists, effects
<1>3. CASE Abort(c)
  BY <1>3, SaveInvariant, PctsAssumption DEF Abort
<1>4. CASE SaveState(c)
  <2>1. Goto(c, "stage") /\ pc[c] = "save" /\ pctFile' = pct[c] /\ UNCHANGED <<token, pct, aborted, raced>>
    BY <1>4 DEF SaveState
  <2>2. UNCHANGED due /\ pc'[c] = "stage" /\ \A d \in Controllers \ {c} : pc'[d] = pc[d]
    BY <2>1 DEF Goto, book, IInv, TypeOK
  <2>3. TypeOK'
    BY <2>1, <2>2 DEF IInv, TypeOK, Goto, book, outside
  <2>4. GuardsKnow'
    BY <2>1, ChangeKnows DEF IInv, Goto
  <2> QED
    BY <2>1, <2>2, <2>3, <2>4 DEF IInv, DueIsKnown, SavesNothing, AbortPersists
<1>5. CASE WriteStage(c)
  <2>1. EndGuard(c, "idle") /\ token' = due[c] /\ pc[c] = "stage"
        /\ UNCHANGED <<pctFile, pct, aborted, raced>>
    BY <1>5 DEF WriteStage, Leave
  <2>2. pc'[c] = "idle" /\ \A d \in Controllers \ {c} : pc'[d] = pc[d] /\ due'[d] = due[d]
    BY <1>5 DEF WriteStage, Leave, EndGuard, IInv, TypeOK
  <2>3. due' \in [Controllers -> {"none", "stable", "canary", "promote", "abort"}]
    BY <1>5 DEF WriteStage, Leave, IInv, TypeOK
  <2>4. token' \in {"stable", "canary", "promote", "abort"}
    BY <2>1 DEF IInv, TypeOK, DueIsKnown
  <2>5. TypeOK' /\ GuardsKnow'
    BY <2>1, <2>3, <2>4, EndGuardType, ChangeKnows DEF IInv, TypeOK, outside
  <2> QED
    BY <2>1, <2>2, <2>5 DEF IInv, DueIsKnown, SavesNothing, AbortPersists
<1>6. CASE Restart(c)
  <2>1. EndGuard(c, "idle") /\ pct' = [pct EXCEPT ![c] = pctFile]
        /\ raced' = (raced \/ c \in Writing) /\ UNCHANGED <<token, pctFile, aborted>>
    BY <1>6 DEF Restart, Leave
  <2>2. pc'[c] = "idle"
        /\ \A d \in Controllers \ {c} : pc'[d] = pc[d] /\ due'[d] = due[d] /\ pct'[d] = pct[d]
    BY <1>6 DEF Restart, Leave, EndGuard, IInv, TypeOK
  <2>3. due' \in [Controllers -> {"none", "stable", "canary", "promote", "abort"}]
    BY <1>6 DEF Restart, Leave, IInv, TypeOK
  <2>4. pct' \in [Controllers -> Pcts] /\ raced' \in BOOLEAN
    BY <2>1 DEF IInv, TypeOK
  <2>5. TypeOK' /\ GuardsKnow'
    BY <2>1, <2>3, <2>4, EndGuardType, ChangeKnows DEF IInv, TypeOK, outside
  <2> QED
    BY <2>1, <2>2, <2>5 DEF IInv, DueIsKnown, SavesNothing, AbortPersists
<1>7. ASSUME NEW ok \in BOOLEAN, RegisterResult(c, ok) PROVE IInv'
  <2> DEFINE v == IF ok THEN NextStage(pct[c]) ELSE 0
  <2>1. v \in Pcts
    BY NextStageIsStage, PctsAssumption DEF IInv, TypeOK
  <2>2. StartSave(c, v, IF v > 0 THEN "canary" ELSE "stable") /\ aborted' = FALSE
    BY <1>7 DEF RegisterResult, SetStage
  <2> HIDE DEF v
  <2> QED
    BY <2>1, <2>2, SaveInvariant
<1> QED
  BY <1>1, <1>2, <1>3, <1>4, <1>5, <1>6, <1>7 DEF Change

-----------------------------------------------------------------------------
LEMMA StepInvariant == ASSUME IInv, [Next]_vars PROVE IInv'
<1>1. CASE Next
  BY <1>1, WorldInvariant, GuardInvariant, ScriptInvariant, ChangeInvariant DEF Next
<1>2. CASE UNCHANGED vars
  <2>1. UNCHANGED outside /\ UNCHANGED <<token, pctFile, pct, pc, due, seen, freed, bound,
                                         aborted, raced>>
    BY <1>2 DEF vars, outside
  <2>2. GuardsKnow'
    BY <2>1, OthersKnow DEF IInv, GuardsKnow
  <2>3. TypeOK' /\ DueIsKnown' /\ SavesNothing' /\ AbortPersists'
    BY <2>1 DEF outside, IInv, TypeOK, DueIsKnown, SavesNothing, AbortPersists
  <2> QED
    BY <2>2, <2>3 DEF IInv
<1> QED
  BY <1>1, <1>2

\* The invariant holds throughout.
THEOREM Invariance == Spec => []IInv
<1>1. Init => IInv
  BY InitInvariant
<1>2. IInv /\ [Next]_vars => IInv'
  BY StepInvariant
<1> QED
  BY <1>1, <1>2, PTL DEF Spec

\* Type correctness.
THEOREM TypeCorrect == Spec => []TypeOK
<1>1. IInv => TypeOK
  BY DEF IInv
<1> QED
  BY <1>1, Invariance, PTL

\* No guarded change is made under a freeze that lasted, without break glass,
\* from the beginning of its guard to its end.
THEOREM FreezeHolds == Spec => []FreezeRespected
<1>1. IInv => FreezeRespected
  BY DEF IInv, GuardsKnow, GuardKnows, FreezeRespected
<1> QED
  BY <1>1, Invariance, PTL

\* No controller refuses a change that no freeze, or break glass all along,
\* covered.
THEOREM RefusalsHold == Spec => []RefusalGrounded
<1>1. IInv => RefusalGrounded
  BY DEF IInv, GuardsKnow, GuardKnows, RefusalGrounded
<1> QED
  BY <1>1, Invariance, PTL

\* An abort lasts until a stage is set again.
THEOREM AbortHolds == Spec => []AbortPersists
<1>1. IInv => AbortPersists
  BY DEF IInv
<1> QED
  BY <1>1, Invariance, PTL

-----------------------------------------------------------------------------
(* Gates: nothing happens but that facts change. Each theorem rests on what *)
(* the facts are and on the operators that read them.                       *)
HIDE DEF Actors, Grounds, InGuard, NoGlass

Watched == {"slo", "pdp", "promotion"}

\* The facts of these gates stay what they are.
FactsTyped ==
  /\ gate \in GateNames
  /\ gate \in Watched => /\ FactNames(gate) \subseteq DOMAIN facts
                         /\ \A x \in DOMAIN facts : facts[x] \in Kind(gate, x)

LEMMA FactsStayTyped == GateSpec => []FactsTyped
<1>1. GateInit => FactsTyped
  BY FactsAssumption DEF GateInit, FactsTyped, Watched
<1>2. FactsTyped /\ [GateNext]_gateVars => FactsTyped'
  <2> SUFFICES ASSUME FactsTyped, [GateNext]_gateVars PROVE FactsTyped'
    OBVIOUS
  <2>1. ASSUME NEW x \in DOMAIN Domain[gate], NEW v \in Domain[gate][x], ChangeFact(x, v)
        PROVE FactsTyped'
    <3>1. /\ gate' = gate /\ DOMAIN facts' = DOMAIN facts
          /\ \A y \in DOMAIN facts : facts'[y] = IF y = x THEN v ELSE facts[y]
      BY <2>1 DEF ChangeFact
    <3>2. gate \in Watched => v \in Kind(gate, x)
      BY <2>1, FactsAssumption DEF FactsTyped, Watched
    <3> QED BY <3>1, <3>2 DEF FactsTyped, Watched
  <2>2. CASE UNCHANGED gateVars
    BY <2>2 DEF gateVars, FactsTyped
  <2> QED BY <2>1, <2>2 DEF GateNext
<1> QED BY <1>1, <1>2, PTL DEF GateSpec

\* The order of the sort, written out.
LEMMA LexicographicOrder ==
  ASSUME NEW b, NEW c, NEW d, c[1] \in Int, c[2] \in Int, d[1] \in Int, d[2] \in Int,
         b[c[1]][c[2]] \in PolicyRule, b[d[1]][d[2]] \in PolicyRule
  PROVE  LET r == b[c[1]][c[2]]
             s == b[d[1]][d[2]]
         IN  Before(b, c, d) <=>
               \/ r.priority > s.priority
               \/ /\ r.priority = s.priority
                  /\ \/ r.effect = "deny" /\ s.effect = "allow"
                     \/ /\ r.effect = s.effect
                        /\ c[2] < d[2] \/ (c[2] = d[2] /\ c[1] < d[1])
<1> DEFINE r == b[c[1]][c[2]]
           s == b[d[1]][d[2]]
           k == SortKey(b, c)
           l == SortKey(b, d)
<1>1. /\ k[1] = -r.priority /\ k[2] = (IF r.effect = "deny" THEN 0 ELSE 1) /\ k[3] = c[2] /\ k[4] = c[1]
      /\ l[1] = -s.priority /\ l[2] = (IF s.effect = "deny" THEN 0 ELSE 1) /\ l[3] = d[2] /\ l[4] = d[1]
  BY DEF SortKey
<1>2. /\ r.priority \in Int /\ s.priority \in Int
      /\ r.effect \in {"allow", "deny"} /\ s.effect \in {"allow", "deny"}
  BY DEF PolicyRule
<1>3. Before(b, c, d) <=> \E i \in 1..4 : k[i] < l[i] /\ \A j \in 1..(i - 1) : k[j] = l[j]
  BY DEF Before
<1> HIDE DEF k, l
<1>4. (\E i \in 1..4 : k[i] < l[i] /\ \A j \in 1..(i - 1) : k[j] = l[j]) <=>
        \/ k[1] < l[1]
        \/ k[1] = l[1] /\ k[2] < l[2]
        \/ k[1] = l[1] /\ k[2] = l[2] /\ k[3] < l[3]
        \/ k[1] = l[1] /\ k[2] = l[2] /\ k[3] = l[3] /\ k[4] < l[4]
  <2>1. \A i \in 1..4 : i = 1 \/ i = 2 \/ i = 3 \/ i = 4
    OBVIOUS
  <2>2. \A j \in Int : /\ j \notin 1..(1 - 1) /\ (j \in 1..(2 - 1) <=> j = 1)
                       /\ (j \in 1..(3 - 1) <=> j \in {1, 2}) /\ (j \in 1..(4 - 1) <=> j \in {1, 2, 3})
    OBVIOUS
  <2> QED BY <2>1, <2>2
<1> HIDE DEF r, s
<1>5. QED
  <2>1. Before(b, c, d) <=>
               \/ r.priority > s.priority
               \/ /\ r.priority = s.priority
                  /\ \/ r.effect = "deny" /\ s.effect = "allow"
                     \/ /\ r.effect = s.effect
                        /\ c[2] < d[2] \/ (c[2] = d[2] /\ c[1] < d[1])
    BY <1>1, <1>2, <1>3, <1>4
  <2> QED BY <2>1 DEF r, s

\* Some rule that matches allows, and each that denies ranks below it.
Outranks(r1, r2, r3) ==
  LET hits == {r \in {r1, r2, r3} : Matched(r) /\ r.action \in {"act", "*"}}
  IN  \E a \in hits : /\ a.effect = "allow"
                      /\ \A d \in hits : d.effect = "deny" => d.priority < a.priority

\* Of rules in two bundles the first in the order of the sort is the first: there is one,
\* and no denial that matches comes after it with the same priority. So the decision is
\* the rank of what matches, wherever the rules stand.
LEMMA PriorityDecides ==
  ASSUME NEW r1 \in PolicyRule, NEW r2 \in PolicyRule, NEW r3 \in PolicyRule
  PROVE  Decision(<<<<r1, r2>>, <<r3>>>>, "act") = "allow" <=> Outranks(r1, r2, r3)
<1> DEFINE b == <<<<r1, r2>>, <<r3>>>>
           places == {<<1, 1>>, <<1, 2>>, <<2, 1>>}
           rule(c) == b[c[1]][c[2]]
           hit == {c \in Candidates(b, "act") : Matched(rule(c))}
           B(c, d) == Before(b, c, d)
<1>1. /\ DOMAIN b = {1, 2} /\ DOMAIN b[1] = {1, 2} /\ DOMAIN b[2] = {1}
      /\ rule(<<1, 1>>) = r1 /\ rule(<<1, 2>>) = r2 /\ rule(<<2, 1>>) = r3
  OBVIOUS
<1>2. UNION {{i} \X DOMAIN b[i] : i \in DOMAIN b} = places
  <2>1. ASSUME NEW c \in UNION {{i} \X DOMAIN b[i] : i \in DOMAIN b} PROVE c \in places
    <3>1. PICK i \in DOMAIN b : c \in {i} \X DOMAIN b[i]
      OBVIOUS
    <3>2. CASE i = 1
      BY <3>1, <3>2, <1>1
    <3>3. CASE i = 2
      BY <3>1, <3>3, <1>1
    <3> QED BY <3>1, <3>2, <3>3, <1>1
  <2>2. ASSUME NEW c \in places PROVE c \in UNION {{i} \X DOMAIN b[i] : i \in DOMAIN b}
    <3>1. c \in {1} \X DOMAIN b[1] \/ c \in {2} \X DOMAIN b[2]
      BY <1>1
    <3> QED BY <3>1, <1>1
  <2> QED BY <2>1, <2>2
<1>3. hit \subseteq places /\ \A c \in hit : Matched(rule(c)) /\ rule(c).action \in {"act", "*"}
  BY <1>2 DEF Candidates
<1>4. \A c \in places : Matched(rule(c)) /\ rule(c).action \in {"act", "*"} => c \in hit
  BY <1>2 DEF Candidates
<1>5. \A c \in places : rule(c) \in PolicyRule
  BY <1>1
<1> HIDE DEF b, hit, places, rule
<1>6. \A c \in places : c[1] \in Int /\ c[2] \in Int
  BY DEF places
<1>7. \A c, d \in places : c # d => c[1] # d[1] \/ c[2] # d[2]
  BY DEF places
<1> HIDE DEF b, hit, places, rule
<1> DEFINE Ahead(c, d) == \/ rule(c).priority > rule(d).priority
                        \/ /\ rule(c).priority = rule(d).priority
                           /\ \/ rule(c).effect = "deny" /\ rule(d).effect = "allow"
                              \/ /\ rule(c).effect = rule(d).effect
                                 /\ c[2] < d[2] \/ (c[2] = d[2] /\ c[1] < d[1])
<1>8. \A c, d \in places : B(c, d) <=> Ahead(c, d)
  BY <1>5, <1>6, LexicographicOrder DEF rule
<1>9. \A c \in places : rule(c).priority \in Int /\ rule(c).effect \in {"allow", "deny"}
  BY <1>5 DEF PolicyRule
<1>10. /\ \A c, d \in places : c # d => Ahead(c, d) \/ Ahead(d, c)
       /\ \A c, d, e \in places : Ahead(c, d) /\ Ahead(d, e) => Ahead(c, e)
  BY <1>6, <1>7, <1>9
<1>11. \A c, d \in places : Ahead(c, d) /\ rule(c).effect = "allow" /\ rule(d).effect = "deny"
                            => rule(d).priority < rule(c).priority
  BY <1>9
<1> HIDE DEF B, Ahead
<1> DEFINE first == CHOOSE c \in hit : \A d \in hit \ {c} : B(c, d)
<1>12. Decision(<<<<r1, r2>>, <<r3>>>>, "act") = "allow" <=> hit # {} /\ rule(first).effect = "allow"
  <2>1. Decision(b, "act") = IF hit = {} THEN "deny" ELSE rule(first).effect
    BY DEF Decision, hit, rule, B
  <2> QED BY <2>1 DEF b
<1>13. hit # {} => first \in hit /\ \A d \in hit \ {first} : B(first, d)
  <2>1. ASSUME hit # {} PROVE \E c \in hit : \A d \in hit \ {c} : B(c, d)
    <3>1. \E p, q, s \in places : places = {p, q, s}
      BY DEF places
    <3> QED BY <2>1, <3>1, <1>3, <1>8, <1>10
  <2> QED BY <2>1
<1> HIDE DEF first
<1>14. \A d \in {r1, r2, r3} : Matched(d) /\ d.action \in {"act", "*"} => \E c \in hit : rule(c) = d
  BY <1>1, <1>4 DEF places
<1>15. \A c \in hit : rule(c) \in {r1, r2, r3}
  BY <1>1, <1>3 DEF places
<1>16. ASSUME hit # {}, rule(first).effect = "allow" PROVE Outranks(r1, r2, r3)
  <2>1. \A d \in hit : rule(d).effect = "deny" => rule(d).priority < rule(first).priority
    BY <1>3, <1>8, <1>11, <1>13, <1>16
  <2> QED BY <2>1, <1>3, <1>13, <1>14, <1>15, <1>16 DEF Outranks
<1>17. ASSUME Outranks(r1, r2, r3) PROVE hit # {} /\ rule(first).effect = "allow"
  <2>1. PICK a \in hit : /\ rule(a).effect = "allow"
                         /\ \A d \in hit : rule(d).effect = "deny" => rule(d).priority < rule(a).priority
    BY <1>3, <1>14, <1>15, <1>17 DEF Outranks
  <2>2. CASE first = a
    BY <2>1, <2>2
  <2>3. CASE first # a
    BY <2>1, <2>3, <1>3, <1>8, <1>9, <1>13 DEF Ahead
  <2> QED BY <2>1, <2>2, <2>3
<1> QED BY <1>12, <1>16, <1>17

\* A permission outranks every denial that matches, for any three rules in two bundles.
THEOREM PermissionsOutrankDenials == GateSpec => []AllowOutranksDenials
<1>1. FactsTyped => AllowOutranksDenials
  <2> SUFFICES ASSUME FactsTyped, gate = "pdp", Agrees(gate, facts)
               PROVE  LET hits == {r \in {facts.r1, facts.r2, facts.r3} : Matched(r) /\ r.action \in {"act", "*"}}
                      IN  \E a \in hits : /\ a.effect = "allow"
                                          /\ \A d \in hits : d.effect = "deny" => d.priority < a.priority
    BY DEF AllowOutranksDenials
  <2>1. facts.r1 \in PolicyRule /\ facts.r2 \in PolicyRule /\ facts.r3 \in PolicyRule
    BY DEF FactsTyped, Watched, FactNames, Kind
  <2>2. Decision(<<<<facts.r1, facts.r2>>, <<facts.r3>>>>, "act") = "allow"
    BY DEF Agrees
  <2> QED BY <2>1, <2>2, PriorityDecides DEF Outranks
<1> QED BY <1>1, FactsStayTyped, PTL

\* What there is no reason for: each part of the evaluation on its own.
LEMMA PassesHasNoReasons ==
  ASSUME NEW slo, NEW e, Slo!Passes(slo, e)
  PROVE  /\ slo.parses
         /\ \A b \in Slo!RequiredBlocks : e[b] # 0
         /\ \A d \in Slo!ReadDemands : ~Slo!Missed(slo, e, d)
         /\ ~Slo!Over(slo, e, "spent")
         /\ Slo!PerfReasons(slo, e) = {} /\ Slo!InfraReasons(slo, e) = {} /\ Slo!CanaryReasons(slo, e) = {}
         /\ Slo!DriftReasons(slo, e) = {} /\ Slo!SaturationReasons(slo, e) = {}
<1>1. Slo!Reasons(slo, e) = {}
  BY DEF Slo!Passes
<1>2. slo.parses
  BY <1>1 DEF Slo!Reasons
<1>3. \A b \in Slo!RequiredBlocks : e[b] # 0
  <2> SUFFICES ASSUME NEW b \in Slo!RequiredBlocks, e[b] = 0 PROVE FALSE
    OBVIOUS
  <2>1. Slo!Reasons(slo, e) = {c \in Slo!RequiredBlocks : e[c] = 0}
    BY <1>2 DEF Slo!Reasons
  <2> QED BY <1>1, <2>1
<1>4. Slo!Reasons(slo, e) = {d \in Slo!ReadDemands : Slo!Missed(slo, e, d)}
        \cup {x \in {"spent"} : Slo!Over(slo, e, x)}
        \cup Slo!PerfReasons(slo, e) \cup Slo!InfraReasons(slo, e) \cup Slo!CanaryReasons(slo, e)
        \cup Slo!DriftReasons(slo, e) \cup Slo!SaturationReasons(slo, e)
  BY <1>2, <1>3 DEF Slo!Reasons
<1> QED BY <1>1, <1>2, <1>3, <1>4

LEMMA PassesAreEarned ==
  ASSUME NEW slo \in Slo!SLOSpec, NEW e, \A x \in Slo!Facts : e[x] \in Slo!Reported(x)
  PROVE  Slo!PassIsEarned(slo, e)
<1> SUFFICES ASSUME Slo!Passes(slo, e)
             PROVE  /\ \A b \in Slo!RequiredBlocks : e[b] = 1
                    /\ \A x \in Slo!Stated(slo) : e[Slo!BlockOf(x)] = 1 /\ Slo!Within(slo, e, x)
                    /\ \A d \in slo.demands \cap Slo!ReadDemands : e[d] = 1
                    /\ "drift" \in slo.sections /\ "severity" \in slo.demands => e["severity"] = 1
  BY DEF Slo!PassIsEarned
<1>1. /\ \A x \in Slo!YesNo : e[x] \in {0, 1}
      /\ \A x \in Slo!Facts : e[x] \in Int /\ e[x] >= -1
  BY DEF Slo!Reported, Slo!Facts, Slo!None
<1>2. /\ \A b \in Slo!RequiredBlocks : e[b] # 0
      /\ \A d \in Slo!ReadDemands : ~Slo!Missed(slo, e, d)
      /\ ~Slo!Over(slo, e, "spent")
      /\ Slo!PerfReasons(slo, e) = {} /\ Slo!InfraReasons(slo, e) = {} /\ Slo!CanaryReasons(slo, e) = {}
      /\ Slo!DriftReasons(slo, e) = {} /\ Slo!SaturationReasons(slo, e) = {}
  BY PassesHasNoReasons
<1>3. \A b \in Slo!RequiredBlocks : e[b] = 1
  BY <1>1, <1>2 DEF Slo!YesNo
<1>4. \A x \in Slo!Limits : slo.limit[x] # Slo!None => slo.limit[x] \in Nat
  BY DEF Slo!SLOSpec
<1>5. \A x \in Slo!Limits \cap Slo!Facts :
        ~Slo!Over(slo, e, x) /\ slo.limit[x] # Slo!None => e[x] <= slo.limit[x]
  BY <1>1, <1>4 DEF Slo!Over, Slo!OrZero, Slo!None
<1>6. \A m \in DOMAIN Slo!MinSamples :
        /\ m \in Slo!Limits /\ Slo!MinSamples[m] \in Slo!Facts
        /\ ~Slo!TooFew(slo, e, m) /\ slo.limit[m] # Slo!None => e[Slo!MinSamples[m]] = Slo!None \/ e[Slo!MinSamples[m]] >= slo.limit[m]
  <2>1. \A m \in DOMAIN Slo!MinSamples : m \in Slo!Limits /\ Slo!MinSamples[m] \in Slo!Facts
    BY DEF Slo!MinSamples, Slo!Limits, Slo!Facts
  <2> QED BY <2>1, <1>1, <1>4 DEF Slo!TooFew, Slo!OrZero, Slo!None
<1>7. ASSUME NEW x \in Slo!PerfMeasures \cup Slo!PerfMinima, slo.limit[x] # Slo!None
      PROVE  e["perf"] = 1 /\ Slo!Within(slo, e, x)
  <2>1. /\ e["perf"] # 0
        /\ \A m \in Slo!PerfMinima : e["count"] # Slo!None => ~Slo!TooFew(slo, e, m)
        /\ \A y \in Slo!PerfMeasures : ~Slo!Over(slo, e, y)
    BY <1>2, <1>7 DEF Slo!PerfReasons
  <2>2. e["perf"] = 1
    BY <2>1, <1>1 DEF Slo!YesNo, Slo!OptionalBlocks
  <2>3. CASE x \in Slo!PerfMinima
    <3>1. x \in DOMAIN Slo!MinSamples /\ Slo!MinSamples[x] = "count"
      BY <2>3 DEF Slo!PerfMinima, Slo!MinSamples
    <3>2. e["count"] = Slo!None \/ e["count"] >= slo.limit[x]
      BY <2>1, <2>3, <3>1, <1>6, <1>7
    <3> QED BY <2>2, <2>3, <3>1, <3>2 DEF Slo!Within, Slo!InfraLatency, Slo!PerfMinima
  <2>4. CASE x \in Slo!PerfMeasures
    <3>1. x \in Slo!Limits \cap Slo!Facts
      BY <2>4 DEF Slo!Limits, Slo!Facts, Slo!UpperBounded
    <3> QED BY <2>1, <2>2, <2>4, <3>1, <1>5, <1>7 DEF Slo!Within, Slo!PerfMeasures, Slo!MinSamples, Slo!InfraLatency
  <2> QED BY <2>3, <2>4, <2>2
<1>8. ASSUME "judge_infra" \in slo.sections,
             NEW x \in Slo!InfraLatency \cup Slo!InfraMinima \cup {"infra_sig", "availability"}, slo.limit[x] # Slo!None
      PROVE  e["perf_judge"] = 1 /\ Slo!Within(slo, e, x)
  <2>1. /\ e["perf_judge"] # 0
        /\ \A m \in Slo!InfraMinima : ~Slo!TooFew(slo, e, m)
        /\ \A y \in Slo!InfraLatency : slo.limit[y] # Slo!None => ~(Slo!OrZero(e[y]) > slo.limit[y] * slo.burst)
        /\ slo.limit["availability"] # Slo!None => ~(Slo!OrZero(e["availability"]) < slo.limit["availability"])
        /\ ~Slo!Over(slo, e, "infra_sig")
    BY <1>2, <1>8 DEF Slo!InfraReasons, Slo!InfraMinima
  <2>2. e["perf_judge"] = 1
    BY <2>1, <1>1 DEF Slo!YesNo, Slo!OptionalBlocks
  <2>3. CASE x \in Slo!InfraMinima
    BY <2>1, <2>2, <2>3, <1>6, <1>8 DEF Slo!Within, Slo!InfraLatency, Slo!InfraMinima, Slo!MinSamples
  <2>4. CASE x \in Slo!InfraLatency
    <3>1. x \in Slo!Limits /\ x \in Slo!Facts
      BY <2>4 DEF Slo!Limits, Slo!Facts, Slo!UpperBounded
    <3>2. slo.limit[x] * slo.burst \in Nat
      BY <3>1, <1>4, <1>8 DEF Slo!SLOSpec
    <3>3. e[x] <= slo.limit[x] * slo.burst
      BY <2>1, <2>4, <3>1, <3>2, <1>1, <1>8 DEF Slo!OrZero, Slo!None
    <3> QED BY <2>2, <2>4, <3>3 DEF Slo!Within, Slo!InfraLatency, Slo!MinSamples
  <2>5. CASE x = "infra_sig"
    <3>1. x \in Slo!Limits \cap Slo!Facts
      BY <2>5 DEF Slo!Limits, Slo!Facts, Slo!UpperBounded
    <3> QED BY <2>1, <2>2, <2>5, <3>1, <1>5, <1>8 DEF Slo!Within, Slo!InfraLatency, Slo!MinSamples
  <2>6. CASE x = "availability"
    <3>1. x \in Slo!Limits /\ x \in Slo!Facts
      BY <2>6 DEF Slo!Limits, Slo!Facts
    <3>2. e[x] = Slo!None \/ e[x] >= slo.limit[x]
      BY <2>1, <2>6, <3>1, <1>1, <1>4, <1>8 DEF Slo!OrZero, Slo!None
    <3> QED BY <2>2, <2>6, <3>2 DEF Slo!Within, Slo!InfraLatency, Slo!MinSamples
  <2> QED BY <2>3, <2>4, <2>5, <2>6
<1>9. ASSUME "canary" \in slo.sections, NEW x \in Slo!CanaryDeltas \cup {"canary_min"}, slo.limit[x] # Slo!None
      PROVE  e["canary"] = 1 /\ Slo!Within(slo, e, x)
  <2>1. /\ e["canary"] # 0 /\ ~Slo!TooFew(slo, e, "canary_min")
        /\ \A y \in Slo!CanaryDeltas : ~Slo!Over(slo, e, y)
    BY <1>2, <1>9 DEF Slo!CanaryReasons
  <2>2. e["canary"] = 1
    BY <2>1, <1>1 DEF Slo!YesNo, Slo!OptionalBlocks
  <2>3. CASE x = "canary_min"
    BY <2>1, <2>2, <2>3, <1>6, <1>9 DEF Slo!Within, Slo!InfraLatency, Slo!MinSamples
  <2>4. CASE x \in Slo!CanaryDeltas
    <3>1. x \in Slo!Limits \cap Slo!Facts
      BY <2>4 DEF Slo!Limits, Slo!Facts, Slo!UpperBounded
    <3> QED BY <2>1, <2>2, <2>4, <3>1, <1>5, <1>9 DEF Slo!Within, Slo!CanaryDeltas, Slo!MinSamples, Slo!InfraLatency
  <2> QED BY <2>3, <2>4
<1>10. ASSUME "drift" \in slo.sections
       PROVE  /\ e["drift_file"] = 1
              /\ "severity" \in slo.demands => e["severity"] = 1
              /\ \A x \in Slo!DriftMeasures : slo.limit[x] # Slo!None => Slo!Within(slo, e, x)
  <2>1. /\ e["drift_file"] # 0 /\ ~Slo!Missed(slo, e, "severity")
        /\ \A y \in Slo!DriftMeasures : ~Slo!Over(slo, e, y)
    BY <1>2, <1>10 DEF Slo!DriftReasons
  <2>2. e["drift_file"] = 1 /\ e["severity"] \in {0, 1}
    BY <2>1, <1>1 DEF Slo!YesNo
  <2>3. ASSUME NEW x \in Slo!DriftMeasures, slo.limit[x] # Slo!None PROVE Slo!Within(slo, e, x)
    <3>1. x \in Slo!Limits \cap Slo!Facts
      BY <2>3 DEF Slo!Limits, Slo!Facts, Slo!UpperBounded
    <3> QED BY <2>1, <2>3, <3>1, <1>5 DEF Slo!Within, Slo!DriftMeasures, Slo!MinSamples, Slo!InfraLatency
  <2> QED BY <2>1, <2>2, <2>3 DEF Slo!Missed
<1>11. ASSUME "saturation" \in slo.sections, NEW x \in Slo!Saturation, slo.limit[x] # Slo!None
       PROVE  Slo!Within(slo, e, x)
  <2>1. ~Slo!Over(slo, e, x)
    BY <1>2, <1>11 DEF Slo!SaturationReasons
  <2>2. x \in Slo!Limits \cap Slo!Facts
    BY <1>11 DEF Slo!Limits, Slo!Facts, Slo!UpperBounded
  <2> QED BY <2>1, <2>2, <1>5, <1>11 DEF Slo!Within, Slo!Saturation, Slo!MinSamples, Slo!InfraLatency
<1>12. slo.limit["spent"] # Slo!None => Slo!Within(slo, e, "spent")
  <2>1. "spent" \in Slo!Limits \cap Slo!Facts
    BY DEF Slo!Limits, Slo!Facts, Slo!UpperBounded
  <2> QED BY <2>1, <1>2, <1>5 DEF Slo!Within, Slo!MinSamples, Slo!InfraLatency
<1>13. ASSUME NEW x \in Slo!Stated(slo) PROVE e[Slo!BlockOf(x)] = 1 /\ Slo!Within(slo, e, x)
  <2>1. /\ x \in Slo!Limits \ Slo!UnreadLimits
        /\ slo.limit[x] # Slo!None /\ Slo!SectionOf(x) \subseteq slo.sections
    BY DEF Slo!Stated
  <2> USE DEF Slo!BlockOf, Slo!SectionOf, Slo!PerfMeasures, Slo!PerfMinima, Slo!InfraLatency, Slo!InfraMinima, Slo!CanaryDeltas,
              Slo!DriftMeasures, Slo!Saturation
  <2>2. CASE x \in Slo!PerfMeasures \cup Slo!PerfMinima
    BY <2>1, <2>2, <1>7
  <2>3. CASE x \in Slo!InfraLatency \cup Slo!InfraMinima \cup {"infra_sig", "availability"}
    <3>1. Slo!BlockOf(x) = "perf_judge" /\ Slo!SectionOf(x) = {"judge_infra"}
      BY <2>3
    <3> QED BY <2>1, <2>3, <3>1, <1>8
  <2>4. CASE x \in Slo!CanaryDeltas \cup {"canary_min"}
    <3>1. Slo!BlockOf(x) = "canary" /\ Slo!SectionOf(x) = {"canary"}
      BY <2>4
    <3> QED BY <2>1, <2>4, <3>1, <1>9
  <2>5. CASE x \in Slo!DriftMeasures
    <3>1. Slo!BlockOf(x) = "drift_file" /\ Slo!SectionOf(x) = {"drift"}
      BY <2>5
    <3> QED BY <2>1, <2>5, <3>1, <1>10
  <2>6. CASE x \in Slo!Saturation
    <3>1. Slo!BlockOf(x) = "usage" /\ Slo!SectionOf(x) = {"saturation"} /\ "usage" \in Slo!RequiredBlocks
      BY <2>6 DEF Slo!RequiredBlocks
    <3> QED BY <2>1, <2>6, <3>1, <1>3, <1>11
  <2>7. CASE x = "spent"
    <3>1. Slo!BlockOf(x) = "budget" /\ "budget" \in Slo!RequiredBlocks
      BY <2>7 DEF Slo!RequiredBlocks
    <3> QED BY <2>1, <2>7, <3>1, <1>3, <1>12
  <2> QED BY <2>1, <2>2, <2>3, <2>4, <2>5, <2>6, <2>7 DEF Slo!Limits, Slo!UnreadLimits, Slo!UpperBounded, Slo!MinSamples
<1>14. \A d \in slo.demands \cap Slo!ReadDemands : e[d] = 1
  <2>1. Slo!ReadDemands \subseteq Slo!YesNo
    BY DEF Slo!ReadDemands, Slo!Demands, Slo!UnreadDemands, Slo!YesNo
  <2> QED BY <2>1, <1>1, <1>2 DEF Slo!Missed
<1> QED BY <1>3, <1>10, <1>13, <1>14

\* The windows that are there, in order.
LEMMA WindowsAreWindows ==
  ASSUME NEW f, \A x \in {"w1", "w2", "w3", "w4"} : f[x] \in CanaryWindow \cup {NoWindow}
  PROVE  WindowsOf(f) \in Seq(CanaryWindow)
<1>1. \A w \in CanaryWindow \cup {NoWindow} : Shown(w) \in Seq(CanaryWindow)
  BY DEF Shown
<1>2. /\ Shown(f.w1) \in Seq(CanaryWindow) /\ Shown(f.w2) \in Seq(CanaryWindow)
      /\ Shown(f.w3) \in Seq(CanaryWindow) /\ Shown(f.w4) \in Seq(CanaryWindow)
  BY <1>1
<1> QED BY <1>2 DEF WindowsOf

LEMMA FirstOnes == \A n \in Nat : IsFiniteSet(1..n) /\ Cardinality(1..n) = n
<1> SUFFICES ASSUME NEW n \in Nat PROVE IsFiniteSet(1..n) /\ Cardinality(1..n) = n
  OBVIOUS
<1> QED BY FS_Interval

\* The last n windows, where there are as many.
LEMMA RecentOnes ==
  ASSUME NEW w \in Seq(CanaryWindow), NEW n \in Nat \ {0}, n <= Len(w)
  PROVE  /\ Len(Recent(w, n)) = n /\ DOMAIN Recent(w, n) = 1..n
         /\ \A i \in 1..n : Recent(w, n)[i] = w[Len(w) - n + i]
<1> DEFINE from == Len(w) - n + 1
<1>1. Len(w) \in Nat /\ from \in 1..(Len(w) + 1) /\ Len(w) - from + 1 = n
  OBVIOUS
<1>2. Recent(w, n) = SubSeq(w, from, Len(w))
  <2>1. Greater(1, from) = from
    BY <1>1 DEF Greater
  <2> QED BY <2>1 DEF Recent
<1>3. \A i \in 1..n : from + i - 1 = Len(w) - n + i
  BY <1>1
<1> HIDE DEF from
<1>4. /\ Len(SubSeq(w, from, Len(w))) = Len(w) - from + 1
      /\ SubSeq(w, from, Len(w)) \in Seq(CanaryWindow)
      /\ \A i \in 1..(Len(w) - from + 1) : SubSeq(w, from, Len(w))[i] = w[from + i - 1]
  BY <1>1, SubSeqProperties
<1> QED BY <1>1, <1>2, <1>3, <1>4

LEMMA PromotedIsGreen ==
  ASSUME NEW required \in Nat, NEW allowed \in Nat, NEW observation \in Nat,
         NEW minSamples \in Nat,
         required >= 3, allowed <= BurstLimit
  PROVE  \A w \in Seq(CanaryWindow) : Decide(w, required, allowed, observation) = "promote" =>
           /\ PreflightCanaryOk(TRUE, w) /\ CanaryHealth(TRUE, w) = "healthy"
           /\ Last(w).samples >= minSamples => RehearsalHealthy(TRUE, w, required, minSamples)
<1>0. SUFFICES ASSUME NEW w, w \in Seq(CanaryWindow), Decide(w, required, allowed, observation) = "promote"
               PROVE  /\ PreflightCanaryOk(TRUE, w) /\ CanaryHealth(TRUE, w) = "healthy"
                      /\ Last(w).samples >= minSamples =>
                           RehearsalHealthy(TRUE, w, required, minSamples)
  OBVIOUS
<1> DEFINE n == Len(w)
           recent == Recent(w, required)
           last == Recent(w, 3)
           passing(s) == {i \in DOMAIN s : s[i].pass}
<1>1. n \in Nat /\ DOMAIN w = 1..n /\ \A i \in 1..n : w[i] \in CanaryWindow
  BY <1>0
<1>2. n >= required /\ ~Bursts(recent, allowed) /\ Green(recent) = required
  BY <1>0, <1>1 DEF Decide
<1>3. /\ DOMAIN recent = 1..required /\ \A i \in 1..required : recent[i] = w[n - required + i]
      /\ Len(last) = 3 /\ DOMAIN last = 1..3 /\ \A i \in 1..3 : last[i] = w[n - 3 + i]
  <2>1. required \in Nat \ {0} /\ required <= Len(w) /\ 3 \in Nat \ {0} /\ 3 <= Len(w)
    BY <1>1, <1>2
  <2>2. /\ DOMAIN Recent(w, required) = 1..required
        /\ \A i \in 1..required : Recent(w, required)[i] = w[Len(w) - required + i]
    BY <1>0, <2>1, RecentOnes, Zenon
  <2>3. /\ Len(Recent(w, 3)) = 3 /\ DOMAIN Recent(w, 3) = 1..3
        /\ \A i \in 1..3 : Recent(w, 3)[i] = w[Len(w) - 3 + i]
    BY <1>0, <2>1, RecentOnes, Zenon
  <2> QED BY <2>2, <2>3
<1> HIDE DEF n, recent, last
<1>4. \A i \in 1..required : recent[i].pass
  <2>1. IsFiniteSet(1..required) /\ Cardinality(1..required) = required
    BY FirstOnes
  <2>2. passing(recent) \subseteq 1..required /\ Cardinality(passing(recent)) = required
    BY <1>2, <1>3 DEF Green
  <2>3. passing(recent) = 1..required
    BY <2>1, <2>2, FS_Subset
  <2> QED BY <2>3
<1>5. \A i \in (n - required + 1)..n : w[i].pass /\ w[i].burst <= BurstLimit /\ i \in 1..n
  <2> SUFFICES ASSUME NEW i \in (n - required + 1)..n PROVE w[i].pass /\ w[i].burst <= BurstLimit /\ i \in 1..n
    OBVIOUS
  <2>1. i - n + required \in 1..required /\ i \in 1..n /\ n - required + (i - n + required) = i
    BY <1>1, <1>2
  <2>2. recent[i - n + required] = w[i]
    BY <2>1, <1>3
  <2>3. ~(w[i].burst > allowed) /\ w[i].burst \in Nat
    BY <2>1, <2>2, <1>1, <1>2, <1>3 DEF Bursts, CanaryWindow
  <2> QED BY <2>1, <2>2, <2>3, <1>4 DEF BurstLimit
<1>6. Green(w) >= required
  <2>1. IsFiniteSet(1..n) /\ passing(w) \subseteq 1..n
    BY <1>1, FS_Interval
  <2>2. (n - required + 1)..n \subseteq passing(w)
    BY <1>1, <1>5
  <2>3. Cardinality((n - required + 1)..n) = required
    BY <1>1, <1>2, FS_Interval
  <2>4. IsFiniteSet(passing(w))
    BY <2>1, FS_Subset
  <2>5. Cardinality((n - required + 1)..n) <= Cardinality(passing(w)) /\ Cardinality(passing(w)) \in Nat
    BY <2>2, <2>4, FS_Subset, FS_CardinalityType
  <2> QED BY <2>3, <2>5 DEF Green
<1>7. Green(w) \in Nat
  <2>1. IsFiniteSet(1..n) /\ passing(w) \subseteq 1..n
    BY <1>1, FS_Interval
  <2>2. IsFiniteSet(passing(w))
    BY <2>1, FS_Subset
  <2> QED BY <2>2, FS_CardinalityType DEF Green
<1>8. \A i \in 1..3 : last[i].pass /\ last[i].burst <= BurstLimit /\ last[i].burst \in Nat
  <2> SUFFICES ASSUME NEW i \in 1..3 PROVE last[i].pass /\ last[i].burst <= BurstLimit /\ last[i].burst \in Nat
    OBVIOUS
  <2>1. n - 3 + i \in (n - required + 1)..n
    BY <1>1, <1>2
  <2>2. last[i] = w[n - 3 + i] /\ w[n - 3 + i] \in CanaryWindow
    BY <2>1, <1>1, <1>3, <1>5
  <2> QED BY <2>1, <2>2, <1>5 DEF CanaryWindow
<1>9. ~Bursts(last, BurstLimit)
  BY <1>3, <1>8 DEF Bursts, BurstLimit
<1>10. Green(last) = 3
  <2>1. passing(last) = 1..3
    BY <1>3, <1>8
  <2>2. Green(last) = Cardinality(passing(last))
    BY DEF Green
  <2>3. Cardinality(1..3) = 3
    BY FirstOnes
  <2> QED BY <2>1, <2>2, <2>3
<1>11. w # <<>> /\ Last(w) = w[n] /\ n \in (n - required + 1)..n
  BY <1>0, <1>1, <1>2 DEF n, Last
<1>12. PreflightCanaryOk(TRUE, w)
  BY <1>6, <1>7, <1>9 DEF PreflightCanaryOk, last
<1>13. CanaryHealth(TRUE, w) = "healthy"
  <2>1. w # <<>> /\ Green(last) = Len(last) /\ Len(last) \in Nat /\ ~Bursts(last, BurstLimit)
    BY <1>3, <1>9, <1>10, <1>11
  <2> QED BY <2>1 DEF CanaryHealth, last
<1>14. ASSUME Last(w).samples >= minSamples
       PROVE  RehearsalHealthy(TRUE, w, required, minSamples)
  <2>1. w[n].burst <= BurstLimit /\ w[n].samples \in Nat
    BY <1>1, <1>5, <1>11 DEF CanaryWindow
  <2> QED BY <2>1, <1>6, <1>7, <1>11, <1>14 DEF RehearsalHealthy
<1> QED BY <1>12, <1>13, <1>14

\* A pass of the judge is earned, for any SLO and any evidence: with every block, and
\* every limit and demand that the SLO states and evaluate reads (slo_judge.py:38-253).
THEOREM SloPassIsEarned == GateSpec => []PassIsEarned
<1>1. FactsTyped => PassIsEarned
  <2> SUFFICES ASSUME FactsTyped, gate = "slo" PROVE Slo!PassIsEarned(facts["slo"], facts)
    BY DEF PassIsEarned
  <2>1. Slo!Facts \cup {"slo"} \subseteq DOMAIN facts /\ \A x \in DOMAIN facts : facts[x] \in Kind("slo", x)
    BY DEF FactsTyped, Watched, FactNames
  <2>2. "slo" \notin Slo!Facts
    BY DEF Slo!Facts, Slo!YesNo, Slo!RequiredBlocks, Slo!OptionalBlocks, Slo!UpperBounded, Slo!PerfMeasures,
           Slo!InfraLatency, Slo!CanaryDeltas, Slo!DriftMeasures, Slo!Saturation
  <2>3. facts["slo"] \in Slo!SLOSpec /\ \A x \in Slo!Facts : facts[x] \in Slo!Reported(x)
    BY <2>1, <2>2 DEF Kind
  <2> QED BY <2>3, PassesAreEarned
<1> QED BY <1>1, FactsStayTyped, PTL

\* What promotes a canary satisfies the preflight check and the cutover card, for any
\* windows and any number of them required from three on, and the rehearsal with any
\* minimum of samples that the last window reaches.
THEOREM PromotionsSatisfyAll == GateSpec => []PromotionSatisfiesAll
<1>1. FactsTyped => PromotionSatisfiesAll
  <2> SUFFICES ASSUME FactsTyped, gate = "promotion", facts.found, facts.required >= 3,
                      facts.allowed <= BurstLimit, Agrees(gate, facts)
               PROVE  LET w == WindowsOf(facts)
                      IN  /\ PreflightCanaryOk(TRUE, w) /\ CanaryHealth(TRUE, w) = "healthy"
                          /\ Last(w).samples >= facts.minSamples =>
                               RehearsalHealthy(TRUE, w, facts.required, facts.minSamples)
    BY DEF PromotionSatisfiesAll
  <2>1. /\ \A x \in {"w1", "w2", "w3", "w4"} : facts[x] \in CanaryWindow \cup {NoWindow}
        /\ facts.required \in Nat /\ facts.allowed \in Nat /\ facts.observation \in Nat
        /\ facts.minSamples \in Nat
    BY DEF FactsTyped, Watched, FactNames, Kind
  <2>2. Decide(WindowsOf(facts), facts.required, facts.allowed, facts.observation) = "promote"
    BY DEF Agrees
  <2>3. WindowsOf(facts) \in Seq(CanaryWindow)
    BY <2>1, WindowsAreWindows
  <2> QED BY <2>1, <2>2, <2>3, PromotedIsGreen
<1> QED BY <1>1, FactsStayTyped, PTL

-----------------------------------------------------------------------------
(* A refusal stands. Of the property that the run checks for every gate, the *)
(* part about these three: no fact, changing for the worse, turns a refusal  *)
(* into consent.                                                             *)

\* Evidence that is worse in some of its facts does not pass where the better failed.
LEMMA JudgeIsMonotone ==
  ASSUME NEW slo \in Slo!SLOSpec, NEW e, NEW w,
         \A x \in Slo!Facts : e[x] \in Slo!Reported(x) /\ w[x] \in Slo!Reported(x),
         \A x \in Slo!Facts : w[x] = e[x] \/ Slo!WorseFact(x, e[x], w[x]),
         Slo!Passes(slo, w)
  PROVE  Slo!Passes(slo, e)
<1> USE DEF Slo!None
<1>1. \A x \in Slo!Facts : e[x] \in Int /\ w[x] \in Int /\ e[x] >= -1 /\ w[x] >= -1
  BY DEF Slo!Reported
<1>2. \A x \in Slo!Facts : e[x] = -1 <=> w[x] = -1
  BY DEF Slo!WorseFact
<1>3. \A x \in Slo!Facts : IF x \in Slo!UpperBounded THEN e[x] <= w[x] ELSE w[x] <= e[x]
  BY <1>1 DEF Slo!WorseFact
<1>4. /\ Slo!UpperBounded \subseteq Slo!Facts /\ Slo!UpperBounded \subseteq Slo!Limits
      /\ Slo!YesNo \subseteq Slo!Facts /\ Slo!YesNo \cap Slo!UpperBounded = {}
  BY DEF Slo!Facts, Slo!Limits, Slo!YesNo, Slo!UpperBounded, Slo!RequiredBlocks, Slo!OptionalBlocks, Slo!PerfMeasures,
         Slo!InfraLatency, Slo!CanaryDeltas, Slo!DriftMeasures, Slo!Saturation
<1>5. \A x \in Slo!YesNo : e[x] \in {0, 1} /\ w[x] \in {0, 1} /\ (e[x] = 0 => w[x] = 0)
  BY <1>1, <1>3, <1>4 DEF Slo!Reported
<1>6. \A x \in Slo!Limits : slo.limit[x] \in Int /\ slo.limit[x] >= -1
  BY DEF Slo!SLOSpec
<1>7. ASSUME NEW x \in Slo!UpperBounded PROVE Slo!Over(slo, e, x) => Slo!Over(slo, w, x)
  BY <1>1, <1>2, <1>3, <1>4, <1>6 DEF Slo!Over, Slo!OrZero
<1>8. ASSUME NEW m \in DOMAIN Slo!MinSamples
      PROVE  /\ Slo!TooFew(slo, e, m) => Slo!TooFew(slo, w, m)
             /\ e[Slo!MinSamples[m]] = -1 <=> w[Slo!MinSamples[m]] = -1
  <2>1. m \in Slo!Limits /\ Slo!MinSamples[m] \in Slo!Facts /\ Slo!MinSamples[m] \notin Slo!UpperBounded
    BY DEF Slo!MinSamples, Slo!Limits, Slo!Facts, Slo!UpperBounded, Slo!PerfMeasures,
           Slo!InfraLatency, Slo!CanaryDeltas, Slo!DriftMeasures, Slo!Saturation
  <2> QED BY <2>1, <1>1, <1>2, <1>3, <1>6 DEF Slo!TooFew, Slo!OrZero
<1>9. \A d \in Slo!ReadDemands \cup {"severity"} : Slo!Missed(slo, e, d) => Slo!Missed(slo, w, d)
  <2>1. Slo!ReadDemands \cup {"severity"} \subseteq Slo!YesNo
    BY DEF Slo!ReadDemands, Slo!UnreadDemands, Slo!Demands, Slo!YesNo
  <2> QED BY <2>1, <1>5 DEF Slo!Missed
<1>10. /\ slo.parses /\ \A b \in Slo!RequiredBlocks : w[b] # 0
       /\ \A d \in Slo!ReadDemands : ~Slo!Missed(slo, w, d)
       /\ ~Slo!Over(slo, w, "spent")
       /\ Slo!PerfReasons(slo, w) = {} /\ Slo!InfraReasons(slo, w) = {} /\ Slo!CanaryReasons(slo, w) = {}
       /\ Slo!DriftReasons(slo, w) = {} /\ Slo!SaturationReasons(slo, w) = {}
  BY PassesHasNoReasons
<1>11. /\ \A b \in Slo!RequiredBlocks : e[b] # 0
       /\ \A d \in Slo!ReadDemands : ~Slo!Missed(slo, e, d)
       /\ ~Slo!Over(slo, e, "spent")
  <2>1. "spent" \in Slo!UpperBounded /\ Slo!RequiredBlocks \subseteq Slo!YesNo
    BY DEF Slo!UpperBounded, Slo!YesNo
  <2> QED BY <2>1, <1>5, <1>7, <1>9, <1>10
<1>12. Slo!PerfReasons(slo, e) = {}
  <2>1. "perf" \in Slo!YesNo /\ Slo!PerfMeasures \subseteq Slo!UpperBounded
    BY DEF Slo!YesNo, Slo!OptionalBlocks, Slo!UpperBounded
  <2>2. \A m \in Slo!PerfMinima : m \in DOMAIN Slo!MinSamples /\ Slo!MinSamples[m] = "count"
    BY DEF Slo!PerfMinima, Slo!MinSamples
  <2>3. CASE \A x \in Slo!PerfMeasures \cup Slo!PerfMinima : slo.limit[x] = -1
    BY <2>3 DEF Slo!PerfReasons
  <2>4. CASE \E x \in Slo!PerfMeasures \cup Slo!PerfMinima : slo.limit[x] # -1
    <3>1. /\ w["perf"] # 0
          /\ \A m \in Slo!PerfMinima : w["count"] # -1 => ~Slo!TooFew(slo, w, m)
          /\ \A x \in Slo!PerfMeasures : ~Slo!Over(slo, w, x)
      BY <2>4, <1>10 DEF Slo!PerfReasons
    <3>2. /\ e["perf"] # 0
          /\ \A m \in Slo!PerfMinima : e["count"] # -1 => ~Slo!TooFew(slo, e, m)
          /\ \A x \in Slo!PerfMeasures : ~Slo!Over(slo, e, x)
      BY <2>1, <2>2, <3>1, <1>5, <1>7, <1>8
    <3> QED BY <3>2 DEF Slo!PerfReasons
  <2> QED BY <2>3, <2>4
<1>13. Slo!InfraReasons(slo, e) = {}
  <2>1. /\ "perf_judge" \in Slo!YesNo /\ {"infra_latency", "infra_sig_min"} \subseteq DOMAIN Slo!MinSamples
        /\ Slo!InfraLatency \subseteq Slo!UpperBounded /\ "infra_sig" \in Slo!UpperBounded
        /\ "availability" \in Slo!Facts \ Slo!UpperBounded /\ "availability" \in Slo!Limits
    BY DEF Slo!YesNo, Slo!OptionalBlocks, Slo!UpperBounded, Slo!MinSamples, Slo!Facts, Slo!Limits, Slo!PerfMeasures,
           Slo!InfraLatency, Slo!CanaryDeltas, Slo!DriftMeasures, Slo!Saturation
  <2>2. CASE "judge_infra" \notin slo.sections
    BY <2>2 DEF Slo!InfraReasons
  <2>3. CASE "judge_infra" \in slo.sections
    <3>1. /\ w["perf_judge"] # 0 /\ ~Slo!TooFew(slo, w, "infra_latency") /\ ~Slo!TooFew(slo, w, "infra_sig_min")
          /\ \A x \in Slo!InfraLatency : slo.limit[x] # -1 => ~(Slo!OrZero(w[x]) > slo.limit[x] * slo.burst)
          /\ slo.limit["availability"] # -1 => ~(Slo!OrZero(w["availability"]) < slo.limit["availability"])
          /\ ~Slo!Over(slo, w, "infra_sig")
      BY <2>3, <1>10 DEF Slo!InfraReasons
    <3>2. e["perf_judge"] # 0 /\ ~Slo!TooFew(slo, e, "infra_latency") /\ ~Slo!TooFew(slo, e, "infra_sig_min")
          /\ ~Slo!Over(slo, e, "infra_sig")
      BY <2>1, <3>1, <1>5, <1>7, <1>8
    <3>3. ASSUME NEW x \in Slo!InfraLatency, slo.limit[x] # -1
          PROVE  ~(Slo!OrZero(e[x]) > slo.limit[x] * slo.burst)
      <4> DEFINE stretched == slo.limit[x] * slo.burst
      <4>1. stretched \in Int
        BY <2>1, <1>4, <1>6 DEF Slo!SLOSpec
      <4>2. ~(Slo!OrZero(w[x]) > stretched)
        BY <3>1, <3>3
      <4> HIDE DEF stretched
      <4>3. ~(Slo!OrZero(e[x]) > stretched)
        BY <4>1, <4>2, <2>1, <1>1, <1>2, <1>3, <1>4 DEF Slo!OrZero
      <4> QED BY <4>3 DEF stretched
    <3>4. slo.limit["availability"] # -1 => ~(Slo!OrZero(e["availability"]) < slo.limit["availability"])
      BY <2>1, <3>1, <1>1, <1>2, <1>3, <1>6 DEF Slo!OrZero
    <3> QED BY <3>2, <3>3, <3>4 DEF Slo!InfraReasons
  <2> QED BY <2>2, <2>3
<1>14. Slo!CanaryReasons(slo, e) = {}
  <2>1. /\ "canary" \in Slo!YesNo /\ "canary_min" \in DOMAIN Slo!MinSamples
        /\ Slo!CanaryDeltas \subseteq Slo!UpperBounded
    BY DEF Slo!YesNo, Slo!OptionalBlocks, Slo!UpperBounded, Slo!MinSamples
  <2>2. "canary" \in slo.sections => /\ w["canary"] # 0 /\ ~Slo!TooFew(slo, w, "canary_min")
                                     /\ \A x \in Slo!CanaryDeltas : ~Slo!Over(slo, w, x)
    BY <1>10 DEF Slo!CanaryReasons
  <2>3. "canary" \in slo.sections => /\ e["canary"] # 0 /\ ~Slo!TooFew(slo, e, "canary_min")
                                     /\ \A x \in Slo!CanaryDeltas : ~Slo!Over(slo, e, x)
    BY <2>1, <2>2, <1>5, <1>7, <1>8
  <2> QED BY <2>3 DEF Slo!CanaryReasons
<1>15. Slo!DriftReasons(slo, e) = {}
  <2>1. /\ "drift_file" \in Slo!YesNo /\ Slo!DriftMeasures \subseteq Slo!UpperBounded
    BY DEF Slo!YesNo, Slo!UpperBounded
  <2>2. "drift" \in slo.sections => /\ w["drift_file"] # 0 /\ ~Slo!Missed(slo, w, "severity")
                                    /\ \A x \in Slo!DriftMeasures : ~Slo!Over(slo, w, x)
    BY <1>10 DEF Slo!DriftReasons
  <2>3. "drift" \in slo.sections => /\ e["drift_file"] # 0 /\ ~Slo!Missed(slo, e, "severity")
                                    /\ \A x \in Slo!DriftMeasures : ~Slo!Over(slo, e, x)
    BY <2>1, <2>2, <1>5, <1>7, <1>9
  <2> QED BY <2>3 DEF Slo!DriftReasons
<1>16. Slo!SaturationReasons(slo, e) = {}
  <2>1. Slo!Saturation \subseteq Slo!UpperBounded
    BY DEF Slo!UpperBounded
  <2>2. "saturation" \in slo.sections => \A x \in Slo!Saturation : ~Slo!Over(slo, w, x)
    BY <1>10 DEF Slo!SaturationReasons
  <2>3. "saturation" \in slo.sections => \A x \in Slo!Saturation : ~Slo!Over(slo, e, x)
    BY <2>1, <2>2, <1>7
  <2> QED BY <2>3 DEF Slo!SaturationReasons
<1>17. Slo!Reasons(slo, e) = {}
  BY <1>10, <1>11, <1>12, <1>13, <1>14, <1>15, <1>16 DEF Slo!Reasons
<1> QED BY <1>17 DEF Slo!Passes

\* A rule that changes for the worse gives no permission.
LEMMA RulesAreMonotone ==
  ASSUME NEW r1 \in PolicyRule, NEW r2 \in PolicyRule, NEW r3 \in PolicyRule,
         NEW s1 \in PolicyRule, NEW s2 \in PolicyRule, NEW s3 \in PolicyRule,
         s1 = r1 \/ WorseRule(r1, s1), s2 = r2 \/ WorseRule(r2, s2), s3 = r3 \/ WorseRule(r3, s3),
         Outranks(s1, s2, s3)
  PROVE  Outranks(r1, r2, r3)
<1> DEFINE Hit(r) == Matched(r) /\ r.action \in {"act", "*"}
           Rel(r, s) == /\ r.priority = s.priority
                        /\ Hit(s) /\ s.effect = "allow" => Hit(r) /\ r.effect = "allow"
                        /\ Hit(r) /\ r.effect = "deny" => Hit(s) /\ s.effect = "deny"
<1>1. ASSUME NEW r \in PolicyRule, NEW s \in PolicyRule, s = r \/ WorseRule(r, s) PROVE Rel(r, s)
  <2>1. CASE s = r
    BY <2>1
  <2>2. CASE WorseRule(r, s)
    <3>1. r.priority = s.priority /\ r.action = s.action
      <4>1. [r EXCEPT !.effect = s.effect, !.when = s.when, !.unless = s.unless] = s
        BY <2>2 DEF WorseRule
      <4> QED BY <4>1 DEF PolicyRule
    <3> QED BY <2>2, <3>1 DEF WorseRule
  <2> QED BY <1>1, <2>1, <2>2
<1>2. Rel(r1, s1) /\ Rel(r2, s2) /\ Rel(r3, s3)
  BY <1>1
<1>3. PICK a \in {s1, s2, s3} : /\ Hit(a) /\ a.effect = "allow"
                               /\ \A d \in {s1, s2, s3} : Hit(d) /\ d.effect = "deny" => d.priority < a.priority
  BY DEF Outranks
<1>4. \A r \in {r1, r2, r3} : \E s \in {s1, s2, s3} : Rel(r, s)
  BY <1>2
<1>5. \E r \in {r1, r2, r3} : Rel(r, a)
  BY <1>2
<1> HIDE DEF Hit
<1>6. \E b \in {r1, r2, r3} : /\ Hit(b) /\ b.effect = "allow"
                              /\ \A d \in {r1, r2, r3} : Hit(d) /\ d.effect = "deny" => d.priority < b.priority
  BY <1>3, <1>4, <1>5
<1> QED BY <1>6 DEF Outranks, Hit

\* Windows that are as many and as late, none better than the one it stands for.
NoBetter(w, v) ==
  /\ Len(w) = Len(v)
  /\ \A i \in 1..Len(v) : v[i].ts = w[i].ts /\ (w[i].pass => v[i].pass) /\ v[i].burst <= w[i].burst

LEMMA JoinedNoBetter ==
  ASSUME NEW v1 \in Seq(CanaryWindow), NEW w1 \in Seq(CanaryWindow), NoBetter(w1, v1),
         NEW v2 \in Seq(CanaryWindow), NEW w2 \in Seq(CanaryWindow), NoBetter(w2, v2)
  PROVE  /\ v1 \o v2 \in Seq(CanaryWindow) /\ w1 \o w2 \in Seq(CanaryWindow)
         /\ NoBetter(w1 \o w2, v1 \o v2)
<1>1. v1 \o v2 \in Seq(CanaryWindow) /\ w1 \o w2 \in Seq(CanaryWindow)
  OBVIOUS
<1>2. /\ Len(v1) = Len(w1) /\ Len(v2) = Len(w2) /\ Len(v1) \in Nat /\ Len(v2) \in Nat
      /\ Len(v1 \o v2) = Len(v1) + Len(v2) /\ Len(w1 \o w2) = Len(w1) + Len(w2)
  BY DEF NoBetter
<1>3. ASSUME NEW i \in 1..Len(v1 \o v2)
      PROVE  /\ (v1 \o v2)[i].ts = (w1 \o w2)[i].ts
             /\ (w1 \o w2)[i].pass => (v1 \o v2)[i].pass
             /\ (v1 \o v2)[i].burst <= (w1 \o w2)[i].burst
  <2>1. CASE i <= Len(v1)
    <3>1. (v1 \o v2)[i] = v1[i] /\ (w1 \o w2)[i] = w1[i] /\ i \in 1..Len(v1)
      BY <1>2, <2>1
    <3> QED BY <3>1 DEF NoBetter
  <2>2. CASE i > Len(v1)
    <3>1. (v1 \o v2)[i] = v2[i - Len(v1)] /\ (w1 \o w2)[i] = w2[i - Len(v1)] /\ i - Len(v1) \in 1..Len(v2)
      <4>1. i \in 1..(Len(v1) + Len(v2)) /\ i \in 1..(Len(w1) + Len(w2)) /\ ~(i <= Len(v1)) /\ ~(i <= Len(w1))
        BY <1>2, <2>2
      <4> QED BY <4>1, <1>2, ConcatProperties
    <3> QED BY <3>1, <1>2 DEF NoBetter
  <2> QED BY <2>1, <2>2, <1>2
<1> QED BY <1>1, <1>2, <1>3 DEF NoBetter

\* Of worse windows the last ones are worse, and what they are too bad for, the better may be.
LEMMA WindowsAreMonotone ==
  ASSUME NEW required \in Nat, NEW allowed \in Nat, NEW observation \in Nat
  PROVE  \A v, w \in Seq(CanaryWindow) :
           NoBetter(w, v) /\ Decide(w, required, allowed, observation) = "promote"
             => Decide(v, required, allowed, observation) = "promote"
<1> SUFFICES ASSUME NEW v, NEW w, v \in Seq(CanaryWindow), w \in Seq(CanaryWindow), NoBetter(w, v),
                    Decide(w, required, allowed, observation) = "promote"
             PROVE  Decide(v, required, allowed, observation) = "promote"
  OBVIOUS
<1> DEFINE n == Len(v)
           rv == Recent(v, required)
           rw == Recent(w, required)
<1>1. n \in Nat /\ Len(w) = n /\ \A i \in 1..n : v[i] \in CanaryWindow /\ w[i] \in CanaryWindow
  BY DEF NoBetter
<1>2. n >= required
  BY <1>1 DEF Decide
<1>3. CASE required = 0
  <2>1. rv = <<>> /\ rw = <<>>
    <3>1. Greater(1, n - required + 1) = n + 1 /\ Greater(1, Len(w) - required + 1) = Len(w) + 1
      BY <1>1, <1>3 DEF Greater
    <3>2. SubSeq(v, n + 1, n) = <<>> /\ SubSeq(w, Len(w) + 1, Len(w)) = <<>>
      BY <1>1
    <3> QED BY <3>1, <3>2 DEF Recent
  <2> QED BY <1>1, <1>2, <2>1 DEF Decide
<1>4. CASE required # 0
  <2>1. required \in Nat \ {0} /\ required <= Len(v) /\ required <= Len(w)
    BY <1>1, <1>2, <1>4
  <2>2. DOMAIN rv = 1..required /\ \A i \in 1..required : rv[i] = v[n - required + i]
    BY <2>1, RecentOnes, Zenon
  <2>3. DOMAIN rw = 1..required /\ \A i \in 1..required : rw[i] = w[Len(w) - required + i]
    BY <2>1, RecentOnes, Zenon
  <2> HIDE DEF n, rv, rw
  <2>4. ASSUME NEW i \in 1..required
        PROVE  /\ rv[i].ts = rw[i].ts /\ (rw[i].pass => rv[i].pass) /\ rv[i].burst <= rw[i].burst
               /\ rv[i].burst \in Nat /\ rw[i].burst \in Nat
    <3>1. n - required + i \in 1..n
      BY <1>1, <1>2, <2>1
    <3>2. rv[i] = v[n - required + i] /\ rw[i] = w[n - required + i]
      BY <1>1, <2>2, <2>3
    <3> QED BY <3>1, <3>2, <1>1 DEF NoBetter, CanaryWindow, n
  <2>5. Bursts(rv, allowed) => Bursts(rw, allowed)
    <3> SUFFICES ASSUME NEW i \in DOMAIN rv, rv[i].burst > allowed
                 PROVE  \E j \in DOMAIN rw : rw[j].burst > allowed
      BY DEF Bursts
    <3>1. i \in DOMAIN rw /\ i \in 1..required
      BY <2>2, <2>3
    <3>2. rw[i].burst > allowed
      BY <2>4, <3>1
    <3> QED BY <3>1, <3>2
  <2>6. rv[1].ts = rw[1].ts /\ rv[required].ts = rw[required].ts
    BY <2>1, <2>4
  <2>7. Green(rw) = required => Green(rv) = required
    <3> SUFFICES ASSUME Green(rw) = required PROVE Green(rv) = required
      OBVIOUS
    <3> DEFINE passing(s) == {i \in DOMAIN s : s[i].pass}
    <3>1. IsFiniteSet(1..required) /\ Cardinality(1..required) = required
      BY FirstOnes
    <3>2. passing(rw) \subseteq 1..required /\ Cardinality(passing(rw)) = required
      BY <2>3 DEF Green
    <3>3. passing(rw) = 1..required
      BY <3>1, <3>2, FS_Subset
    <3>4. passing(rv) = 1..required
      BY <3>3, <2>2, <2>3, <2>4
    <3> QED BY <3>1, <3>4 DEF Green
  <2>8. ~(Len(w) < required) /\ ~Bursts(rw, allowed) /\ Green(rw) = required
        /\ ~(0 \notin {rw[1].ts, rw[required].ts} /\ rw[required].ts - rw[1].ts < observation)
    BY DEF Decide, rw
  <2>9. ~(Len(v) < required)
    BY <2>1
  <2> QED BY <2>5, <2>6, <2>7, <2>8, <2>9 DEF Decide, rv
<1> QED BY <1>3, <1>4

LEMMA CanariesAreMonotone ==
  ASSUME NEW f, NEW g, NEW required \in Nat, NEW allowed \in Nat, NEW observation \in Nat,
         \A x \in {"w1", "w2", "w3", "w4"} :
           /\ f[x] \in CanaryWindow \cup {NoWindow} /\ g[x] \in CanaryWindow \cup {NoWindow}
           /\ g[x] = f[x] \/ WorseWindow(f[x], g[x]),
         Decide(WindowsOf(g), required, allowed, observation) = "promote"
  PROVE  Decide(WindowsOf(f), required, allowed, observation) = "promote"
<1>1. ASSUME NEW v \in CanaryWindow \cup {NoWindow}, NEW w \in CanaryWindow \cup {NoWindow},
             w = v \/ WorseWindow(v, w)
      PROVE  /\ Shown(v) \in Seq(CanaryWindow) /\ Shown(w) \in Seq(CanaryWindow)
             /\ NoBetter(Shown(w), Shown(v))
  <2>1. Shown(v) \in Seq(CanaryWindow) /\ Shown(w) \in Seq(CanaryWindow)
    BY DEF Shown
  <2>2. CASE w = v
    <3>1. v # NoWindow => Len(Shown(v)) = 1 /\ Shown(v)[1] = v /\ v.burst \in Nat
      BY DEF Shown, CanaryWindow
    <3>2. v = NoWindow => Len(Shown(v)) = 0
      BY DEF Shown
    <3> QED BY <2>1, <2>2, <3>1, <3>2 DEF NoBetter
  <2>3. CASE WorseWindow(v, w)
    <3>1. /\ v \in CanaryWindow /\ w \in CanaryWindow
          /\ Len(Shown(v)) = 1 /\ Shown(v)[1] = v /\ Len(Shown(w)) = 1 /\ Shown(w)[1] = w
      BY <2>3 DEF WorseWindow, Shown
    <3>2. v.ts = w.ts /\ (w.pass => v.pass) /\ v.burst <= w.burst
      <4>1. CASE v.pass /\ w = [v EXCEPT !.pass = FALSE]
        BY <3>1, <4>1 DEF CanaryWindow
      <4>2. CASE \E b \in 0..w.burst : b < w.burst /\ v = [w EXCEPT !.burst = b]
        BY <3>1, <4>2 DEF CanaryWindow
      <4> QED BY <2>3, <4>1, <4>2 DEF WorseWindow
    <3> QED BY <2>1, <3>1, <3>2 DEF NoBetter
  <2> QED BY <1>1, <2>1, <2>2, <2>3
<1>2. \A x \in {"w1", "w2", "w3", "w4"} :
         /\ Shown(f[x]) \in Seq(CanaryWindow) /\ Shown(g[x]) \in Seq(CanaryWindow)
         /\ NoBetter(Shown(g[x]), Shown(f[x]))
  BY <1>1
<1>3. /\ Shown(f.w1) \o Shown(f.w2) \in Seq(CanaryWindow) /\ Shown(g.w1) \o Shown(g.w2) \in Seq(CanaryWindow)
      /\ NoBetter(Shown(g.w1) \o Shown(g.w2), Shown(f.w1) \o Shown(f.w2))
  BY <1>2, JoinedNoBetter
<1>4. /\ Shown(f.w1) \o Shown(f.w2) \o Shown(f.w3) \in Seq(CanaryWindow)
      /\ Shown(g.w1) \o Shown(g.w2) \o Shown(g.w3) \in Seq(CanaryWindow)
      /\ NoBetter(Shown(g.w1) \o Shown(g.w2) \o Shown(g.w3), Shown(f.w1) \o Shown(f.w2) \o Shown(f.w3))
  BY <1>2, <1>3, JoinedNoBetter
<1>5. /\ WindowsOf(f) \in Seq(CanaryWindow) /\ WindowsOf(g) \in Seq(CanaryWindow)
      /\ NoBetter(WindowsOf(g), WindowsOf(f))
  BY <1>2, <1>4, JoinedNoBetter DEF WindowsOf
<1> QED BY <1>5, WindowsAreMonotone

\* What RefusalStands says, of the gates whose facts are known.
StandsWhereWatched ==
  gate \in Watched =>
    \A x \in DOMAIN facts :
      facts'[x] # facts[x] /\ Worse(gate, x, facts[x], facts'[x]) /\ Agrees(gate, facts')
        => Agrees(gate, facts)

\* For any SLO and evidence, any three rules and any canary windows: where the judge,
\* the policy or the promotion refused, no one fact that gets worse makes it consent
\* (slo_judge.py:79, pdp.py:163, canary_auto_promote.py:17-41).
THEOREM ThreeRefusalsStand == GateSpec => [][StandsWhereWatched]_gateVars
<1>1. FactsTyped /\ FactsTyped' /\ [GateNext]_gateVars => [StandsWhereWatched]_gateVars
  <2> SUFFICES ASSUME FactsTyped, FactsTyped', GateNext, gate \in Watched,
                      NEW x \in DOMAIN facts, facts'[x] # facts[x],
                      Worse(gate, x, facts[x], facts'[x]), Agrees(gate, facts')
               PROVE  Agrees(gate, facts)
    BY DEF StandsWhereWatched
  <2>1. gate' = gate /\ \A y \in DOMAIN facts : y # x => facts'[y] = facts[y]
    BY DEF GateNext, ChangeFact
  <2>2. /\ FactNames(gate) \subseteq DOMAIN facts
        /\ \A y \in FactNames(gate) : facts[y] \in Kind(gate, y) /\ facts'[y] \in Kind(gate, y)
    BY <2>1 DEF FactsTyped
  <2>3. CASE gate = "slo"
    <3>1. /\ facts["slo"] \in Slo!SLOSpec /\ "slo" \notin Slo!Facts /\ x # "slo"
          /\ facts'["slo"] = facts["slo"]
          /\ \A y \in Slo!Facts : facts[y] \in Slo!Reported(y) /\ facts'[y] \in Slo!Reported(y)
      <4>1. FactNames(gate) = Slo!Facts \cup {"slo"}
        BY <2>3 DEF FactNames
      <4>2. "slo" \notin Slo!Facts
        BY DEF Slo!Facts, Slo!YesNo, Slo!RequiredBlocks, Slo!OptionalBlocks, Slo!UpperBounded, Slo!PerfMeasures,
               Slo!InfraLatency, Slo!CanaryDeltas, Slo!DriftMeasures, Slo!Saturation
      <4>3. x # "slo"
        BY <2>3 DEF Worse
      <4> QED BY <2>1, <2>2, <2>3, <4>1, <4>2, <4>3 DEF Kind
    <3>2. \A y \in Slo!Facts : facts'[y] = facts[y] \/ Slo!WorseFact(y, facts[y], facts'[y])
      <4>1. Slo!WorseFact(x, facts[x], facts'[x])
        BY <2>3 DEF Worse
      <4>2. Slo!Facts \subseteq DOMAIN facts
        BY <2>2, <2>3 DEF FactNames
      <4> QED BY <2>1, <4>1, <4>2
    <3>3. Slo!Passes(facts["slo"], facts')
      BY <2>3, <3>1 DEF Agrees
    <3>4. Slo!Passes(facts["slo"], facts)
      BY <3>1, <3>2, <3>3, JudgeIsMonotone
    <3> QED BY <2>3, <3>4 DEF Agrees
  <2>4. CASE gate = "pdp"
    <3>1. /\ facts.r1 \in PolicyRule /\ facts.r2 \in PolicyRule /\ facts.r3 \in PolicyRule
          /\ facts'.r1 \in PolicyRule /\ facts'.r2 \in PolicyRule /\ facts'.r3 \in PolicyRule
      BY <2>2, <2>4 DEF FactNames, Kind
    <3>2. \A y \in {"r1", "r2", "r3"} : facts'[y] = facts[y] \/ WorseRule(facts[y], facts'[y])
      <4>1. x \in {"r1", "r2", "r3"} => WorseRule(facts[x], facts'[x])
        BY <2>4 DEF Worse, ReportFields
      <4> QED BY <4>1, <2>1, <2>2, <2>4 DEF FactNames
    <3>3. Outranks(facts'.r1, facts'.r2, facts'.r3)
      <4>1. Decision(<<<<facts'.r1, facts'.r2>>, <<facts'.r3>>>>, "act") = "allow"
        BY <2>4 DEF Agrees
      <4> QED BY <4>1, <3>1, PriorityDecides
    <3>4. Outranks(facts.r1, facts.r2, facts.r3)
      BY <3>1, <3>2, <3>3, RulesAreMonotone
    <3>5. Decision(<<<<facts.r1, facts.r2>>, <<facts.r3>>>>, "act") = "allow"
      BY <3>1, <3>4, PriorityDecides
    <3> QED BY <2>4, <3>5 DEF Agrees
  <2>5. CASE gate = "promotion"
    <3>1. /\ \A y \in {"w1", "w2", "w3", "w4"} : /\ facts[y] \in CanaryWindow \cup {NoWindow}
                                                /\ facts'[y] \in CanaryWindow \cup {NoWindow}
          /\ facts.required \in Nat /\ facts.allowed \in Nat /\ facts.observation \in Nat
      BY <2>2, <2>5 DEF FactNames, Kind
    <3>2. /\ facts'.required = facts.required /\ facts'.allowed = facts.allowed
          /\ facts'.observation = facts.observation
      <4>1. x \notin {"required", "allowed", "observation"}
        BY <2>5 DEF Worse, ReportFields
      <4> QED BY <4>1, <2>1, <2>2, <2>5 DEF FactNames
    <3>3. \A y \in {"w1", "w2", "w3", "w4"} : facts'[y] = facts[y] \/ WorseWindow(facts[y], facts'[y])
      <4>1. x \in {"w1", "w2", "w3", "w4"} => WorseWindow(facts[x], facts'[x])
        BY <2>5 DEF Worse, ReportFields
      <4> QED BY <4>1, <2>1, <2>2, <2>5 DEF FactNames
    <3>4. Decide(WindowsOf(facts'), facts.required, facts.allowed, facts.observation) = "promote"
      BY <2>5, <3>2 DEF Agrees
    <3>5. Decide(WindowsOf(facts), facts.required, facts.allowed, facts.observation) = "promote"
      BY <3>1, <3>3, <3>4, CanariesAreMonotone
    <3> QED BY <2>5, <3>5 DEF Agrees
  <2> QED BY <2>3, <2>4, <2>5 DEF Watched
<1> QED BY <1>1, FactsStayTyped, PTL DEF GateSpec
=============================================================================
