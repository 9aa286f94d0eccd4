-------------------------- MODULE StageFile_proofs --------------------------
(* Theorems about StageFile, for any processes, keys and stages.             *)
EXTENDS StageFile, TLAPS

Writing(p) == pc[p] \in {"token", "manifest"}

\* Whoever is writing signs what was asked for; a reader only repairs.
WritesRequested ==
  \A p \in Procs :
    Writing(p) =>
      /\ goal[p] \in Stages
      /\ KeysOf[p] # {} => <<goal[p], KeyOf[p]>> \in requested
      /\ p \in Readers => goal[p] = Stable
      /\ pc[p] = "manifest" => KeysOf[p] # {}

\* Only a reader with a token in hand verifies.
OnlyReadersVerify == \A p \in Procs : pc[p] = "verify" => p \in Readers

\* No manifest vouches for more than was asked for.
ManifestRequested ==
  manifest # NoManifest => <<manifest.token, manifest.key>> \in requested

\* A process without company knows what the files hold.
AloneKnows ==
  /\ alone \in Procs =>
       /\ \A q \in Procs \ {alone} : Idle(q)
       /\ pc[alone] \in {"token", "manifest", "verify"}
       /\ pc[alone] = "verify" => seen[alone] = token
       /\ pc[alone] = "manifest" => goal[alone] = token
  /\ alone = Healed =>
       /\ \A q \in Procs : Idle(q)
       /\ Verified(token, manifest, Keys)

\* The inductive invariant.
IInv ==
  /\ TypeOK
  /\ WritesRequested
  /\ OnlyReadersVerify
  /\ ManifestRequested
  /\ ReadAuthentic
  /\ AloneKnows

USE ProcsAssumption, KeysAssumption, TokensAssumption
    DEF Stable, NoFile, Empty, Nobody, Healed

-----------------------------------------------------------------------------
\* A token that verifies was asked for, under a key the reader knows.
LEMMA VerifiedIsRequested ==
  ASSUME IInv, NEW p \in Procs, Verified(seen[p], manifest, KeysOf[p])
  PROVE  /\ seen[p] \in Stages
         /\ manifest.key \in KeysOf[p]
         /\ <<seen[p], manifest.key>> \in requested
<1>1. seen[p] \in Tokens /\ seen[p] # NoFile
  BY DEF IInv, TypeOK, Tokens
<1>2. manifest # NoManifest
  BY <1>1 DEF Verified, NoManifest
<1> QED
  BY <1>1, <1>2 DEF IInv, TypeOK, ManifestRequested, Verified

LEMMA InitInvariant == Init => IInv
<1> SUFFICES ASSUME Init PROVE IInv
  OBVIOUS
<1>1. TypeOK
  BY DEF Init, TypeOK, Tokens
<1>2. /\ WritesRequested /\ OnlyReadersVerify /\ ManifestRequested
      /\ ReadAuthentic /\ AloneKnows
  BY DEF Init, WritesRequested, OnlyReadersVerify, ManifestRequested,
         ReadAuthentic, AloneKnows, Writing
<1> QED
  BY <1>1, <1>2 DEF IInv

LEMMA TypeStep == IInv /\ [Next]_vars => TypeOK'
<1> SUFFICES ASSUME IInv, [Next]_vars PROVE TypeOK'
  OBVIOUS
<1> USE DEF TypeOK, Tokens
<1>0. TypeOK
  BY DEF IInv
<1>1. ASSUME NEW p \in Procs, NEW s \in Stages, StartWrite(p, s)
      PROVE  TypeOK'
  BY <1>0, <1>1 DEF StartWrite, Enter, files
<1>2. ASSUME NEW p \in Procs, NEW m \in Modes, Truncate(p, m)
      PROVE  TypeOK'
  BY <1>0, <1>2 DEF Truncate
<1>3. ASSUME NEW p \in Procs, WriteToken(p)
      PROVE  TypeOK'
  <2>1. goal[p] \in Stages
    BY <1>3 DEF IInv, WritesRequested, Writing, WriteToken
  <2> QED
    BY <1>0, <1>3, <2>1 DEF WriteToken
<1>4. ASSUME NEW p \in Procs, WriteManifest(p)
      PROVE  TypeOK'
  <2>1. goal[p] \in Stages /\ KeyOf[p] \in Keys
    BY <1>4 DEF IInv, WritesRequested, Writing, WriteManifest
  <2> QED
    BY <1>0, <1>4, <2>1 DEF WriteManifest, Leave, Sign
<1>5. ASSUME NEW p \in Procs, ReadNoFile(p)
      PROVE  TypeOK'
  BY <1>0, <1>5 DEF ReadNoFile, Repair, Enter, Return, Leave, files
<1>6. ASSUME NEW p \in Procs, ReadToken(p)
      PROVE  TypeOK'
  BY <1>0, <1>6 DEF ReadToken, Enter, files
<1>7. ASSUME NEW p \in Procs, ReadManifest(p)
      PROVE  TypeOK'
  <2>1. CASE Return(p, Stable, Nobody)
    BY <1>0, <1>7, <2>1 DEF ReadManifest, Return, Leave, files
  <2>2. CASE Verified(seen[p], manifest, KeysOf[p]) /\ Return(p, seen[p], Healed)
    <3>1. seen[p] \in Stages
      BY <2>2, VerifiedIsRequested
    <3> QED
      BY <1>0, <1>7, <2>2, <3>1 DEF ReadManifest, Return, Leave, files
  <2>3. CASE Repair(p) /\ UNCHANGED <<result, alone>>
    BY <1>0, <1>7, <2>3 DEF ReadManifest, Repair, files
  <2> QED
    BY <1>7, <2>1, <2>2, <2>3 DEF ReadManifest
<1>8. ASSUME NEW p \in Procs, Fill(p)
      PROVE  TypeOK'
  BY <1>0, <1>8 DEF Fill
<1>9. ASSUME NEW p \in Procs, Crash(p)
      PROVE  TypeOK'
  BY <1>0, <1>9 DEF Crash, Leave, files
<1>10. CASE UNCHANGED vars
  BY <1>0, <1>10 DEF vars, files
<1> QED
  BY <1>1, <1>2, <1>3, <1>4, <1>5, <1>6, <1>7, <1>8, <1>9, <1>10
     DEF Next, Advance

-----------------------------------------------------------------------------
\* Requests are never forgotten, so what they vouch for stays vouched for.
LEMMA RequestsGrow == [Next]_vars => requested \subseteq requested'
BY DEF Next, Advance, StartWrite, Truncate, WriteToken, WriteManifest,
       ReadNoFile, ReadToken, ReadManifest, Repair, Return, Fill, Crash, vars

\* Writers, repairing readers and the manifest carry only what was asked for.
LEMMA RequestStep ==
  ASSUME IInv, [Next]_vars
  PROVE  WritesRequested' /\ OnlyReadersVerify' /\ ManifestRequested'
<1> USE RequestsGrow
    DEF IInv, TypeOK, WritesRequested, OnlyReadersVerify, ManifestRequested,
        Writing
<1>1. ASSUME NEW p \in Procs, NEW s \in Stages, StartWrite(p, s)
      PROVE  WritesRequested' /\ OnlyReadersVerify' /\ ManifestRequested'
  BY <1>1 DEF StartWrite, files
<1>2. ASSUME NEW p \in Procs, NEW m \in Modes, Truncate(p, m)
      PROVE  WritesRequested' /\ OnlyReadersVerify' /\ ManifestRequested'
  BY <1>2 DEF Truncate
<1>3. ASSUME NEW p \in Procs, WriteToken(p)
      PROVE  WritesRequested' /\ OnlyReadersVerify' /\ ManifestRequested'
  BY <1>3 DEF WriteToken
<1>4. ASSUME NEW p \in Procs, WriteManifest(p)
      PROVE  WritesRequested' /\ OnlyReadersVerify' /\ ManifestRequested'
  BY <1>4 DEF WriteManifest, Leave, Sign
<1>5. ASSUME NEW p \in Procs, p \in Readers, Repair(p), UNCHANGED manifest
      PROVE  WritesRequested' /\ OnlyReadersVerify' /\ ManifestRequested'
  BY <1>5 DEF Repair
<1>6. ASSUME NEW p \in Procs, NEW h, Leave(p, h),
             UNCHANGED <<manifest, requested>>
      PROVE  WritesRequested' /\ OnlyReadersVerify' /\ ManifestRequested'
  BY <1>6 DEF Leave
<1>7. ASSUME NEW p \in Procs, ReadNoFile(p)
      PROVE  WritesRequested' /\ OnlyReadersVerify' /\ ManifestRequested'
  BY <1>5, <1>6, <1>7 DEF ReadNoFile, Return, files
<1>8. ASSUME NEW p \in Procs, ReadToken(p)
      PROVE  WritesRequested' /\ OnlyReadersVerify' /\ ManifestRequested'
  BY <1>8 DEF ReadToken, files
<1>9. ASSUME NEW p \in Procs, ReadManifest(p)
      PROVE  WritesRequested' /\ OnlyReadersVerify' /\ ManifestRequested'
  BY <1>5, <1>6, <1>9 DEF ReadManifest, Return, files
<1>10. ASSUME NEW p \in Procs, Fill(p)
       PROVE  WritesRequested' /\ OnlyReadersVerify' /\ ManifestRequested'
  BY <1>10 DEF Fill
<1>11. ASSUME NEW p \in Procs, Crash(p)
       PROVE  WritesRequested' /\ OnlyReadersVerify' /\ ManifestRequested'
  BY <1>6, <1>11 DEF Crash, files
<1>12. CASE UNCHANGED vars
  BY <1>12 DEF vars, files
<1> QED
  BY <1>1, <1>2, <1>3, <1>4, <1>7, <1>8, <1>9, <1>10, <1>11, <1>12
     DEF Next, Advance

\* A reader returns "stable", or what VerifiedIsRequested vouches for.
LEMMA AuthenticStep ==
  ASSUME IInv, [Next]_vars PROVE ReadAuthentic'
<1> USE RequestsGrow DEF IInv, TypeOK, ReadAuthentic
<1>1. CASE UNCHANGED result
  BY <1>1
<1>2. ASSUME NEW p \in Procs, NEW t, Return(p, t, Nobody) \/ Return(p, t, Healed),
             t # Stable => \E k \in KeysOf[p] : <<t, k>> \in requested
      PROVE  ReadAuthentic'
  BY <1>2 DEF Return
<1>3. ASSUME NEW p \in Procs, WriteManifest(p)
      PROVE  ReadAuthentic'
  BY <1>1, <1>3 DEF WriteManifest, WritesRequested, Writing
<1>4. ASSUME NEW p \in Procs, ReadNoFile(p)
      PROVE  ReadAuthentic'
  BY <1>1, <1>2, <1>4 DEF ReadNoFile
<1>5. ASSUME NEW p \in Procs, ReadManifest(p)
      PROVE  ReadAuthentic'
  <2>1. CASE Return(p, Stable, Nobody)
    BY <1>2, <2>1
  <2>2. CASE Verified(seen[p], manifest, KeysOf[p]) /\ Return(p, seen[p], Healed)
    BY <1>2, <2>2, VerifiedIsRequested
  <2> QED
    BY <1>1, <1>5, <2>1, <2>2 DEF ReadManifest
<1> QED
  BY <1>1, <1>3, <1>4, <1>5
     DEF Next, Advance, StartWrite, Truncate, WriteToken, ReadToken, Fill,
         Crash, vars

-----------------------------------------------------------------------------
\* A call that starts while nothing runs is alone; one that returns alone has
\* left a pair that verifies; any other step ends the solitude.
LEMMA AloneStep ==
  ASSUME IInv, [Next]_vars PROVE AloneKnows'
<1> USE DEF IInv, TypeOK, AloneKnows, Idle
<1>1. ASSUME NEW p \in Procs, Enter(p), UNCHANGED files, Idle(p),
             NEW x \in {"token", "verify"}, pc' = [pc EXCEPT ![p] = x],
             x = "verify" => seen'[p] = token
      PROVE  AloneKnows'
  BY <1>1 DEF Enter, files
<1>2. ASSUME NEW p \in Procs, alone' = Nobody
      PROVE  AloneKnows'
  BY <1>2
<1>3. ASSUME NEW p \in Procs, NEW s \in Stages, StartWrite(p, s)
      PROVE  AloneKnows'
  BY <1>1, <1>3 DEF StartWrite
<1>4. ASSUME NEW p \in Procs, NEW m \in Modes, Truncate(p, m)
      PROVE  AloneKnows'
  BY <1>2, <1>4 DEF Truncate
<1>5. ASSUME NEW p \in Procs, WriteToken(p)
      PROVE  AloneKnows'
  <2>1. ~Idle(p)
    BY <1>5 DEF WriteToken
  <2>2. CASE KeysOf[p] # {} /\ alone = p
    BY <1>5, <2>2 DEF WriteToken
  <2>3. CASE KeysOf[p] # {} /\ alone # p
    BY <1>5, <2>1, <2>3 DEF WriteToken
  <2> QED
    BY <1>2, <1>5, <2>2, <2>3 DEF WriteToken
<1>6. ASSUME NEW p \in Procs, WriteManifest(p)
      PROVE  AloneKnows'
  <2>1. ~Idle(p) /\ KeyOf[p] \in Keys
    BY <1>6 DEF WriteManifest, WritesRequested, Writing
  <2> QED
    BY <1>6, <2>1 DEF WriteManifest, Leave, Sign, Verified
<1>7. ASSUME NEW p \in Procs, ReadNoFile(p)
      PROVE  AloneKnows'
  <2>1. CASE p \in Configured
    BY <1>1, <1>7, <2>1 DEF ReadNoFile, Repair
  <2>2. CASE p \notin Configured
    BY <1>2, <1>7, <2>2 DEF ReadNoFile, Return, Leave
  <2> QED
    BY <2>1, <2>2
<1>8. ASSUME NEW p \in Procs, ReadToken(p)
      PROVE  AloneKnows'
  BY <1>1, <1>8 DEF ReadToken
<1>9. ASSUME NEW p \in Procs, ReadManifest(p)
      PROVE  AloneKnows'
  <2>1. ~Idle(p)
    BY <1>9 DEF ReadManifest
  <2>2. CASE Return(p, Stable, Nobody)
    BY <1>2, <2>2 DEF Return, Leave
  <2>3. CASE Verified(seen[p], manifest, KeysOf[p]) /\ Return(p, seen[p], Healed)
    BY <1>9, <2>1, <2>3 DEF ReadManifest, Return, Leave, Verified, files
  <2>4. CASE Repair(p) /\ UNCHANGED <<result, alone>>
    BY <1>9, <2>1, <2>4 DEF ReadManifest, Repair, files
  <2> QED
    BY <1>9, <2>2, <2>3, <2>4 DEF ReadManifest
<1>10. ASSUME NEW p \in Procs, Fill(p)
       PROVE  AloneKnows'
  BY <1>2, <1>10 DEF Fill
<1>11. ASSUME NEW p \in Procs, Crash(p)
       PROVE  AloneKnows'
  BY <1>2, <1>11 DEF Crash, Leave
<1>12. CASE UNCHANGED vars
  BY <1>12 DEF vars, files
<1> QED
  BY <1>3, <1>4, <1>5, <1>6, <1>7, <1>8, <1>9, <1>10, <1>11, <1>12
     DEF Next, Advance

LEMMA StepInvariant == IInv /\ [Next]_vars => IInv'
BY TypeStep, RequestStep, AuthenticStep, AloneStep DEF IInv

-----------------------------------------------------------------------------
\* The inductive invariant holds in every reachable state.
THEOREM Invariance == Spec => []IInv
BY InitInvariant, StepInvariant, PTL DEF Spec

\* Every variable keeps its type.
THEOREM TypeCorrect == Spec => []TypeOK
<1>1. IInv => TypeOK
  BY DEF IInv
<1> QED
  BY <1>1, Invariance, PTL

\* No interleaving of renames, repairs, bypassing writes, crashes and key
\* rotations makes a guarded read return a stage nobody asked for.
THEOREM GuardedReadsAreAuthentic == Spec => []ReadAuthentic
<1>1. IInv => ReadAuthentic
  BY DEF IInv
<1> QED
  BY <1>1, Invariance, PTL

\* A call that runs alone leaves a token and a manifest that match.
THEOREM SoloCallsHeal == Spec => []SoloCallHeals
<1>1. IInv => SoloCallHeals
  BY DEF IInv, AloneKnows, SoloCallHeals
<1> QED
  BY <1>1, Invariance, PTL
=============================================================================
