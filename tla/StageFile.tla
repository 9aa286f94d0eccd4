----------------------------- MODULE StageFile ------------------------------
(* The rollout stage on disk (apps/experiment/stage_file.py): a token file   *)
(* holding one of stable, canary, promote, abort, and a manifest beside it   *)
(* with the hash and the HMAC of the token.  The two are replaced by two     *)
(* renames, without a lock, by every process that writes a stage and by      *)
(* every reader that repairs a pair it cannot verify.  Two writers bypass    *)
(* the module and write the token in place: TrafficController without a key  *)
(* (apps/experiment/controller.py) and jobs/risk_decide_and_stage.py.        *)
EXTENDS Naturals, FiniteSets

CONSTANTS
  Procs,        \* processes that share the two files
  Writers,      \* those that call write_stage_atomic
  Readers,      \* those that call read_stage_with_guard, again and again
  Bypassers,    \* those that write the token in place
  Stages,       \* what write_stage_atomic is asked to write
  Modes,        \* what the bypassing writers write
  Keys,         \* signing keys
  KeysOf,       \* KeysOf[p]: the keys p finds in its environment
  KeyOf,        \* KeyOf[p]: the one p signs with
  Configured,   \* processes for which a key variable is set, well formed or not
  MaxWrites,    \* bound: writes that are started
  MaxCrashes    \* bound: processes that are killed

Stable == "stable"
NoFile == "nofile"      \* the file does not exist
Empty  == "empty"       \* a file truncated and not yet filled
Nobody == "nobody"
Healed == "healed"

ASSUME ProcsAssumption ==
  /\ Writers \subseteq Procs /\ Readers \subseteq Procs
  /\ Bypassers \subseteq Procs /\ Configured \subseteq Procs
  /\ Writers \cap Readers = {}
  /\ {Nobody, Healed} \cap Procs = {}
  /\ MaxWrites \in Nat /\ MaxCrashes \in Nat

\* A process whose variable does not parse is configured and has no key.
ASSUME KeysAssumption ==
  /\ KeysOf \in [Procs -> SUBSET Keys]
  /\ \A p \in Procs \ Configured : KeysOf[p] = {}
  /\ \A p \in Procs : KeysOf[p] # {} => KeyOf[p] \in KeysOf[p]

ASSUME TokensAssumption ==
  /\ Stable \in Stages
  /\ {NoFile, Empty} \cap (Stages \cup Modes) = {}

VARIABLES
  token,      \* content of the token file
  manifest,   \* the manifest: the token it signs, and the key
  pc,         \* where each process is
  goal,       \* the stage each process is writing
  seen,       \* the token each reader has read
  result,     \* what each reader's last call returned
  writes,     \* writes started so far
  crashes,    \* processes killed so far
  requested,  \* history: stage and key of every call of write_stage_atomic
  alone       \* history: the process running with no other call overlapping

files == <<token, manifest>>
vars  == <<token, manifest, pc, goal, seen, result, writes, crashes, requested,
           alone>>

Tokens == Stages \cup Modes \cup {Empty}

Sign(t, k) == [token |-> t, key |-> k]

NoManifest == [token |-> NoFile, key |-> NoFile]

\* Variant of Verified: the hash is compared, the HMAC is not.
VerifiedHashOnly(t, m, ks) == m.token = t

\* _verify_manifest, for a reader that knows the keys ks: hash and HMAC match
\* the token exactly if the manifest was made for that token.
Verified(t, m, ks) == m.token = t /\ m.key \in ks

Idle(p) == pc[p] = "idle"

Init ==
  /\ token = NoFile
  /\ manifest = NoManifest
  /\ pc = [p \in Procs |-> "idle"]
  /\ goal = [p \in Procs |-> Stable]
  /\ seen = [p \in Procs |-> Empty]
  /\ result = [p \in Procs |-> Stable]
  /\ writes = 0
  /\ crashes = 0
  /\ requested = {}
  /\ alone = Nobody

-----------------------------------------------------------------------------
\* A call starts; it runs alone if nothing else is running.
Enter(p) ==
  alone' = IF \A q \in Procs : Idle(q) THEN p ELSE Nobody

\* A call returns: h is Healed if it has left a pair that verifies, and it ran
\* alone.
Leave(p, h) ==
  /\ pc' = [pc EXCEPT ![p] = "idle"]
  /\ goal' = [goal EXCEPT ![p] = Stable]
  /\ seen' = [seen EXCEPT ![p] = Empty]
  /\ alone' = IF alone = p THEN h ELSE Nobody

\* write_stage_atomic is called; without a key variable it raises at once.
StartWrite(p, s) ==
  /\ p \in Writers \cap Configured
  /\ Idle(p)
  /\ writes < MaxWrites
  /\ writes' = writes + 1
  /\ pc' = [pc EXCEPT ![p] = "token"]
  /\ goal' = [goal EXCEPT ![p] = s]
  /\ requested' = requested \cup {<<s, k>> : k \in KeysOf[p] \cap {KeyOf[p]}}
  /\ Enter(p)
  /\ UNCHANGED <<files, seen, result, crashes>>

\* First rename.  _current_key is read only after it: a process without a
\* usable key has replaced the token when it raises.  A bypassing writer that
\* has the old file open is left with a file that has no name.
WriteToken(p) ==
  /\ pc[p] = "token"
  /\ token' = goal[p]
  /\ pc' = [q \in Procs |->
              IF q = p THEN IF KeysOf[p] = {} THEN "idle" ELSE "manifest"
              ELSE IF pc[q] = "fill" THEN "unlinked" ELSE pc[q]]
  /\ goal' = IF KeysOf[p] = {} THEN [goal EXCEPT ![p] = Stable] ELSE goal
  /\ alone' = IF KeysOf[p] = {} THEN Nobody ELSE alone
  /\ UNCHANGED <<manifest, seen, result, writes, crashes, requested>>

\* Second rename; the call returns.  A repair returns the stage it wrote.
WriteManifest(p) ==
  /\ pc[p] = "manifest"
  /\ manifest' = Sign(goal[p], KeyOf[p])
  /\ result' = IF p \in Readers THEN [result EXCEPT ![p] = goal[p]] ELSE result
  /\ Leave(p, Healed)
  /\ UNCHANGED <<token, writes, crashes, requested>>

\* Variant of Repair: only the manifest is made anew.
RepairManifestOnly(p) ==
  /\ pc' = [pc EXCEPT ![p] = "manifest"]
  /\ goal' = [goal EXCEPT ![p] = Stable]
  /\ seen' = [seen EXCEPT ![p] = Empty]
  /\ requested' =
       requested \cup {<<Stable, k>> : k \in KeysOf[p] \cap {KeyOf[p]}}

\* A reader turns into a writer of "stable".
Repair(p) ==
  /\ pc' = [pc EXCEPT ![p] = "token"]
  /\ goal' = [goal EXCEPT ![p] = Stable]
  /\ seen' = [seen EXCEPT ![p] = Empty]
  /\ requested' =
       requested \cup {<<Stable, k>> : k \in KeysOf[p] \cap {KeyOf[p]}}

Return(p, t, h) ==
  /\ result' = [result EXCEPT ![p] = t]
  /\ Leave(p, h)
  /\ UNCHANGED requested

\* _read_or_repair without a token file: a stage is written only with a key.
ReadNoFile(p) ==
  /\ p \in Readers
  /\ Idle(p)
  /\ token = NoFile
  /\ IF p \in Configured
       THEN Repair(p) /\ Enter(p) /\ UNCHANGED result
       ELSE Return(p, Stable, Nobody)
  /\ UNCHANGED <<files, writes, crashes>>

\* _read_or_repair reads the token.
ReadToken(p) ==
  /\ p \in Readers
  /\ Idle(p)
  /\ token # NoFile
  /\ seen' = [seen EXCEPT ![p] = token]
  /\ pc' = [pc EXCEPT ![p] = "verify"]
  /\ Enter(p)
  /\ UNCHANGED <<files, goal, result, writes, crashes, requested>>

\* Variant of ReadManifest: an unverified token is read as "stable" and left.
ReadManifestNoRepair(p) ==
  /\ pc[p] = "verify"
  /\ Return(p, IF Verified(seen[p], manifest, KeysOf[p]) THEN seen[p]
               ELSE Stable, Nobody)
  /\ UNCHANGED <<files, writes, crashes>>

\* The manifest is read after the token, and the two are compared.
ReadManifest(p) ==
  /\ pc[p] = "verify"
  /\ \/ /\ p \notin Configured
        /\ Return(p, Stable, Nobody)
     \/ /\ p \in Configured
        /\ Verified(seen[p], manifest, KeysOf[p])
        /\ Return(p, seen[p], Healed)
     \/ /\ p \in Configured
        /\ ~Verified(seen[p], manifest, KeysOf[p])
        /\ Repair(p)
        /\ UNCHANGED <<result, alone>>
  /\ UNCHANGED <<files, writes, crashes>>

\* open(path, "w") truncates the file before it is filled.
Truncate(p, m) ==
  /\ p \in Bypassers
  /\ Idle(p)
  /\ writes < MaxWrites
  /\ writes' = writes + 1
  /\ token' = Empty
  /\ pc' = [pc EXCEPT ![p] = "fill"]
  /\ goal' = [goal EXCEPT ![p] = m]
  /\ alone' = Nobody
  /\ UNCHANGED <<manifest, seen, result, crashes, requested>>

Fill(p) ==
  /\ pc[p] \in {"fill", "unlinked"}
  /\ token' = IF pc[p] = "fill" THEN goal[p] ELSE token
  /\ pc' = [pc EXCEPT ![p] = "idle"]
  /\ goal' = [goal EXCEPT ![p] = Stable]
  /\ alone' = Nobody
  /\ UNCHANGED <<manifest, seen, result, writes, crashes, requested>>

\* A process is killed between two steps.
Crash(p) ==
  /\ ~Idle(p)
  /\ crashes < MaxCrashes
  /\ crashes' = crashes + 1
  /\ Leave(p, Nobody)
  /\ UNCHANGED <<files, result, writes, requested>>

Advance(p) ==
  \/ WriteToken(p)
  \/ WriteManifest(p)
  \/ ReadNoFile(p)
  \/ ReadToken(p)
  \/ ReadManifest(p)
  \/ Fill(p)

Next ==
  \E p \in Procs :
    \/ \E s \in Stages : StartWrite(p, s)
    \/ \E m \in Modes : Truncate(p, m)
    \/ Advance(p)
    \/ Crash(p)

Spec == Init /\ [][Next]_vars

\* Processes run on until they return, and readers poll.
FairSpec == Spec /\ \A p \in Procs : WF_vars(Advance(p))

-----------------------------------------------------------------------------
(* Properties *)

\* The two files hold what some write put there (stage_file.py:93-109), and a
\* guarded read returns a stage, never a token of the bypassing writers.
TypeOK ==
  /\ token \in Tokens \cup {NoFile}
  /\ manifest \in [token : Stages, key : Keys] \cup {NoManifest}
  /\ pc \in [Procs ->
            {"idle", "token", "manifest", "verify", "fill", "unlinked"}]
  /\ goal \in [Procs -> Stages \cup Modes]
  /\ seen \in [Procs -> Tokens]
  /\ result \in [Procs -> Stages]
  /\ writes \in 0 .. MaxWrites
  /\ crashes \in 0 .. MaxCrashes
  /\ requested \subseteq Stages \X Keys
  /\ alone \in Procs \cup {Nobody, Healed}

\* Whatever tokens are torn, bypassed, overwritten or half written between the
\* two reads, a guarded read returns "stable" or a stage that was asked of
\* write_stage_atomic by a process signing with a key the reader knows.
ReadAuthentic ==
  \A p \in Readers :
    result[p] # Stable => \E k \in KeysOf[p] : <<result[p], k>> \in requested

\* A write or a guarded read that no other call overlaps leaves a token and a
\* manifest that match, whatever state earlier crashes and races left.
SoloCallHeals == alone = Healed => Verified(token, manifest, Keys)

\* The repairs of several readers do not chase each other: once the writers
\* are done, the token stops changing.
TokenSettles == \E t \in Tokens : <>[](token = t)

\* Once the writers are done, every reader that holds a key comes to return
\* the stage that is in the file, and stays with it.
ReadersAgree ==
  \A p \in {q \in Readers : KeysOf[q] # {}} : <>[](result[p] = token)

\* "stage 파일 원자적 업데이트" (pipeline/release/README.md): when
\* write_stage_atomic returns to the only writer, its stage is in the file.
WriteIsAtomic ==
  [][\A p \in Writers : WriteManifest(p) => token = goal[p]]_vars
=============================================================================
