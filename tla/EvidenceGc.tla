----------------------------- MODULE EvidenceGc -----------------------------
(***************************************************************************)
(* Garbage collection of evidence (jobs/evidence_gc.py): a run lists what  *)
(* may go, and removes it file by file while snapshots and harvesters      *)
(* write on. Candidates go oldest first; which those are is left open.     *)
(***************************************************************************)
EXTENDS Integers, FiniteSets

CONSTANTS Files,     \* names of files
          Kept,      \* those locked, or excluded by a pattern
          TenantOf,  \* the tenant in the meta block of each
          KeepMin,   \* keep_min_per_tenant
          Runs       \* runs of the collector that may overlap

VARIABLES disk,      \* disk[f]: "none", "young" or "old", or the same torn
          gc,        \* gc[r]: the files r still has to remove, or {} if it is not running
          calm,      \* history: no two runs overlapped and no file was torn
          enough     \* history: tenants that once had KeepMin files
vars == <<disk, gc, calm, enough>>

Global == "__global__"
Tenants == {TenantOf[f] : f \in Files}
States == {"none", "young", "old", "young torn", "old torn"}
There(d) == {f \in Files : d[f] # "none"}
Old(d)   == {f \in Files : d[f] \in {"old", "old torn"}}

\* _tenant: a file that cannot be read has none.
Belonging(d, t) ==
  {f \in There(d) : t = IF d[f] \in {"young", "old"} THEN TenantOf[f] ELSE Global}

Lower(i, j) == IF i < j THEN i ELSE j

\* Variant of MayGo: one file of the minimum may go too.
MayGoOneMore(d, t) ==
  Lower(Cardinality((Belonging(d, t) \cap Old(d)) \ Kept), Cardinality(Belonging(d, t)) - KeepMin + 1)

\* run: how many of the files of a tenant may go, of all it has.
MayGo(d, t) ==
  Lower(Cardinality((Belonging(d, t) \cap Old(d)) \ Kept), Cardinality(Belonging(d, t)) - KeepMin)

\* The lists a run may come to: as many of each tenant as may go.
Candidates(d) ==
  {c \in SUBSET (Old(d) \ Kept) :
     \A t \in Tenants \cup {Global} :
       Cardinality(c \cap Belonging(d, t)) = IF MayGo(d, t) > 0 THEN MayGo(d, t) ELSE 0}

Reached(d) == {t \in Tenants : Cardinality(Belonging(d, t)) >= KeepMin}

-----------------------------------------------------------------------------
Init == /\ disk = [f \in Files |-> "none"] /\ gc = [r \in Runs |-> {}]
        /\ calm = TRUE /\ enough = {}

\* Evidence.save or merge_blocks
Write(f) ==
  /\ \E s \in {"young", "young torn"} :
       /\ disk' = [disk EXCEPT ![f] = s]
       /\ calm' = (calm /\ s # "young torn")
  /\ enough' = enough \cup Reached(disk')
  /\ UNCHANGED gc

Age(f) ==
  /\ disk[f] \in {"young", "young torn"}
  /\ disk' = [disk EXCEPT ![f] = IF @ = "young" THEN "old" ELSE "old torn"]
  /\ UNCHANGED <<gc, calm, enough>>

\* run: scan and list; a dry run ends here.
Scan(r) ==
  /\ gc[r] = {}
  /\ \E c \in Candidates(disk) : c # {} /\ gc' = [gc EXCEPT ![r] = c]
  /\ calm' = (calm /\ \A q \in Runs : gc[q] = {})
  /\ UNCHANGED <<disk, enough>>

\* ... and remove; a file already gone is passed over.
Unlink(r, f) ==
  /\ f \in gc[r]
  /\ gc' = [gc EXCEPT ![r] = @ \ {f}]
  /\ disk' = [disk EXCEPT ![f] = "none"]
  /\ UNCHANGED <<calm, enough>>

\* A run dies with files left to remove.
Die(r) ==
  /\ gc[r] # {}
  /\ gc' = [gc EXCEPT ![r] = {}] /\ UNCHANGED <<disk, calm, enough>>

Next == \/ \E f \in Files : Write(f) \/ Age(f)
        \/ \E r \in Runs : Scan(r) \/ Die(r) \/ \E f \in Files : Unlink(r, f)

Spec == Init /\ [][Next]_vars

-----------------------------------------------------------------------------
\* A tenant that once had the minimum of files keeps that many, whatever is written
\* while a run removes: unless two runs overlap, or a file is left torn and so belongs
\* to nobody (evidence_gc.py:27-67).
MinimumIsKept == calm => \A t \in enough : Cardinality(Belonging(disk, t)) >= KeepMin
=============================================================================
