------------------------------ MODULE Evidence ------------------------------
(***************************************************************************)
(* Evidence files and their way into locked storage: snapshots             *)
(* (apps/obs/evidence/snapshot.py), harvesters that merge blocks into them *)
(* (ops.py, jobs/evidence_harvest_*.py), the index (indexer.py), the       *)
(* uploads (jobs/evidence_objectlock.py, scripts/ops/evidence_lockdown.py) *)
(* and the restore (jobs/dr_restore.py). What a file holds stands for its  *)
(* hash; its name says whether it is locked.                               *)
(***************************************************************************)
CONSTANTS Names,   \* files of var/evidence
          Locked   \* those of them whose names end in .locked.json

VARIABLES file,      \* file[n]: what it holds
          harvest,   \* what a harvester has read and not yet written back
          upload,    \* the upload under way: its files to do, those of them that changed
                     \* since they were scanned; a lockdown that found nothing
                     \* tampered with; or NotRunning
          bucket,    \* bucket[n]: the object under lock
          swapped    \* history: files that changed between their scan and their upload
vars == <<file, harvest, upload, bucket, swapped>>

\* Evidence as it was signed; changed by hand since; changed and then signed again by a
\* harvester; or unsigned: not written to its end, or JSON that is no evidence.
Holdings == {"genuine", "altered", "resigned", "unsigned", "none"}
Exists(n) == file[n] # "none"

NotRunning == [kind |-> "none"]
Verified == [kind |-> "verified"]
Uploading == upload.kind = "upload"

\* scan_dir: no required block missing, and the signature is that of the core blocks.
Tampered(holding) == holding \in {"altered", "unsigned"}

\* Variant of Uploads: what was tampered with is uploaded too.
UploadsAnything(scanned, onlyLocked) ==
  {n \in Names : scanned[n] # "none" /\ (onlyLocked => n \in Locked)}

\* The files whose entries the two tools upload.
Uploads(scanned, onlyLocked) ==
  {n \in Names : scanned[n] # "none" /\ ~Tampered(scanned[n]) /\ (onlyLocked => n \in Locked)}

\* verify_integrity.
Sound == \A n \in Names : Exists(n) => ~Tampered(file[n])

\* put_with_object_lock: the newest version of an object; the local stub overwrites it.
Put(n) == bucket' = [bucket EXCEPT ![n] = file[n]]

\* list_keys, to the last page; and get_object.
Listed == {n \in Names : bucket[n] # "none"}
Got(n) == bucket[n]

-----------------------------------------------------------------------------
Init == /\ file = [n \in Names |-> "none"] /\ bucket = file
        /\ harvest = NotRunning /\ upload = NotRunning /\ swapped = {}

\* A file is written, to its end or not. Who scans it half written finds no signature.
Write(n, holding) ==
  /\ file' = [file EXCEPT ![n] = holding]
  /\ upload' = IF Uploading /\ n \in upload.todo THEN [upload EXCEPT !.changed = @ \cup {n}]
               ELSE upload
  /\ UNCHANGED <<bucket, swapped>>

\* Evidence.save; two snapshots of one second share a name. The summaries of the
\* harvesters and the report of the upload lie in the same directory.
Save(n) == \E h \in {"genuine", "unsigned"} : Write(n, h) /\ UNCHANGED harvest

\* Somebody changes what was signed.
Alter(n) == file[n] \in {"genuine", "resigned"} /\ Write(n, "altered") /\ UNCHANGED harvest

\* merge_blocks: read; add blocks, sign the whole again and write.
HarvestRead(n) ==
  /\ harvest = NotRunning /\ file[n] \in {"genuine", "altered", "resigned"}
  /\ harvest' = [kind |-> "harvest", name |-> n, holds |-> file[n]]
  /\ UNCHANGED <<file, upload, bucket, swapped>>

HarvestWrite ==
  /\ harvest # NotRunning
  /\ \E h \in {IF harvest.holds = "genuine" THEN "genuine" ELSE "resigned", "unsigned"} : Write(harvest.name, h)
  /\ harvest' = NotRunning

\* evidence_lockdown --lock: it goes no further if anything was tampered with.
Verify ==
  /\ upload = NotRunning /\ Sound
  /\ upload' = Verified
  /\ UNCHANGED <<file, harvest, bucket, swapped>>

\* write_index, then evidence_objectlock.main; or, verified, evidence_lockdown.lock_to_s3,
\* which scans once more and takes every tier.
UploadBegin(onlyLocked) ==
  /\ upload = NotRunning \/ (upload = Verified /\ ~onlyLocked)
  /\ upload' = [kind |-> "upload", todo |-> Uploads(file, onlyLocked), changed |-> {}]
  /\ UNCHANGED <<file, harvest, bucket, swapped>>

\* One object: the file is read once more. A file that is gone is reported.
UploadOne(n) ==
  /\ Uploading /\ n \in upload.todo
  /\ upload' = [upload EXCEPT !.todo = @ \ {n}, !.changed = @ \ {n}]
  /\ IF Exists(n)
       THEN /\ Put(n)
            /\ swapped' = (swapped \ {n}) \cup (upload.changed \cap {n})
       ELSE UNCHANGED <<bucket, swapped>>
  /\ UNCHANGED <<file, harvest>>

UploadEnd ==
  /\ Uploading /\ upload.todo = {}
  /\ upload' = NotRunning
  /\ UNCHANGED <<file, harvest, bucket, swapped>>

\* The disk is lost, or a file removed.
Lose(n) == Exists(n) /\ Write(n, "none") /\ UNCHANGED harvest

\* dr_restore.main, into the place of what was lost. What it finds out about lock and
\* hash goes into its report only.
Restore(n) == n \in Listed /\ ~Exists(n) /\ Write(n, Got(n)) /\ UNCHANGED harvest

Next == \/ \E n \in Names : \/ Save(n) \/ Alter(n) \/ HarvestRead(n) \/ UploadOne(n)
                            \/ Restore(n) \/ Lose(n)
        \/ \E onlyLocked \in BOOLEAN : UploadBegin(onlyLocked)
        \/ HarvestWrite \/ Verify \/ UploadEnd

Spec == Init /\ [][Next]_vars

-----------------------------------------------------------------------------
\* What is under lock, and so what is restored from there, was never changed by hand: but
\* for a change between scan and upload, or one a harvester has signed over
\* (indexer.py:58-95, evidence_objectlock.py:63-84, evidence_lockdown.py:97-116).
SealedIsGenuine ==
  \A n \in Names : n \notin swapped => bucket[n] \in {"none", "genuine", "resigned"}
=============================================================================
