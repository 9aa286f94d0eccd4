----------------------------- MODULE RbacReload -----------------------------
(***************************************************************************)
(* The RBAC map that workers reload while it is edited (RbacMapState in    *)
(* apps/policy/rbac_enforce.py). A worker hashes the file and reads it at  *)
(* two different moments, and hashes it last when it starts.               *)
(***************************************************************************)
CONSTANTS Workers,   \* server processes
          Contents,  \* what the file may hold
          Unparsed   \* those of them that YAML rejects

VARIABLES mapFile,  \* the content of the file, or "gone"
          shown,    \* history: the contents it has had
          back,     \* history: a content came back after another
          worker,   \* worker[w]: where w is, its routes, its hash, the hash just seen
          raced     \* history: the workers whose start an edit interrupted
vars == <<mapFile, shown, back, worker, raced>>

Nothing == "nothing"
Down    == [at |-> "down", routes |-> Nothing, sha |-> Nothing, seen |-> Nothing]
OnDisk  == Contents \cup {"gone"}

\* _sha256_of: a content stands for its hash, Nothing for a file that is not there.
Sha256Of(file) == IF file = "gone" THEN Nothing ELSE file

\* _load_map raises for a file that is gone or not YAML.
Loads(file) == file \in Contents \ Unparsed

-----------------------------------------------------------------------------
Init == /\ mapFile \in Contents \ Unparsed
        /\ shown = {mapFile} /\ back = FALSE
        /\ worker = [w \in Workers |-> Down] /\ raced = {}

\* An operator or a deployment replaces, removes or restores the file.
Edit(c) ==
  /\ c # mapFile
  /\ mapFile' = c
  /\ shown' = shown \cup {c}
  /\ back' = (back \/ c \in shown)
  /\ raced' = raced \cup {w \in Workers : worker[w].at = "starting"}
  /\ UNCHANGED worker

Step(w, state) ==
  /\ worker' = [worker EXCEPT ![w] = state]
  /\ UNCHANGED <<mapFile, shown, back>>

\* _force_reload_unlocked: routes first, then the hash.
Start(w) ==
  /\ worker[w].at = "down" /\ Loads(mapFile)
  /\ Step(w, [Down EXCEPT !.at = "starting", !.routes = mapFile])
  /\ raced' = raced \ {w}

Serve(w) ==
  /\ worker[w].at = "starting"
  /\ Step(w, [worker[w] EXCEPT !.at = "serving", !.sha = Sha256Of(mapFile)])
  /\ UNCHANGED raced

\* ensure_fresh, when it is due: hash, and go on if that is new.
Hash(w) ==
  /\ worker[w].at = "serving"
  /\ Sha256Of(mapFile) \notin {Nothing, worker[w].sha}
  /\ Step(w, [worker[w] EXCEPT !.at = "hashed", !.seen = Sha256Of(mapFile)])
  /\ UNCHANGED raced

\* Variant of Reload: the hash is kept even if the file does not load.
ReloadKeepsHash(w) ==
  /\ worker[w].at = "hashed"
  /\ Step(w, [worker[w] EXCEPT !.at = "serving", !.sha = worker[w].seen, !.seen = Nothing,
                                !.routes = IF Loads(mapFile) THEN mapFile ELSE @])
  /\ UNCHANGED raced

\* ... read again and load, or raise and keep both.
Reload(w) ==
  /\ worker[w].at = "hashed"
  /\ Step(w, IF Loads(mapFile)
               THEN [worker[w] EXCEPT !.at = "serving", !.seen = Nothing,
                                      !.routes = mapFile, !.sha = worker[w].seen]
               ELSE [worker[w] EXCEPT !.at = "serving", !.seen = Nothing])
  /\ UNCHANGED raced

Exit(w) ==
  /\ worker[w].at # "down"
  /\ Step(w, Down) /\ UNCHANGED raced

Next == \/ \E c \in OnDisk : Edit(c)
        \/ \E w \in Workers : Start(w) \/ Serve(w) \/ Hash(w) \/ Reload(w) \/ Exit(w)

Spec == Init /\ [][Next]_vars

-----------------------------------------------------------------------------
\* A worker that would see nothing to reload enforces the file as it is - unless an
\* edit fell into its start, or a content came back, when it may enforce an older map
\* for good (rbac_enforce.py:198-230).
UnchangedMeansCurrent ==
  \A w \in Workers :
    worker[w].at = "serving" /\ worker[w].sha = Sha256Of(mapFile) /\ ~back /\ w \notin raced
      => worker[w].routes = mapFile
=============================================================================
