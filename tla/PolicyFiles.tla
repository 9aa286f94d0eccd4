---------------------------- MODULE PolicyFiles ----------------------------
(***************************************************************************)
(* Policy files, their signatures, the registry with its chain of root     *)
(* hashes (scripts/policy/{sign,verify,registry}.py), and the rotation of  *)
(* the signing key (scripts/ops/rotate_key_zero_downtime.sh). A content    *)
(* stands for its SHA-256, the contents of all policies for the root hash. *)
(***************************************************************************)
EXTENDS Naturals, Sequences, SequencesExt

CONSTANTS Policies, Contents, Keys,
          FirstKey,   \* the key that is active to begin with
          MaxChain    \* bound: links of the chain

VARIABLES policy,      \* policy[p]: content of the file
          signature,   \* signature[p]: of what, by which key; or Torn or Unsigned
          keyState,    \* keyState[k]: "absent", "grace", "active" or "retired"
          signing,     \* signing[a]: the signature that a is about to write, or Idle
          registry,    \* what registry.json holds, or Torn or Unsigned
          updating,    \* updating[a]: where a's update of it is, and what a holds
          rotation,    \* the script: where it is, its new key, the keys it was started with,
                       \* the policies still to sign, those that verified when it began
          touched,     \* history: policies edited or signed by hand since it began
          history,     \* history: the roots that were saved, one after the other
          orderly      \* history: no two updates overlapped and none died
vars == <<policy, signature, keyState, signing, registry, updating, rotation, touched, history, orderly>>

Unsigned == [kind |-> "none"]
Torn     == [kind |-> "torn"]
Idle     == [kind |-> "idle"]
Signed(content, key) == [kind |-> "signed", sha |-> content, key |-> key]
Registry(root, chain) == [kind |-> "registry", root |-> root, chain |-> chain]
NoRoot == [p \in {} |-> p]

\* The rotation script and a person with the same tools.
Actors == {"script", "person"}

\* _load_hmac_keys
Usable(states) == {k \in Keys : states[k] \in {"active", "grace"}}

\* verify_file
Verifies(content, sig, states) ==
  sig.kind = "signed" /\ sig.sha = content /\ sig.key \in Usable(states)

\* load_registry: what cannot be read counts as a new one.
LoadedRegistry(file) == IF file.kind = "registry" THEN file ELSE Registry(NoRoot, <<>>)

\* Variant of Extended: every update adds a link.
ExtendedAlways(reg, root) == Registry(root, Append(reg.chain, [root |-> root, prev |-> reg.root]))

\* update_registry: a link is added if the root is another.
Extended(reg, root) ==
  IF root = reg.root THEN reg
  ELSE Registry(root, Append(reg.chain, [root |-> root, prev |-> reg.root]))

\* verify_chain
VerifyChain(reg) ==
  reg.chain # <<>> =>
    /\ \A i \in 2..Len(reg.chain) : reg.chain[i].prev = reg.chain[i - 1].root
    /\ Last(reg.chain).root = reg.root

-----------------------------------------------------------------------------
Init ==
  /\ policy \in [Policies -> Contents]
  /\ keyState = [k \in Keys |-> IF k = FirstKey THEN "active" ELSE "absent"]
  /\ signature = [p \in Policies |-> Signed(policy[p], FirstKey)]
  /\ signing = [a \in Actors |-> Idle]
  /\ registry = Unsigned /\ updating = [a \in Actors |-> Idle]
  /\ rotation = [at |-> "idle", key |-> FirstKey, known |-> {}, todo |-> {}, sound |-> {}]
  /\ touched = {} /\ history = <<>> /\ orderly = TRUE

UnchangedRegistry == UNCHANGED <<registry, updating, history, orderly>>

Edit(p, c) ==
  /\ policy[p] # c
  /\ policy' = [policy EXCEPT ![p] = c]
  /\ touched' = touched \cup {p}
  /\ UNCHANGED <<signature, keyState, signing, rotation>> /\ UnchangedRegistry

\* sign_file, and write_signature up to the opening of its file
BeginSign(a, p, key) ==
  /\ signing[a] = Idle
  /\ signing' = [signing EXCEPT ![a] = [kind |-> "writing", policy |-> p, text |-> Signed(policy[p], key)]]
  /\ signature' = [signature EXCEPT ![p] = Torn]
  /\ UNCHANGED <<policy, keyState>> /\ UnchangedRegistry

\* write_signature, the rest. Two at a time leave the one or the other, or neither.
FinishSign(a) ==
  /\ signing[a] # Idle
  /\ LET p == signing[a].policy
     IN  signature' \in {[signature EXCEPT ![p] = s] :
                           s \in {signing[a].text} \cup (IF signature[p] = Torn THEN {} ELSE {Torn})}
  /\ signing' = [signing EXCEPT ![a] = Idle]
  /\ UNCHANGED <<policy, keyState, rotation, touched>> /\ UnchangedRegistry

\* A person signs with a key of theirs: the one named, or the first in the list.
SignByHand(p) ==
  /\ \E k \in Usable(keyState) : BeginSign("person", p, k)
  /\ touched' = touched \cup {p} /\ UNCHANGED rotation

-----------------------------------------------------------------------------
\* registry.py update: load, compute and open the file for writing, write.
Load(a) ==
  /\ updating[a] = Idle
  /\ updating' = [updating EXCEPT ![a] = [kind |-> "loaded", reg |-> LoadedRegistry(registry)]]
  /\ orderly' = (orderly /\ \A b \in Actors : updating[b] = Idle)
  /\ UNCHANGED <<policy, signature, keyState, signing, touched, registry, history>>

Compute(a) ==
  /\ updating[a].kind = "loaded" /\ Len(history) < MaxChain
  /\ updating' = [updating EXCEPT ![a] = [kind |-> "computed", reg |-> Extended(@.reg, policy)]]
  /\ registry' = Torn
  /\ UNCHANGED <<policy, signature, keyState, signing, rotation, touched, history, orderly>>

Save(a) ==
  /\ updating[a].kind = "computed"
  /\ registry' \in {updating[a].reg} \cup (IF registry = Torn THEN {} ELSE {Torn})
  /\ updating' = [updating EXCEPT ![a] = Idle]
  /\ history' = IF history # <<>> /\ Last(history) = updating[a].reg.root THEN history
                ELSE Append(history, updating[a].reg.root)
  /\ UNCHANGED <<policy, signature, keyState, signing, touched, orderly>>

UpdateByHand == Load("person") /\ UNCHANGED rotation

\* A person's tool dies half way.
Die ==
  /\ signing["person"] # Idle \/ updating["person"] # Idle
  /\ signing' = [signing EXCEPT !["person"] = Idle]
  /\ updating' = [updating EXCEPT !["person"] = Idle]
  /\ orderly' = (orderly /\ updating["person"] = Idle)
  /\ UNCHANGED <<policy, signature, keyState, registry, rotation, touched, history>>

-----------------------------------------------------------------------------
\* The script starts with the keys its environment holds. It prints the list with the
\* new key in it; putting that into the environment is left to a person.
RotateBegin(k) ==
  /\ rotation.at = "idle" /\ k # FirstKey
  /\ keyState[FirstKey] = "active"
  /\ rotation' = [at |-> "sign", key |-> k, known |-> Usable(keyState), todo |-> Policies,
                  sound |-> {p \in Policies : Verifies(policy[p], signature[p], keyState)}]
  /\ touched' = {signing[a].policy : a \in {b \in Actors : signing[b] # Idle}}
  /\ UNCHANGED <<policy, signature, keyState, signing>> /\ UnchangedRegistry

\* Variant of RotateSign: signs with the first key of the list.
RotateSignFirstKey(p) ==
  /\ rotation.at = "sign" /\ p \in rotation.todo /\ signing["script"] = Idle
  /\ BeginSign("script", p, FirstKey)
  /\ rotation' = [rotation EXCEPT !.todo = @ \ {p}]
  /\ UNCHANGED touched

\* One policy: signed with the new key, or a warning if sign.py does not know it.
RotateSign(p) ==
  /\ rotation.at = "sign" /\ p \in rotation.todo /\ signing["script"] = Idle
  /\ IF rotation.key \in rotation.known THEN BeginSign("script", p, rotation.key)
     ELSE UNCHANGED <<policy, keyState, signing, signature>> /\ UnchangedRegistry
  /\ rotation' = [rotation EXCEPT !.todo = @ \ {p}]
  /\ UNCHANGED touched

RotateUpdate ==
  /\ rotation.at = "sign" /\ rotation.todo = {} /\ signing["script"] = Idle
  /\ Load("script")
  /\ rotation' = [rotation EXCEPT !.at = "update"]

SaveBy(a) ==
  /\ Save(a)
  /\ rotation' = IF a = "script" THEN [rotation EXCEPT !.at = "done"] ELSE rotation

\* What is left to a person: enter the new key, promote it, retire the old one.
SetKey(k, state) ==
  /\ \/ state = "grace" /\ keyState[k] = "absent"
     \/ state = "active" /\ keyState[k] = "grace" /\ rotation.at = "done" /\ k = rotation.key
     \/ state = "retired" /\ k = FirstKey /\ rotation.at = "done" /\ keyState[rotation.key] = "active"
  /\ keyState' = [keyState EXCEPT ![k] = state]
  /\ UNCHANGED <<policy, signature, signing, rotation, touched>> /\ UnchangedRegistry

Next ==
  \/ \E p \in Policies : SignByHand(p) \/ RotateSign(p) \/ \E c \in Contents : Edit(p, c)
  \/ \E a \in Actors : FinishSign(a) \/ Compute(a) \/ SaveBy(a)
  \/ \E k \in Keys : RotateBegin(k) \/ \E s \in {"grace", "active", "retired"} : SetKey(k, s)
  \/ UpdateByHand \/ RotateUpdate \/ Die

Spec == Init /\ [][Next]_vars

-----------------------------------------------------------------------------
\* A registry that can be read verifies, whoever wrote it and over what; and if no two
\* updates overlapped and none died, its chain tells every root there was
\* (registry.py:48-186).
ChainTellsHistory ==
  registry.kind = "registry" =>
    /\ VerifyChain(registry)
    /\ orderly => [i \in DOMAIN registry.chain |-> registry.chain[i].root] = history

\* A rotation whose new key was in the environment when it began leaves policies that
\* verify, and go on to when the old key is retired, unless a person edited or signed
\* them meanwhile (rotate_key_zero_downtime.sh:164-206, verify.py:83-184).
PreparedRotationHolds ==
  rotation.at \in {"update", "done"} /\ rotation.key \in rotation.known =>
    \A p \in Policies \ touched : Verifies(policy[p], signature[p], keyState)

\* "Ensures safe key rotation with overlap period" (rotate_key_zero_downtime.sh:4): a
\* policy that verified before the script goes on to verify, its steps and the next
\* steps it names being all that is done.
RotationIsSafe ==
  rotation.at = "done" =>
    \A p \in rotation.sound \ touched : Verifies(policy[p], signature[p], keyState)
=============================================================================
