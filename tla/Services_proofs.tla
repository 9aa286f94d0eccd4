--------------------------- MODULE Services_proofs ---------------------------
(***************************************************************************)
(* Invariants of the parts of Services, for any number of processes, files *)
(* and requests. Each section is about one part: its inductive invariant,  *)
(* that the part begins with it and keeps it, and the theorem about        *)
(* Services. A step of another part leaves it alone.                       *)
(***************************************************************************)
EXTENDS Services, FiniteSetTheorems, SequenceTheorems, TLAPS

-----------------------------------------------------------------------------
(* PiiBreaker *)

\* What makes an order stand: nobody holds, has read or is about to write anything else.
PiiInv ==
  /\ breaker \in [Monitors -> Pii!States \cup {"down"}]
  /\ \A p \in saving : p \in Monitors /\ breaker[p] # "down"
  /\ standing \in BOOLEAN
  /\ standing => /\ stateFile = "disabled_manual"
                 /\ \A p \in Monitors : breaker[p] \in {"down", "disabled_manual"} /\ p \notin saving

LEMMA PiiInit == Init => PiiInv
BY DEF Init, Pii!Init, PiiInv, Pii!States

LEMMA PiiStep == PiiInv /\ [Next]_vars => PiiInv'
<1> SUFFICES ASSUME PiiInv, Pii!Next \/ UNCHANGED piiVars PROVE PiiInv'
  BY DEF Next, vars
<1> USE DEF PiiInv, Pii!States
<1>1. ASSUME NEW p \in Monitors, Pii!Start(p) PROVE PiiInv'
  BY <1>1 DEF Pii!Start, Pii!Loaded
<1>2. ASSUME NEW p \in Monitors, Pii!Check(p) PROVE PiiInv'
  BY <1>2 DEF Pii!Check, Pii!Checked, Pii!Truncate, Pii!Metrics
<1>3. ASSUME NEW p \in Monitors, Pii!Save(p) PROVE PiiInv'
  BY <1>3 DEF Pii!Save
<1>4. ASSUME NEW p \in Monitors, Pii!Stop(p) PROVE PiiInv'
  BY <1>4 DEF Pii!Stop
<1>5. ASSUME NEW p \in Monitors, NEW s \in {"enabled", "disabled_manual"}, Pii!Order(p, s) PROVE PiiInv'
  BY <1>5 DEF Pii!Order, Pii!Truncate
<1>6. CASE UNCHANGED piiVars
  BY <1>6 DEF piiVars
<1> QED BY <1>1, <1>2, <1>3, <1>4, <1>5, <1>6 DEF Pii!Next

\* An order to disable that was given alone stands until the next order, whoever starts,
\* checks or dies, for any number of processes.
THEOREM OrderGivenAloneStands == Spec => []SoleOrderStands
<1>1. PiiInv => SoleOrderStands
  BY DEF PiiInv, SoleOrderStands, Pii!SoleOrderStands
<1> QED BY PiiInit, PiiStep, <1>1, PTL DEF Spec

-----------------------------------------------------------------------------
(* RbacReload *)

WorkerType == [at : {"down", "starting", "serving", "hashed"}, routes : Maps \cup {Rbac!Nothing},
               sha : Maps \cup {Rbac!Nothing}, seen : Maps \cup {Rbac!Nothing}]

\* As long as no content came back, and for a worker whose start no edit interrupted: its
\* hashes are of contents the file has had, and if its hash is that of the file as it is,
\* so are its routes.
RbacInv ==
  /\ mapFile \in Rbac!OnDisk /\ mapFile \in shown
  /\ worker \in [Workers -> WorkerType]
  /\ \A w \in Workers : ~back /\ w \notin raced =>
       /\ worker[w].at = "starting" => worker[w].routes = mapFile /\ mapFile \in Maps
       /\ worker[w].at \in {"serving", "hashed"} =>
            /\ worker[w].sha \in shown \cap Maps
            /\ worker[w].sha = mapFile => worker[w].routes = mapFile
       /\ worker[w].at = "hashed" => worker[w].seen \in shown \cap Maps

LEMMA RbacInit == Init => RbacInv
BY DEF Init, Rbac!Init, RbacInv, Rbac!OnDisk, WorkerType, Rbac!Down

LEMMA RbacStep == RbacInv /\ [Next]_vars => RbacInv'
<1> SUFFICES ASSUME RbacInv, Rbac!Next \/ UNCHANGED rbacVars PROVE RbacInv'
  BY DEF Next, vars
<1> USE DEF RbacInv, WorkerType, Rbac!OnDisk
<1>1. ASSUME NEW c \in Rbac!OnDisk, Rbac!Edit(c) PROVE RbacInv'
  BY <1>1 DEF Rbac!Edit
<1>2. ASSUME NEW w \in Workers, Rbac!Start(w) PROVE RbacInv'
  BY <1>2 DEF Rbac!Start, Rbac!Step, Rbac!Down, Rbac!Loads
<1>3. ASSUME NEW w \in Workers, Rbac!Serve(w) PROVE RbacInv'
  <2> DEFINE state == [worker[w] EXCEPT !.at = "serving", !.sha = Rbac!Sha256Of(mapFile)]
  <2>1. worker[w].at = "starting" /\ worker' = [worker EXCEPT ![w] = state] /\ UNCHANGED <<mapFile, shown, back, raced>>
    BY <1>3 DEF Rbac!Serve, Rbac!Step
  <2>2. state \in WorkerType
    BY DEF Rbac!Sha256Of
  <2>3. ~back /\ w \notin raced => /\ state.at = "serving" /\ state.sha = mapFile /\ state.routes = mapFile
                                   /\ mapFile \in Maps
    BY <2>1, RbacAssumption DEF Rbac!Sha256Of
  <2> HIDE DEF state
  <2> QED BY <2>1, <2>2, <2>3
<1>4. ASSUME NEW w \in Workers, Rbac!Hash(w) PROVE RbacInv'
  BY <1>4, RbacAssumption DEF Rbac!Hash, Rbac!Step, Rbac!Sha256Of, Rbac!Nothing
<1>5. ASSUME NEW w \in Workers, Rbac!Reload(w) PROVE RbacInv'
  <2> DEFINE asItWas == [worker[w] EXCEPT !.at = "serving", !.seen = Rbac!Nothing]
             loaded == [worker[w] EXCEPT !.at = "serving", !.seen = Rbac!Nothing,
                                         !.routes = mapFile, !.sha = worker[w].seen]
  <2>1. worker[w].at = "hashed" /\ UNCHANGED <<mapFile, shown, back, raced>>
    BY <1>5 DEF Rbac!Reload, Rbac!Step
  <2>2. CASE Rbac!Loads(mapFile)
    <3>1. worker' = [worker EXCEPT ![w] = loaded]
      BY <1>5, <2>2 DEF Rbac!Reload, Rbac!Step
    <3>2. loaded \in WorkerType /\ loaded.at = "serving" /\ loaded.sha = worker[w].seen /\ loaded.routes = mapFile
      BY <2>2 DEF Rbac!Loads
    <3> HIDE DEF loaded
    <3> QED BY <2>1, <3>1, <3>2
  <2>3. CASE ~Rbac!Loads(mapFile)
    <3>1. worker' = [worker EXCEPT ![w] = asItWas]
      BY <1>5, <2>3 DEF Rbac!Reload, Rbac!Step
    <3>2. asItWas \in WorkerType /\ asItWas.at = "serving" /\ asItWas.sha = worker[w].sha /\ asItWas.routes = worker[w].routes
      OBVIOUS
    <3> HIDE DEF asItWas
    <3> QED BY <2>1, <3>1, <3>2
  <2> QED BY <2>2, <2>3
<1>6. ASSUME NEW w \in Workers, Rbac!Exit(w) PROVE RbacInv'
  BY <1>6 DEF Rbac!Exit, Rbac!Step, Rbac!Down
<1>7. CASE UNCHANGED rbacVars
  BY <1>7 DEF rbacVars
<1> QED BY <1>1, <1>2, <1>3, <1>4, <1>5, <1>6, <1>7 DEF Rbac!Next

\* A worker whose hash is that of the file enforces the file, for any number of workers and
\* contents: but for an edit during its start, and for a content that came back.
THEOREM WhatNeedsNoReloadIsCurrent == Spec => []UnchangedMeansCurrent
<1>1. RbacInv => UnchangedMeansCurrent
  <2> SUFFICES ASSUME RbacInv, NEW w \in Workers,
                      worker[w].at = "serving", worker[w].sha = Rbac!Sha256Of(mapFile), ~back, w \notin raced
               PROVE  worker[w].routes = mapFile
    BY DEF UnchangedMeansCurrent, Rbac!UnchangedMeansCurrent
  <2>1. worker[w].sha \in Maps /\ (worker[w].sha = mapFile => worker[w].routes = mapFile)
    BY DEF RbacInv
  <2> QED BY <2>1, RbacAssumption DEF Rbac!Sha256Of, Rbac!Nothing
<1> QED BY RbacInit, RbacStep, <1>1, PTL DEF Spec

-----------------------------------------------------------------------------
(* PolicyFiles *)

Root     == [Policies -> Contents] \cup {Policy!NoRoot}
Link     == [root : Root, prev : Root]
RegType  == [kind : {"registry"}, root : Root, chain : Seq(Link)]
SigType  == {Policy!Torn} \cup [kind : {"signed"}, sha : Contents, key : Keys \cup {FirstKey}]
Writing  == [kind : {"writing"}, policy : Policies, text : SigType]
Updating == [kind : {"loaded", "computed"}, reg : RegType]
Rotation == [at : {"idle", "sign", "update", "done"}, key : Keys \cup {FirstKey}, known : SUBSET Keys,
             todo : SUBSET Policies, sound : SUBSET Policies]

Roots(chain) == [i \in DOMAIN chain |-> chain[i].root]

\* A registry verifies; without a link it has no root.
Sound(reg) == /\ reg \in RegType /\ Policy!VerifyChain(reg)
              /\ reg.chain = <<>> => reg.root = Policy!NoRoot

\* What is told when a root is saved.
Told(root) == IF history # <<>> /\ Policy!Last(history) = root THEN history ELSE Append(history, root)

\* Every registry that is held or saved is sound. In order, one update is under way at most,
\* and the chain of what was loaded tells the history.
ChainInv ==
  /\ policy \in [Policies -> Contents] /\ history \in Seq(Root) /\ orderly \in BOOLEAN
  /\ registry \in RegType \cup {Policy!Torn, Policy!Unsigned} /\ (registry \in RegType => Sound(registry))
  /\ updating \in [Policy!Actors -> Updating \cup {Policy!Idle}]
  /\ \A a \in Policy!Actors : updating[a] # Policy!Idle => Sound(updating[a].reg)
  /\ orderly =>
       /\ \A a, b \in Policy!Actors : updating[a] # Policy!Idle /\ updating[b] # Policy!Idle => a = b
       /\ (\A a \in Policy!Actors : updating[a].kind # "computed") =>
            registry # Policy!Torn /\ Roots(Policy!LoadedRegistry(registry).chain) = history
       /\ \A a \in Policy!Actors :
            /\ updating[a].kind = "loaded" => Roots(updating[a].reg.chain) = history
            /\ updating[a].kind = "computed" =>
                 registry = Policy!Torn /\ Roots(updating[a].reg.chain) = Told(updating[a].reg.root)

\* During and after a rotation whose new key is known the key can be used; who signs by
\* hand has touched the policy; and the others are signed with the key, or being.
RotationInv ==
  /\ policy \in [Policies -> Contents] /\ signature \in [Policies -> SigType]
  /\ keyState \in [Keys -> {"absent", "grace", "active", "retired"}]
  /\ signing \in [Policy!Actors -> Writing \cup {Policy!Idle}] /\ rotation \in Rotation
  /\ rotation.at = "idle" => signing["script"] = Policy!Idle
  /\ rotation.at \in {"update", "done"} => rotation.todo = {} /\ signing["script"] = Policy!Idle
  /\ updating["script"] # Policy!Idle => rotation.at = "update"
  /\ rotation.at # "idle" =>
       /\ rotation.key \in Keys \ {FirstKey}
       /\ rotation.key \in rotation.known => keyState[rotation.key] \in {"grace", "active"}
       /\ signing["person"] # Policy!Idle => signing["person"].policy \in touched
  /\ rotation.at # "idle" /\ rotation.key \in rotation.known =>
       \A p \in Policies \ (touched \cup rotation.todo) :
         IF signing["script"] # Policy!Idle /\ signing["script"].policy = p
         THEN signature[p] = Policy!Torn /\ signing["script"].text = Policy!Signed(policy[p], rotation.key)
         ELSE signature[p] = Policy!Signed(policy[p], rotation.key)

LEMMA RootsAreRoots ==
  ASSUME NEW chain \in Seq(Link)
  PROVE  Roots(chain) \in Seq(Root) /\ Len(Roots(chain)) = Len(chain)
<1>0. ASSUME NEW i \in 1..Len(chain) PROVE chain[i].root \in Root
  <2>1. chain[i] \in Link
    BY ElementOfSeq
  <2> QED BY <2>1 DEF Link
<1>1. Len(chain) \in Nat /\ DOMAIN chain = 1..Len(chain) /\ \A i \in 1..Len(chain) : chain[i].root \in Root
  BY <1>0, LenProperties
<1>2. Roots(chain) = [i \in 1..Len(chain) |-> chain[i].root]
  BY <1>1 DEF Roots
<1> QED BY <1>1, <1>2

\* A link more is a root more.
LEMMA RootsAppend ==
  ASSUME NEW chain \in Seq(Link), NEW link \in Link
  PROVE  Roots(Append(chain, link)) = Append(Roots(chain), link.root)
<1> DEFINE long == Append(chain, link)
<1>1. /\ long \in Seq(Link) /\ Len(long) = Len(chain) + 1 /\ Len(chain) \in Nat
      /\ (\A i \in 1..Len(chain) : long[i] = chain[i]) /\ long[Len(chain) + 1] = link
  BY AppendProperties, LenProperties
<1> HIDE DEF long
<1>2. /\ Roots(long) \in Seq(Root) /\ Len(Roots(long)) = Len(long)
      /\ Roots(chain) \in Seq(Root) /\ Len(Roots(chain)) = Len(chain)
  BY <1>1, RootsAreRoots
<1>3. link.root \in Root
  BY DEF Link
<1> DEFINE more == Append(Roots(chain), link.root)
<1>4. /\ more \in Seq(Root) /\ Len(more) = Len(chain) + 1
      /\ (\A i \in 1..Len(chain) : more[i] = Roots(chain)[i]) /\ more[Len(chain) + 1] = link.root
  BY <1>2, <1>3, AppendProperties
<1> HIDE DEF more
<1>5. ASSUME NEW i \in 1..Len(long) PROVE Roots(long)[i] = more[i]
  <2>1. Roots(long)[i] = long[i].root
    BY <1>1, LenProperties DEF Roots
  <2>2. CASE i = Len(chain) + 1
    BY <1>1, <1>4, <2>1, <2>2
  <2>3. CASE i \in 1..Len(chain)
    <3>1. Roots(chain)[i] = chain[i].root
      BY <2>3, LenProperties DEF Roots
    <3> QED BY <1>1, <1>4, <2>1, <2>3, <3>1
  <2> QED BY <1>1, <2>2, <2>3
<1>6. Roots(long) = more
  BY <1>1, <1>2, <1>4, <1>5, SeqEqual
<1> QED BY <1>6 DEF long, more

LEMMA EmptyChain == Roots(<<>>) = <<>> /\ <<>> \in Seq(Link)
BY DEF Roots

\* What is loaded is sound.
LEMMA LoadedIsSound ==
  ASSUME NEW reg \in RegType \cup {Policy!Torn, Policy!Unsigned}, reg \in RegType => Sound(reg)
  PROVE  Sound(Policy!LoadedRegistry(reg))
<1>1. CASE reg \in RegType
  BY <1>1 DEF RegType, Policy!LoadedRegistry
<1>2. CASE reg \notin RegType
  <2>1. Policy!LoadedRegistry(reg) = [kind |-> "registry", root |-> Policy!NoRoot, chain |-> <<>>]
    BY <1>2 DEF Policy!LoadedRegistry, Policy!Registry, Policy!Torn, Policy!Unsigned
  <2> QED BY <2>1, EmptyChain DEF Sound, RegType, Root, Policy!VerifyChain
<1> QED BY <1>1, <1>2

\* An update keeps it so: a link more if the root is another.
LEMMA ExtendedIsSound ==
  ASSUME NEW reg, Sound(reg), NEW root \in [Policies -> Contents]
  PROVE  LET new == Policy!Extended(reg, root)
         IN  /\ Sound(new) /\ new.root = root
             /\ Roots(new.chain) = IF root = reg.root THEN Roots(reg.chain) ELSE Append(Roots(reg.chain), root)
<1>1. reg \in RegType /\ reg.kind = "registry" /\ reg.root \in Root /\ reg.chain \in Seq(Link)
  BY DEF Sound, RegType
<1>2. CASE root = reg.root
  BY <1>2 DEF Policy!Extended
<1>3. CASE root # reg.root
  <2> DEFINE link == [root |-> root, prev |-> reg.root]
             long == Append(reg.chain, link)
             new  == [kind |-> "registry", root |-> root, chain |-> long]
  <2>1. Policy!Extended(reg, root) = new
    BY <1>3 DEF Policy!Extended, Policy!Registry
  <2>2. link \in Link /\ link.root = root /\ link.prev = reg.root
    BY <1>1 DEF Link, Root
  <2> HIDE DEF link
  <2>3. /\ long \in Seq(Link) /\ long # <<>> /\ Len(long) = Len(reg.chain) + 1 /\ Len(reg.chain) \in Nat
        /\ (\A i \in 1..Len(reg.chain) : long[i] = reg.chain[i]) /\ long[Len(reg.chain) + 1] = link
    BY <1>1, <2>2, AppendProperties, LenProperties
  <2>4. Roots(long) = Append(Roots(reg.chain), root)
    BY <1>1, <2>2, RootsAppend
  <2> HIDE DEF long
  <2>5. new \in RegType /\ new.chain = long /\ new.root = root
    BY <2>3 DEF RegType, Root
  <2> HIDE DEF new
  <2>6. ASSUME NEW i \in 2..Len(long) PROVE long[i].prev = long[i - 1].root
    <3>1. CASE i \in 1..Len(reg.chain)
      <4>1. reg.chain # <<>>
        BY <3>1
      <4>2. i \in 2..Len(reg.chain) /\ i - 1 \in 1..Len(reg.chain)
        BY <2>3, <3>1
      <4>3. reg.chain[i].prev = reg.chain[i - 1].root
        BY <4>1, <4>2 DEF Sound, Policy!VerifyChain
      <4> QED BY <2>3, <3>1, <4>2, <4>3
    <3>2. CASE i = Len(reg.chain) + 1
      <4>1. reg.chain # <<>> /\ Len(reg.chain) \in 1..Len(reg.chain) /\ i - 1 = Len(reg.chain)
        BY <1>1, <2>3, <3>2
      <4>2. reg.chain[Len(reg.chain)].root = reg.root
        BY <4>1 DEF Sound, Policy!VerifyChain, Policy!Last
      <4> QED BY <2>2, <2>3, <3>2, <4>1, <4>2
    <3> QED BY <2>3, <3>1, <3>2
  <2>7. Policy!VerifyChain(new)
    BY <2>2, <2>3, <2>5, <2>6 DEF Policy!VerifyChain, Policy!Last
  <2>8. Sound(new)
    BY <2>3, <2>5, <2>7 DEF Sound
  <2> QED BY <1>3, <2>1, <2>4, <2>5, <2>8
<1> QED BY <1>2, <1>3

\* and the roots told are those that there will be.
LEMMA ExtendedTells ==
  ASSUME NEW reg, Sound(reg), NEW root \in [Policies -> Contents], Roots(reg.chain) = history
  PROVE  Roots(Policy!Extended(reg, root).chain) = Told(root)
<1>1. reg.chain \in Seq(Link) /\ root # Policy!NoRoot
  BY PolicyAssumption DEF Sound, RegType, Policy!NoRoot
<1>2. Len(reg.chain) \in Nat /\ Len(history) = Len(reg.chain) /\ history \in Seq(Root)
  BY <1>1, RootsAreRoots, LenProperties
<1>3. CASE reg.chain = <<>>
  <2>1. history = <<>> /\ root # reg.root
    BY <1>1, <1>3, EmptyChain DEF Sound
  <2> QED BY <2>1, ExtendedIsSound DEF Told
<1>4. CASE reg.chain # <<>>
  <2>1. Len(reg.chain) \in 1..Len(reg.chain) /\ DOMAIN reg.chain = 1..Len(reg.chain)
    BY <1>1, <1>4, LenProperties
  <2>2. reg.chain[Len(reg.chain)].root = reg.root
    BY <1>4 DEF Sound, Policy!VerifyChain, Policy!Last
  <2>3. history # <<>> /\ Policy!Last(history) = reg.root
    BY <1>2, <2>1, <2>2 DEF Roots, Policy!Last
  <2> QED BY <2>3, ExtendedIsSound DEF Told
<1> QED BY <1>3, <1>4

LEMMA ChainInit == Init => ChainInv
<1> SUFFICES ASSUME Policy!Init PROVE ChainInv
  BY DEF Init
<1>1. /\ policy \in [Policies -> Contents] /\ registry = Policy!Unsigned /\ history = <<>> /\ orderly = TRUE
      /\ updating = [a \in Policy!Actors |-> Policy!Idle]
  BY DEF Policy!Init
<1>2. registry \notin RegType /\ Policy!LoadedRegistry(registry).chain = <<>> /\ registry # Policy!Torn
  BY <1>1 DEF RegType, Policy!Unsigned, Policy!Torn, Policy!LoadedRegistry, Policy!Registry
<1>3. Policy!Idle.kind = "idle"
  BY DEF Policy!Idle
<1> QED BY <1>1, <1>2, <1>3, EmptyChain DEF ChainInv

LEMMA ChainKeeps ==
  ASSUME ChainInv, UNCHANGED <<registry, updating, history, orderly>>, policy' \in [Policies -> Contents]
  PROVE  ChainInv'
BY DEF ChainInv, Told

\* An update goes on, with a sound registry in hand.
LEMMA UpdateGoesOn ==
  ASSUME ChainInv, NEW a \in Policy!Actors, NEW state \in Updating, Sound(state.reg), updating' = [updating EXCEPT ![a] = state]
  PROVE  /\ updating' \in [Policy!Actors -> Updating \cup {Policy!Idle}]
         /\ \A b \in Policy!Actors : updating'[b] # Policy!Idle => Sound(updating'[b].reg)
         /\ \A b \in Policy!Actors : updating'[b] = IF b = a THEN state ELSE updating[b]
BY DEF ChainInv

LEMMA ChainLoad ==
  ASSUME ChainInv, NEW a \in Policy!Actors, Policy!Load(a) PROVE ChainInv'
<1> DEFINE reg == Policy!LoadedRegistry(registry)
           state == [kind |-> "loaded", reg |-> reg]
<1>1. /\ updating' = [updating EXCEPT ![a] = state] /\ UNCHANGED <<policy, registry, history>>
      /\ orderly' = (orderly /\ \A b \in Policy!Actors : updating[b] = Policy!Idle)
  BY DEF Policy!Load
<1>2. Sound(reg)
  BY LoadedIsSound DEF ChainInv
<1>3. state \in Updating /\ state.kind = "loaded" /\ state.reg = reg
  BY <1>2 DEF Updating, Sound
<1> HIDE DEF state
<1>4. /\ updating' \in [Policy!Actors -> Updating \cup {Policy!Idle}]
      /\ \A b \in Policy!Actors : updating'[b] # Policy!Idle => Sound(updating'[b].reg)
      /\ \A b \in Policy!Actors : updating'[b] = IF b = a THEN state ELSE updating[b]
  BY <1>1, <1>2, <1>3, UpdateGoesOn
<1>5. ASSUME orderly'
      PROVE  /\ orderly /\ registry # Policy!Torn /\ Roots(reg.chain) = history
             /\ \A b \in Policy!Actors \ {a} : updating'[b] = Policy!Idle
  <2>1. orderly /\ \A b \in Policy!Actors : updating[b] = Policy!Idle
    BY <1>1, <1>5
  <2>2. Policy!Idle.kind # "computed"
    BY DEF Policy!Idle
  <2> QED BY <1>4, <2>1, <2>2 DEF ChainInv
<1>6. Policy!Idle.kind = "idle"
  BY DEF Policy!Idle
<1>7. orderly' \in BOOLEAN
  BY <1>1
<1> QED BY <1>1, <1>3, <1>4, <1>5, <1>6, <1>7 DEF ChainInv

LEMMA ChainCompute ==
  ASSUME ChainInv, NEW a \in Policy!Actors, Policy!Compute(a) PROVE ChainInv'
<1> DEFINE was == updating[a].reg
           now == Policy!Extended(was, policy)
           state == [kind |-> "computed", reg |-> now]
<1>1. /\ updating[a].kind = "loaded" /\ updating' = [updating EXCEPT ![a] = state] /\ registry' = Policy!Torn
      /\ UNCHANGED <<policy, history, orderly>>
  BY DEF Policy!Compute
<1>2. Sound(was) /\ updating[a] # Policy!Idle
  BY <1>1 DEF ChainInv, Policy!Idle
<1>3. Sound(now) /\ now.root = policy
  BY <1>2, ExtendedIsSound DEF ChainInv
<1>4. orderly => Roots(now.chain) = Told(policy)
  BY <1>1, <1>2, ExtendedTells DEF ChainInv
<1> HIDE DEF now
<1>5. state \in Updating /\ state.kind = "computed" /\ state.reg = now
  BY <1>3 DEF Updating, Sound
<1> HIDE DEF state
<1>6. /\ updating' \in [Policy!Actors -> Updating \cup {Policy!Idle}]
      /\ \A b \in Policy!Actors : updating'[b] # Policy!Idle => Sound(updating'[b].reg)
      /\ \A b \in Policy!Actors : updating'[b] = IF b = a THEN state ELSE updating[b]
  BY <1>1, <1>3, <1>5, UpdateGoesOn
<1>7. ASSUME orderly, NEW b \in Policy!Actors, b # a PROVE updating'[b] = Policy!Idle
  BY <1>2, <1>6, <1>7 DEF ChainInv
<1>8. Policy!Idle.kind = "idle"
  BY DEF Policy!Idle
<1>9. Policy!Torn \notin RegType
  BY DEF Policy!Torn, RegType
<1>10. orderly => Roots(now.chain) = Told(policy)'
  BY <1>1, <1>4 DEF Told
<1> QED BY <1>1, <1>3, <1>5, <1>6, <1>7, <1>8, <1>9, <1>10 DEF ChainInv, Told

LEMMA ChainSave ==
  ASSUME ChainInv, NEW a \in Policy!Actors, Policy!Save(a) PROVE ChainInv'
<1> DEFINE reg == updating[a].reg
<1>1. /\ updating[a].kind = "computed" /\ updating' = [updating EXCEPT ![a] = Policy!Idle]
      /\ registry' \in {reg} \cup (IF registry = Policy!Torn THEN {} ELSE {Policy!Torn})
      /\ history' = Told(reg.root) /\ UNCHANGED <<policy, orderly>>
  BY DEF Policy!Save, Told
<1>2. updating[a] # Policy!Idle
  BY <1>1 DEF Policy!Idle
<1>3. Sound(reg)
  BY <1>2 DEF ChainInv
<1>4. reg \in RegType /\ reg.root \in Root /\ Policy!LoadedRegistry(reg) = reg
  BY <1>3 DEF Sound, RegType, Policy!LoadedRegistry
<1> HIDE DEF reg
<1>5. Policy!Torn \notin RegType
  BY DEF Policy!Torn, RegType
<1>6. history' \in Seq(Root)
  BY <1>1, <1>4, AppendProperties DEF ChainInv, Told
<1>7. /\ updating' \in [Policy!Actors -> Updating \cup {Policy!Idle}]
      /\ \A b \in Policy!Actors : updating'[b] = IF b = a THEN Policy!Idle ELSE updating[b]
  BY <1>1 DEF ChainInv
<1>8. ASSUME orderly
      PROVE  /\ \A b \in Policy!Actors : updating'[b] = Policy!Idle
             /\ registry' = reg /\ history' = Roots(reg.chain)
  <2>1. registry = Policy!Torn /\ Roots(reg.chain) = Told(reg.root)
    BY <1>1, <1>8 DEF ChainInv, reg
  <2>2. ASSUME NEW b \in Policy!Actors, b # a PROVE updating[b] = Policy!Idle
    BY <1>2, <1>8, <2>2 DEF ChainInv
  <2> QED BY <1>1, <1>7, <2>1, <2>2
<1>9. Policy!Idle.kind = "idle"
  BY DEF Policy!Idle
<1>10. \A b \in Policy!Actors : updating'[b] # Policy!Idle => Sound(updating'[b].reg)
  BY <1>7 DEF ChainInv
<1>11. registry' \in RegType \cup {Policy!Torn, Policy!Unsigned} /\ (registry' \in RegType => Sound(registry'))
  BY <1>1, <1>3, <1>4, <1>5
<1> QED BY <1>1, <1>4, <1>5, <1>6, <1>7, <1>8, <1>9, <1>10, <1>11 DEF ChainInv

LEMMA ChainStep == ChainInv /\ [Next]_vars => ChainInv'
<1> SUFFICES ASSUME ChainInv, Policy!Next \/ UNCHANGED policyVars PROVE ChainInv'
  BY DEF Next, vars
<1>1. ASSUME NEW p \in Policies, NEW c \in Contents, Policy!Edit(p, c) PROVE ChainInv'
  BY <1>1, ChainKeeps DEF Policy!Edit, Policy!UnchangedRegistry, ChainInv
<1>2. ASSUME NEW a, NEW p, NEW k, Policy!BeginSign(a, p, k) PROVE ChainInv'
  BY <1>2, ChainKeeps DEF Policy!BeginSign, Policy!UnchangedRegistry, ChainInv
<1>3. ASSUME NEW p \in Policies, Policy!SignByHand(p) PROVE ChainInv'
  BY <1>2, <1>3 DEF Policy!SignByHand
<1>4. ASSUME NEW p \in Policies, Policy!RotateSign(p) PROVE ChainInv'
  <2>1. CASE Policy!BeginSign("script", p, rotation.key)
    BY <1>2, <2>1
  <2>2. CASE UNCHANGED <<policy, registry, updating, history, orderly>>
    BY <2>2, ChainKeeps DEF ChainInv
  <2> QED BY <1>4, <2>1, <2>2 DEF Policy!RotateSign, Policy!UnchangedRegistry
<1>5. ASSUME NEW a \in Policy!Actors, Policy!FinishSign(a) PROVE ChainInv'
  BY <1>5, ChainKeeps DEF Policy!FinishSign, Policy!UnchangedRegistry, ChainInv
<1>6. ASSUME NEW a \in Policy!Actors, Policy!SaveBy(a) PROVE ChainInv'
  BY <1>6, ChainSave DEF Policy!SaveBy
<1>7. ASSUME NEW k \in Keys, Policy!RotateBegin(k) PROVE ChainInv'
  BY <1>7, ChainKeeps DEF Policy!RotateBegin, Policy!UnchangedRegistry, ChainInv
<1>8. ASSUME NEW k \in Keys, NEW s, Policy!SetKey(k, s) PROVE ChainInv'
  BY <1>8, ChainKeeps DEF Policy!SetKey, Policy!UnchangedRegistry, ChainInv
<1>9. "script" \in Policy!Actors /\ "person" \in Policy!Actors
  BY DEF Policy!Actors
<1>10. CASE Policy!UpdateByHand
  BY <1>9, <1>10, ChainLoad DEF Policy!UpdateByHand
<1>11. CASE Policy!RotateUpdate
  BY <1>9, <1>11, ChainLoad DEF Policy!RotateUpdate
<1>12. CASE Policy!Die
  <2>1. /\ updating' = [updating EXCEPT !["person"] = Policy!Idle] /\ UNCHANGED <<policy, registry, history>>
        /\ orderly' = (orderly /\ updating["person"] = Policy!Idle)
    BY <1>12 DEF Policy!Die
  <2>2. /\ updating' \in [Policy!Actors -> Updating \cup {Policy!Idle}] /\ orderly' \in BOOLEAN
        /\ \A b \in Policy!Actors : updating'[b] # Policy!Idle => Sound(updating'[b].reg)
    BY <2>1 DEF ChainInv
  <2>3. orderly' => orderly /\ updating' = updating
    BY <2>1 DEF ChainInv
  <2> QED BY <2>1, <2>2, <2>3 DEF ChainInv, Told
<1>13. CASE UNCHANGED policyVars
  BY <1>13, ChainKeeps DEF policyVars, ChainInv
<1> QED BY <1>1, <1>3, <1>4, <1>5, <1>6, <1>7, <1>8, <1>10, <1>11, <1>12, <1>13, ChainCompute DEF Policy!Next

LEMMA RotationInit == Init => RotationInv
<1> SUFFICES ASSUME Policy!Init PROVE RotationInv
  BY DEF Init
<1>1. /\ policy \in [Policies -> Contents]
      /\ keyState = [k \in Keys |-> IF k = FirstKey THEN "active" ELSE "absent"]
      /\ signature = [p \in Policies |-> Policy!Signed(policy[p], FirstKey)]
      /\ signing = [a \in Policy!Actors |-> Policy!Idle] /\ updating = [a \in Policy!Actors |-> Policy!Idle]
      /\ rotation = [at |-> "idle", key |-> FirstKey, known |-> {}, todo |-> {}, sound |-> {}]
  BY DEF Policy!Init
<1>2. "script" \in Policy!Actors /\ "person" \in Policy!Actors
  BY DEF Policy!Actors
<1>3. signature \in [Policies -> SigType]
  BY <1>1 DEF SigType, Policy!Signed
<1>4. rotation \in Rotation /\ rotation.at = "idle"
  BY <1>1 DEF Rotation
<1>5. keyState \in [Keys -> {"absent", "grace", "active", "retired"}]
  BY <1>1
<1> QED BY <1>1, <1>2, <1>3, <1>4, <1>5 DEF RotationInv

\* Nothing of the rotation moves, nor of what it signed.
LEMMA RotationKeeps ==
  ASSUME RotationInv, UNCHANGED <<policy, signature, keyState, signing, rotation, touched>>,
         updating'["script"] # Policy!Idle => updating["script"] # Policy!Idle
  PROVE  RotationInv'
BY DEF RotationInv

LEMMA SignedIsSig ==
  ASSUME NEW c \in Contents, NEW k \in Keys \cup {FirstKey} PROVE Policy!Signed(c, k) \in SigType
BY DEF Policy!Signed, SigType

\* A person begins to sign: what has been touched, or no rotation has begun.
LEMMA RotationByHand ==
  ASSUME RotationInv, NEW p \in Policies, Policy!SignByHand(p) PROVE RotationInv'
<1>1. PICK k \in Policy!Usable(keyState) : Policy!BeginSign("person", p, k)
  BY DEF Policy!SignByHand
<1>2. touched' = touched \cup {p} /\ rotation' = rotation
  BY DEF Policy!SignByHand
<1> DEFINE text == Policy!Signed(policy[p], k)
           state == [kind |-> "writing", policy |-> p, text |-> text]
<1>3. /\ signing' = [signing EXCEPT !["person"] = state] /\ signature' = [signature EXCEPT ![p] = Policy!Torn]
      /\ UNCHANGED <<policy, keyState, updating>>
  BY <1>1 DEF Policy!BeginSign, Policy!UnchangedRegistry
<1>4. k \in Keys /\ policy[p] \in Contents
  BY DEF Policy!Usable, RotationInv
<1>5. text \in SigType
  BY <1>4, SignedIsSig
<1> HIDE DEF text
<1>6. state \in Writing /\ state.policy = p
  BY <1>5 DEF Writing
<1> HIDE DEF state
<1>7. "script" \in Policy!Actors /\ "person" \in Policy!Actors
  BY DEF Policy!Actors
<1>8. /\ signing' \in [Policy!Actors -> Writing \cup {Policy!Idle}]
      /\ signing'["person"] = state /\ signing'["script"] = signing["script"]
  BY <1>3, <1>6, <1>7 DEF RotationInv
<1>9. signature' \in [Policies -> SigType] /\ \A q \in Policies \ {p} : signature'[q] = signature[q]
  BY <1>3 DEF RotationInv, SigType
<1> QED BY <1>2, <1>3, <1>6, <1>8, <1>9 DEF RotationInv

\* The script begins to sign: with the new key.
LEMMA RotationByScript ==
  ASSUME RotationInv, NEW p \in Policies, Policy!RotateSign(p) PROVE RotationInv'
<1>1. /\ rotation.at = "sign" /\ signing["script"] = Policy!Idle
      /\ rotation' = [rotation EXCEPT !.todo = @ \ {p}] /\ touched' = touched
  BY DEF Policy!RotateSign
<1>2. /\ rotation' \in Rotation /\ rotation'.at = "sign" /\ rotation'.key = rotation.key
      /\ rotation'.known = rotation.known /\ rotation'.todo = rotation.todo \ {p}
  BY <1>1 DEF RotationInv, Rotation
<1>3. CASE rotation.key \in rotation.known
  <2> DEFINE text == Policy!Signed(policy[p], rotation.key)
             state == [kind |-> "writing", policy |-> p, text |-> text]
  <2>1. /\ signing' = [signing EXCEPT !["script"] = state] /\ signature' = [signature EXCEPT ![p] = Policy!Torn]
        /\ UNCHANGED <<policy, keyState, updating>>
    BY <1>3 DEF Policy!RotateSign, Policy!BeginSign, Policy!UnchangedRegistry
  <2>2. rotation.key \in Keys /\ policy[p] \in Contents
    BY <1>1 DEF RotationInv
  <2>3. text \in SigType
    BY <2>2, SignedIsSig
  <2>4. state \in Writing /\ state.policy = p /\ state.text = text
    BY <2>3 DEF Writing
  <2> HIDE DEF state
  <2>5. "script" \in Policy!Actors /\ "person" \in Policy!Actors
    BY DEF Policy!Actors
  <2>6. /\ signing' \in [Policy!Actors -> Writing \cup {Policy!Idle}]
        /\ signing'["script"] = state /\ signing'["person"] = signing["person"]
    BY <2>1, <2>4, <2>5 DEF RotationInv
  <2>7. state # Policy!Idle
    BY <2>4 DEF Writing, Policy!Idle
  <2>8. /\ signature' \in [Policies -> SigType] /\ signature'[p] = Policy!Torn
        /\ \A q \in Policies \ {p} : signature'[q] = signature[q]
    BY <2>1 DEF RotationInv, SigType
  <2>9. ASSUME NEW q \in Policies \ (touched' \cup rotation'.todo)
        PROVE  IF signing'["script"] # Policy!Idle /\ signing'["script"].policy = q
               THEN signature'[q] = Policy!Torn /\ signing'["script"].text = Policy!Signed(policy'[q], rotation'.key)
               ELSE signature'[q] = Policy!Signed(policy'[q], rotation'.key)
    <3>1. CASE q = p
      BY <1>2, <2>1, <2>4, <2>6, <2>7, <2>8, <3>1
    <3>2. CASE q # p
      <4>1. q \in Policies \ (touched \cup rotation.todo)
        BY <1>1, <1>2, <2>9, <3>2
      <4>2. signature[q] = Policy!Signed(policy[q], rotation.key)
        BY <1>1, <1>3, <4>1 DEF RotationInv
      <4> QED BY <1>2, <2>1, <2>4, <2>6, <2>8, <3>2, <4>2
    <3> QED BY <3>1, <3>2
  <2> HIDE DEF text
  <2>10. rotation'.at # "idle" /\ rotation'.at \notin {"update", "done"}
    BY <1>2
  <2> QED BY <1>1, <1>2, <2>1, <2>6, <2>8, <2>9, <2>10 DEF RotationInv
<1>4. CASE rotation.key \notin rotation.known
  <2>1. UNCHANGED <<policy, keyState, signing, signature, updating>>
    BY <1>4 DEF Policy!RotateSign, Policy!UnchangedRegistry
  <2> QED BY <1>1, <1>2, <1>4, <2>1 DEF RotationInv
<1> QED BY <1>3, <1>4

\* A signature is written: that of the script, as nobody else writes to what is not touched.
LEMMA RotationFinishes ==
  ASSUME RotationInv, NEW a \in Policy!Actors, Policy!FinishSign(a) PROVE RotationInv'
<1> DEFINE p == signing[a].policy
<1>1. /\ signing[a] # Policy!Idle /\ signing' = [signing EXCEPT ![a] = Policy!Idle]
      /\ UNCHANGED <<policy, keyState, rotation, touched, updating>>
  BY DEF Policy!FinishSign, Policy!UnchangedRegistry
<1>2. PICK s \in {signing[a].text} \cup (IF signature[p] = Policy!Torn THEN {} ELSE {Policy!Torn}) :
             signature' = [signature EXCEPT ![p] = s]
  BY DEF Policy!FinishSign
<1>3. signing[a] \in Writing /\ p \in Policies /\ signing[a].text \in SigType
  BY <1>1 DEF RotationInv, Writing
<1> HIDE DEF p
<1>4. /\ signature' \in [Policies -> SigType] /\ signature'[p] = s
      /\ \A q \in Policies \ {p} : signature'[q] = signature[q]
  BY <1>2, <1>3 DEF RotationInv, SigType
<1>5. /\ signing' \in [Policy!Actors -> Writing \cup {Policy!Idle}] /\ signing'[a] = Policy!Idle
      /\ \A b \in Policy!Actors \ {a} : signing'[b] = signing[b]
  BY <1>1 DEF RotationInv
<1>6. "script" \in Policy!Actors /\ "person" \in Policy!Actors /\ a \in {"script", "person"}
  BY DEF Policy!Actors
<1>7. ASSUME rotation.at # "idle", rotation.key \in rotation.known, NEW q \in Policies \ (touched \cup rotation.todo)
      PROVE  IF signing'["script"] # Policy!Idle /\ signing'["script"].policy = q
             THEN signature'[q] = Policy!Torn /\ signing'["script"].text = Policy!Signed(policy[q], rotation.key)
             ELSE signature'[q] = Policy!Signed(policy[q], rotation.key)
  <2>1. IF signing["script"] # Policy!Idle /\ signing["script"].policy = q
        THEN signature[q] = Policy!Torn /\ signing["script"].text = Policy!Signed(policy[q], rotation.key)
        ELSE signature[q] = Policy!Signed(policy[q], rotation.key)
    BY <1>7 DEF RotationInv
  <2>2. CASE a = "script"
    <3>1. signing'["script"] = Policy!Idle
      BY <1>5, <2>2
    <3>2. CASE p = q
      <4>1. signature[p] = Policy!Torn /\ signing[a].text = Policy!Signed(policy[q], rotation.key)
        BY <1>1, <2>1, <2>2, <3>2 DEF p
      <4> QED BY <1>2, <1>4, <3>1, <3>2, <4>1
    <3>3. CASE p # q
      <4>1. signature[q] = Policy!Signed(policy[q], rotation.key)
        BY <1>1, <2>1, <2>2, <3>3 DEF p
      <4> QED BY <1>4, <3>1, <3>3, <4>1
    <3> QED BY <3>2, <3>3
  <2>3. CASE a = "person"
    <3>1. p \in touched
      BY <1>1, <1>7, <2>3 DEF RotationInv, p
    <3>2. signing'["script"] = signing["script"] /\ signature'[q] = signature[q]
      BY <1>4, <1>5, <1>6, <1>7, <2>3, <3>1
    <3> QED BY <2>1, <3>2
  <2> QED BY <1>6, <2>2, <2>3
<1>8. /\ signing'["script"] # Policy!Idle => signing'["script"] = signing["script"]
      /\ signing'["person"] # Policy!Idle => signing'["person"] = signing["person"]
  BY <1>5, <1>6
<1> QED BY <1>1, <1>4, <1>5, <1>7, <1>8 DEF RotationInv

LEMMA RotationStep == ChainInv /\ RotationInv /\ [Next]_vars => RotationInv'
<1> SUFFICES ASSUME ChainInv, RotationInv, Policy!Next \/ UNCHANGED policyVars PROVE RotationInv'
  BY DEF Next, vars
<1>0. "script" \in Policy!Actors /\ "person" \in Policy!Actors
  BY DEF Policy!Actors
<1>00. \A a \in Policy!Actors : updating[a].kind \in {"loaded", "computed"} => updating[a] # Policy!Idle
  BY DEF Policy!Idle
<1>1. ASSUME NEW p \in Policies, NEW c \in Contents, Policy!Edit(p, c) PROVE RotationInv'
  <2>1. /\ policy' = [policy EXCEPT ![p] = c] /\ touched' = touched \cup {p}
        /\ UNCHANGED <<signature, keyState, signing, rotation, updating>>
    BY <1>1 DEF Policy!Edit, Policy!UnchangedRegistry
  <2>2. policy' \in [Policies -> Contents] /\ \A q \in Policies \ {p} : policy'[q] = policy[q]
    BY <2>1 DEF RotationInv
  <2> QED BY <2>1, <2>2 DEF RotationInv
<1>2. ASSUME NEW a \in Policy!Actors, Policy!Compute(a) PROVE RotationInv'
  <2>1. /\ updating[a] # Policy!Idle /\ UNCHANGED <<policy, signature, keyState, signing, rotation, touched>>
        /\ \A b \in Policy!Actors \ {a} : updating'[b] = updating[b]
    BY <1>00, <1>2 DEF Policy!Compute, ChainInv
  <2> QED BY <1>0, <2>1, RotationKeeps
<1>3. ASSUME NEW a \in Policy!Actors, Policy!SaveBy(a) PROVE RotationInv'
  <2>1. /\ updating[a] # Policy!Idle /\ UNCHANGED <<policy, signature, keyState, signing, touched>>
        /\ \A b \in Policy!Actors : updating'[b] = IF b = a THEN Policy!Idle ELSE updating[b]
        /\ rotation' = IF a = "script" THEN [rotation EXCEPT !.at = "done"] ELSE rotation
    BY <1>00, <1>3 DEF Policy!SaveBy, Policy!Save, ChainInv
  <2>2. CASE a = "script"
    <3>1. rotation.at = "update"
      BY <2>1, <2>2 DEF RotationInv
    <3>2. /\ rotation' \in Rotation /\ rotation'.at = "done" /\ rotation'.key = rotation.key
          /\ rotation'.known = rotation.known /\ rotation'.todo = rotation.todo
      BY <2>1, <2>2 DEF RotationInv, Rotation
    <3>3. updating'["script"] = Policy!Idle
      BY <1>0, <2>1, <2>2
    <3> QED BY <2>1, <3>1, <3>2, <3>3 DEF RotationInv
  <2>3. CASE a # "script"
    BY <1>0, <2>1, <2>3, RotationKeeps
  <2> QED BY <2>2, <2>3
<1>4. ASSUME NEW k \in Keys, Policy!RotateBegin(k) PROVE RotationInv'
  <2>1. /\ rotation.at = "idle" /\ k # FirstKey
        /\ rotation' = [at |-> "sign", key |-> k, known |-> Policy!Usable(keyState), todo |-> Policies,
                        sound |-> {p \in Policies : Policy!Verifies(policy[p], signature[p], keyState)}]
        /\ touched' = {signing[a].policy : a \in {b \in Policy!Actors : signing[b] # Policy!Idle}}
        /\ UNCHANGED <<policy, signature, keyState, signing, updating>>
    BY <1>4 DEF Policy!RotateBegin, Policy!UnchangedRegistry
  <2>2. Policy!Usable(keyState) \subseteq Keys /\ (k \in Policy!Usable(keyState) => keyState[k] \in {"grace", "active"})
    BY DEF Policy!Usable
  <2>3. /\ rotation' \in Rotation /\ rotation'.at = "sign" /\ rotation'.key = k
        /\ rotation'.known = Policy!Usable(keyState) /\ rotation'.todo = Policies
    BY <2>1, <2>2 DEF Rotation
  <2>4. signing["person"] # Policy!Idle => signing["person"].policy \in touched'
    BY <1>0, <2>1
  <2>5. updating["script"] = Policy!Idle
    BY <2>1 DEF RotationInv
  <2> QED BY <2>1, <2>2, <2>3, <2>4, <2>5 DEF RotationInv
<1>5. CASE Policy!UpdateByHand
  <2>1. /\ UNCHANGED <<policy, signature, keyState, signing, rotation, touched>>
        /\ \A b \in Policy!Actors \ {"person"} : updating'[b] = updating[b]
    BY <1>5 DEF Policy!UpdateByHand, Policy!Load, ChainInv
  <2> QED BY <1>0, <2>1, RotationKeeps
<1>6. CASE Policy!RotateUpdate
  <2>1. /\ rotation.at = "sign" /\ rotation.todo = {} /\ signing["script"] = Policy!Idle
        /\ rotation' = [rotation EXCEPT !.at = "update"]
        /\ UNCHANGED <<policy, signature, keyState, signing, touched>>
    BY <1>6 DEF Policy!RotateUpdate, Policy!Load
  <2>2. /\ rotation' \in Rotation /\ rotation'.at = "update" /\ rotation'.key = rotation.key
        /\ rotation'.known = rotation.known /\ rotation'.todo = {}
    BY <2>1 DEF RotationInv, Rotation
  <2> QED BY <2>1, <2>2 DEF RotationInv
<1>7. ASSUME NEW k \in Keys, NEW s \in {"grace", "active", "retired"}, Policy!SetKey(k, s) PROVE RotationInv'
  <2>1. /\ keyState' = [keyState EXCEPT ![k] = s] /\ UNCHANGED <<policy, signature, signing, rotation, touched, updating>>
    BY <1>7 DEF Policy!SetKey, Policy!UnchangedRegistry
  <2>2. s = "retired" => k = FirstKey
    BY <1>7 DEF Policy!SetKey
  <2>3. keyState' \in [Keys -> {"absent", "grace", "active", "retired"}]
    BY <2>1 DEF RotationInv
  <2>4. ASSUME rotation.at # "idle", rotation.key \in rotation.known PROVE keyState'[rotation.key] \in {"grace", "active"}
    BY <2>1, <2>2, <2>4 DEF RotationInv
  <2> QED BY <2>1, <2>3, <2>4 DEF RotationInv
<1>8. CASE Policy!Die
  <2>1. /\ UNCHANGED <<policy, signature, keyState, rotation, touched>>
        /\ signing' = [signing EXCEPT !["person"] = Policy!Idle]
        /\ updating' = [updating EXCEPT !["person"] = Policy!Idle]
    BY <1>8 DEF Policy!Die
  <2>2. /\ signing' \in [Policy!Actors -> Writing \cup {Policy!Idle}] /\ signing'["script"] = signing["script"]
        /\ signing'["person"] = Policy!Idle /\ updating'["script"] = updating["script"]
    BY <1>0, <2>1 DEF RotationInv, ChainInv
  <2> QED BY <2>1, <2>2 DEF RotationInv
<1>9. CASE UNCHANGED policyVars
  BY <1>9, RotationKeeps DEF policyVars
<1> QED BY <1>1, <1>2, <1>3, <1>4, <1>5, <1>6, <1>7, <1>8, <1>9,
          RotationByHand, RotationByScript, RotationFinishes DEF Policy!Next

\* A registry that can be read verifies, whatever updates overlap or die; if none does, its
\* chain tells every root that was saved: for any policies, contents and lengths of it.
THEOREM RegistryTellsItsHistory == Spec => []ChainTellsHistory
<1>1. ChainInv => ChainTellsHistory
  <2> SUFFICES ASSUME ChainInv, registry.kind = "registry"
               PROVE  Policy!VerifyChain(registry) /\ (orderly => Roots(registry.chain) = history)
    BY DEF ChainTellsHistory, Policy!ChainTellsHistory, Roots
  <2>1. registry \in RegType /\ registry # Policy!Torn
    BY DEF ChainInv, Policy!Torn, Policy!Unsigned
  <2>2. Policy!LoadedRegistry(registry) = registry
    BY DEF Policy!LoadedRegistry
  <2> QED BY <2>1, <2>2 DEF ChainInv, Sound
<1> QED BY ChainInit, ChainStep, <1>1, PTL DEF Spec

\* A rotation whose new key was in the environment when it began leaves policies that
\* verify, before and after the old key is retired, but for those touched by hand.
THEOREM PreparedRotationsHold == Spec => []PreparedRotationHolds
<1>1. RotationInv => PreparedRotationHolds
  <2> SUFFICES ASSUME RotationInv, rotation.at \in {"update", "done"}, rotation.key \in rotation.known,
                      NEW p \in Policies \ touched
               PROVE  Policy!Verifies(policy[p], signature[p], keyState)
    BY DEF PreparedRotationHolds, Policy!PreparedRotationHolds
  <2>1. signature[p] = Policy!Signed(policy[p], rotation.key)
    BY DEF RotationInv
  <2>2. rotation.key \in Keys /\ keyState[rotation.key] \in {"grace", "active"}
    BY DEF RotationInv
  <2> QED BY <2>1, <2>2 DEF Policy!Verifies, Policy!Usable, Policy!Signed
<1> QED BY ChainInit, ChainStep, RotationInit, RotationStep, <1>1, PTL DEF Spec

-----------------------------------------------------------------------------
(* Tuning *)

CanaryBlock == [kind : {"block"}, enabled : BOOLEAN, step : Int, max : Int]

\* A canary that was stopped is one that is not enabled, or a torn file.
TuneInv ==
  /\ base \in Bases /\ Tune!TunedWithinGuard
  /\ canary \in CanaryBlock \cup {Tune!NoBlock, Tune!Absent, Tune!TornFile}
  /\ halted \in BOOLEAN
  /\ halted => canary = Tune!TornFile \/ (canary \in CanaryBlock /\ canary.enabled = FALSE)

\* A step is no longer than its cap, and does not leave what holds both its ends.
LEMMA StepStays ==
  ASSUME NEW b \in Int, NEW v \in Int, NEW cap \in Nat
  PROVE  /\ Tune!Step(b, v, cap) \in Int
         /\ Tune!Distance(Tune!Step(b, v, cap), b) <= cap
         /\ \A lo, hi \in Int : b \in lo..hi /\ v \in lo..hi => Tune!Step(b, v, cap) \in lo..hi
BY DEF Tune!Step, Tune!Distance, Tune!Larger

LEMMA ClampBounds ==
  ASSUME NEW v \in Int, NEW lo \in Int, NEW hi \in Int, lo <= hi
  PROVE  Tune!Clamp(v, lo, hi) \in lo..hi
BY DEF Tune!Clamp, Tune!Larger, Tune!Smaller

\* apply_bounds_slew (guard.py:12-63): what it returns for any proposal, with any caps.
LEMMA GuardHolds ==
  ASSUME NEW b \in Bases, NEW d \in Int, NEW w \in Int, NEW cap \in Nat, NEW windowsCap \in Nat,
         NEW to, to = Tune!Guarded(Tune!Promote(d, w), b, cap, windowsCap)
  PROVE  /\ b.delta # Tune!None => Tune!Distance(to.delta, b.delta) <= cap
         /\ b.windows # Tune!None /\ windowsCap # 0 => Tune!Distance(to.windows, b.windows) <= windowsCap
         /\ Tune!Reined(to.delta, Low, High, b.delta)
         /\ Tune!Reined(to.windows, WindowsLow, WindowsHigh, b.windows)
<1> DEFINE vd == Tune!Clamp(d, Low, High)
           vw == Tune!Clamp(w, WindowsLow, WindowsHigh)
<1>0. /\ Low \in Int /\ High \in Int /\ WindowsLow \in Int /\ WindowsHigh \in Int
      /\ Low <= High /\ WindowsLow <= WindowsHigh /\ b.delta \in Int /\ b.windows \in Int
  BY TuningAssumption
<1>1. vd \in Low..High /\ vw \in WindowsLow..WindowsHigh
  BY <1>0, ClampBounds
<1>2. /\ to.delta = IF b.delta = Tune!None THEN vd ELSE Tune!Step(b.delta, vd, cap)
      /\ to.windows = IF b.windows = Tune!None \/ windowsCap = 0 THEN vw ELSE Tune!Step(b.windows, vw, windowsCap)
  BY DEF Tune!Guarded, Tune!Promote
<1> HIDE DEF vd, vw
\* What holds the bounds and the base holds the step between them.
<1>3. ASSUME NEW lo \in Int, NEW hi \in Int, lo <= hi, NEW v \in lo..hi, NEW start \in Int, NEW c \in Nat
      PROVE  /\ Tune!Distance(Tune!Step(start, v, c), start) <= c
             /\ Tune!Step(start, v, c) \in Tune!Smaller(lo, start)..Tune!Larger(hi, start)
             /\ v \in Tune!Smaller(lo, start)..Tune!Larger(hi, start)
  <2>1. /\ Tune!Smaller(lo, start) \in Int /\ Tune!Larger(hi, start) \in Int /\ v \in Int
        /\ start \in Tune!Smaller(lo, start)..Tune!Larger(hi, start)
        /\ v \in Tune!Smaller(lo, start)..Tune!Larger(hi, start)
    BY <1>3 DEF Tune!Smaller, Tune!Larger
  <2> QED BY <2>1, StepStays
<1>4. /\ Tune!Distance(Tune!Step(b.delta, vd, cap), b.delta) <= cap
      /\ Tune!Step(b.delta, vd, cap) \in Tune!Smaller(Low, b.delta)..Tune!Larger(High, b.delta)
  BY <1>0, <1>1, <1>3
<1>5. /\ Tune!Distance(Tune!Step(b.windows, vw, windowsCap), b.windows) <= windowsCap
      /\ Tune!Step(b.windows, vw, windowsCap) \in Tune!Smaller(WindowsLow, b.windows)..Tune!Larger(WindowsHigh, b.windows)
      /\ vw \in Tune!Smaller(WindowsLow, b.windows)..Tune!Larger(WindowsHigh, b.windows)
  BY <1>0, <1>1, <1>3
<1> QED BY <1>1, <1>2, <1>4, <1>5 DEF Tune!Reined

LEMMA CapsAreCaps ==
  ASSUME NEW cap \in Nat, NEW f \in Factors
  PROVE  Tune!AdaptiveCap(cap, f) \in Nat /\ Tune!AdaptiveCap(cap, f) <= Ceiling
<1>1. f \in Int /\ Floor \in Nat /\ Ceiling \in Int /\ Floor <= Ceiling
  BY TuningAssumption
<1>2. cap * f \in Int
  BY <1>1
<1> QED BY <1>1, <1>2 DEF Tune!AdaptiveCap, Tune!Larger, Tune!Smaller

\* The cap of a run is as configured, or no larger than the ceiling.
LEMMA CapOfARun ==
  ASSUME NEW slew \in Nat, NEW f \in Factors \cup {Tune!None}
  PROVE  Tune!CapOf(slew, f) \in Nat /\ Tune!CapOf(slew, f) <= Tune!Larger(slew, Ceiling)
<1>1. Ceiling \in Int
  BY TuningAssumption
<1>2. CASE f = Tune!None
  BY <1>1, <1>2 DEF Tune!CapOf, Tune!Larger
<1>3. CASE f # Tune!None
  <2>1. Tune!CapOf(slew, f) = Tune!AdaptiveCap(slew, f) /\ f \in Factors
    BY <1>3 DEF Tune!CapOf
  <2>2. Tune!CapOf(slew, f) \in Nat /\ Tune!CapOf(slew, f) <= Ceiling
    BY <2>1, CapsAreCaps
  <2> QED BY <1>1, <2>2 DEF Tune!Larger
<1> QED BY <1>2, <1>3

LEMMA TuneInit == Init => TuneInv
BY DEF Init, Tune!Init, TuneInv, Tune!TunedWithinGuard

LEMMA TuneStep == TuneInv /\ [Next]_vars => TuneInv'
<1> SUFFICES ASSUME TuneInv, Tune!Next \/ UNCHANGED tuneVars PROVE TuneInv'
  BY DEF Next, vars
<1>1. CASE Tune!ReportDrift
  BY <1>1 DEF Tune!ReportDrift, TuneInv, Tune!TunedWithinGuard
<1>2. CASE Tune!AdjustStep
  <2> DEFINE block == IF canary.kind = "block" THEN canary ELSE Tune!Fresh
  <2>0. Tune!Fresh \in CanaryBlock
    BY DEF Tune!Fresh, Tune!Block, CanaryBlock
  <2>1. /\ drift \in Tune!Severities /\ canary # Tune!TornFile
        /\ canary' \in {Tune!Adjusted(block, drift), Tune!TornFile}
        /\ halted' = (drift = "critical" \/ (halted /\ drift # "info"))
        /\ UNCHANGED <<drift, base, lastGood, tuned, streak, from>>
    BY <1>2 DEF Tune!AdjustStep
  <2>2. block \in CanaryBlock /\ (halted => block.enabled = FALSE)
    <3>1. CASE canary \in CanaryBlock
      <4>1. block = canary
        BY <3>1 DEF CanaryBlock
      <4>2. canary # Tune!TornFile
        BY <2>1
      <4> QED BY <3>1, <4>1, <4>2 DEF TuneInv
    <3>2. CASE canary \in {Tune!NoBlock, Tune!Absent}
      <4>0. canary.kind # "block"
        <5>1. Tune!NoBlock.kind = "no block" /\ Tune!Absent.kind = "absent"
          BY DEF Tune!NoBlock, Tune!Absent
        <5> QED BY <3>2, <5>1
      <4>1. ~halted
        BY <4>0, <2>1 DEF TuneInv, CanaryBlock
      <4>2. block = Tune!Fresh
        BY <4>0
      <4> QED BY <2>0, <4>1, <4>2
    <3> QED BY <2>1, <3>1, <3>2 DEF TuneInv
  <2> HIDE DEF block
  <2>3. CASE drift = "critical"
    BY <2>1, <2>2, <2>3 DEF TuneInv, CanaryBlock, Tune!Adjusted, Tune!TunedWithinGuard
  <2>4. CASE drift = "warn"
    <3>1. Tune!Adjusted(block, drift) =
            [block EXCEPT !.step = Tune!Larger(5, @ \div 2), !.max = Tune!Larger(30, (@ * 7) \div 10)]
      BY <2>4 DEF Tune!Adjusted
    <3>2. Tune!Larger(5, block.step \div 2) \in Int /\ Tune!Larger(30, (block.max * 7) \div 10) \in Int
      BY <2>2 DEF Tune!Larger, CanaryBlock
    <3>3. Tune!Adjusted(block, drift) \in CanaryBlock /\ Tune!Adjusted(block, drift).enabled = block.enabled
      BY <2>2, <3>1, <3>2 DEF CanaryBlock
    <3> QED BY <2>1, <2>2, <2>4, <3>3 DEF TuneInv, Tune!TunedWithinGuard
  <2>5. CASE drift = "info"
    <3>1. Tune!Adjusted(block, drift) = Tune!Fresh /\ ~halted'
      BY <2>1, <2>5 DEF Tune!Adjusted
    <3> QED BY <2>0, <2>1, <3>1 DEF TuneInv, Tune!TunedWithinGuard
  <2> QED BY <2>1, <2>3, <2>4, <2>5 DEF Tune!Severities
<1>3. CASE Tune!Autotune
  <2>1. UNCHANGED <<drift, canary, base, halted>>
    BY <1>3 DEF Tune!Autotune
  <2>2. CASE from' = Tune!Absent
    BY <2>1, <2>2 DEF TuneInv, Tune!TunedWithinGuard
  <2>3. CASE \E d \in Values, w \in 3..(WindowsHigh + 1), f \in Factors \cup {Tune!None} :
               /\ tuned' = Tune!Guarded(Tune!Promote(d, w), base, Tune!CapOf(Slew, f), Tune!CapOf(WindowsSlew, f))
               /\ from' = [kind |-> "run", base |-> base, cap |-> Tune!CapOf(Slew, f),
                           windowsCap |-> Tune!CapOf(WindowsSlew, f)]
    <3>1. PICK d \in Values, w \in 3..(WindowsHigh + 1), f \in Factors \cup {Tune!None} :
               /\ tuned' = Tune!Guarded(Tune!Promote(d, w), base, Tune!CapOf(Slew, f), Tune!CapOf(WindowsSlew, f))
               /\ from' = [kind |-> "run", base |-> base, cap |-> Tune!CapOf(Slew, f),
                           windowsCap |-> Tune!CapOf(WindowsSlew, f)]
      BY <2>3
    <3>2. d \in Int /\ w \in Int /\ base \in Bases /\ Slew \in Nat /\ WindowsSlew \in Nat
      BY TuningAssumption DEF TuneInv
    <3> DEFINE cap == Tune!CapOf(Slew, f)
               windowsCap == Tune!CapOf(WindowsSlew, f)
    <3>3. /\ cap \in Nat /\ cap <= Tune!Larger(Slew, Ceiling)
          /\ windowsCap \in Nat /\ windowsCap <= Tune!Larger(WindowsSlew, Ceiling)
      BY <3>2, CapOfARun
    <3>4. from'.base = base /\ from'.cap = cap /\ from'.windowsCap = windowsCap
      BY <3>1
    <3> HIDE DEF cap, windowsCap
    <3>5. tuned' = Tune!Guarded(Tune!Promote(d, w), base, cap, windowsCap)
      BY <3>1 DEF cap, windowsCap
    <3>6. /\ base.delta # Tune!None => Tune!Distance(tuned'.delta, base.delta) <= cap
          /\ base.windows # Tune!None /\ windowsCap # 0 => Tune!Distance(tuned'.windows, base.windows) <= windowsCap
          /\ Tune!Reined(tuned'.delta, Low, High, base.delta)
          /\ Tune!Reined(tuned'.windows, WindowsLow, WindowsHigh, base.windows)
      BY <3>2, <3>3, <3>5, GuardHolds
    <3>7. Tune!TunedWithinGuard'
      BY <3>3, <3>4, <3>6 DEF Tune!TunedWithinGuard
    <3> QED BY <2>1, <3>7 DEF TuneInv
  <2> QED BY <1>3, <2>2, <2>3 DEF Tune!Autotune
<1>4. CASE Tune!RestoreLastGood
  BY <1>4 DEF Tune!RestoreLastGood, TuneInv, Tune!TunedWithinGuard
<1>5. ASSUME NEW b \in Bases, Tune!EditBase(b) PROVE TuneInv'
  BY <1>5 DEF Tune!EditBase, TuneInv, Tune!TunedWithinGuard
<1>6. CASE UNCHANGED tuneVars
  BY <1>6 DEF tuneVars, TuneInv, Tune!TunedWithinGuard
<1> QED BY <1>1, <1>2, <1>3, <1>4, <1>5, <1>6 DEF Tune!Next

\* What the tuner writes is no further from the base than the caps of its run, and outside
\* the bounds no further than the base is; a canary that a critical report stopped stays
\* stopped until a report without drift or a restored policy: for any bases, bounds, caps
\* and factors that are integers.
THEOREM TuningKeepsItsGuards == Spec => []TuningIsGuarded
<1>1. TuneInv => TuningIsGuarded
  BY DEF TuneInv, TuningIsGuarded, Tune!CriticalStops, CanaryBlock, Tune!TornFile
<1> QED BY TuneInit, TuneStep, <1>1, PTL DEF Spec

-----------------------------------------------------------------------------
(* Evidence *)

Upload == [kind : {"upload"}, todo : SUBSET Names, changed : SUBSET Names]

\* Besides, what is still to upload is as it was when it was scanned, or known to have
\* changed.
EviInv ==
  /\ file \in [Names -> Evi!Holdings] /\ bucket \in [Names -> Evi!Holdings]
  /\ upload \in Upload \cup {Evi!NotRunning, Evi!Verified}
  /\ Evi!Uploading => \A n \in upload.todo \ upload.changed : file[n] \in {"genuine", "resigned"}
  /\ Evi!SealedIsGenuine

LEMMA EviInit == Init => EviInv
BY DEF Init, Evi!Init, EviInv, Evi!Holdings, Evi!NotRunning, Evi!Uploading, Evi!SealedIsGenuine

\* Whoever writes a file, and whatever.
LEMMA EviWrite ==
  ASSUME EviInv, NEW n, NEW h \in Evi!Holdings, Evi!Write(n, h) PROVE EviInv'
<1>1. /\ file' = [file EXCEPT ![n] = h] /\ UNCHANGED <<bucket, swapped>>
      /\ upload' = IF Evi!Uploading /\ n \in upload.todo THEN [upload EXCEPT !.changed = @ \cup {n}] ELSE upload
  BY DEF Evi!Write
<1>2. file' \in [Names -> Evi!Holdings] /\ \A m \in Names \ {n} : file'[m] = file[m]
  BY <1>1 DEF EviInv
<1>3. CASE Evi!Uploading /\ n \in upload.todo
  <2>1. upload \in Upload
    BY <1>3 DEF EviInv, Evi!Uploading, Evi!NotRunning, Evi!Verified
  <2>2. upload' \in Upload /\ upload'.todo = upload.todo /\ upload'.changed = upload.changed \cup {n}
    BY <1>1, <1>3, <2>1 DEF Upload
  <2> QED BY <1>1, <1>2, <1>3, <2>1, <2>2 DEF EviInv, Upload, Evi!Uploading, Evi!SealedIsGenuine
<1>4. CASE ~(Evi!Uploading /\ n \in upload.todo)
  <2>1. upload' = upload
    BY <1>1, <1>4
  <2>2. Evi!Uploading => upload \in Upload
    BY DEF EviInv, Evi!Uploading, Evi!NotRunning, Evi!Verified
  <2> QED BY <1>1, <1>2, <1>4, <2>1, <2>2 DEF EviInv, Upload, Evi!Uploading, Evi!SealedIsGenuine
<1> QED BY <1>3, <1>4

LEMMA EviStep == EviInv /\ [Next]_vars => EviInv'
<1> SUFFICES ASSUME EviInv, Evi!Next \/ UNCHANGED eviVars PROVE EviInv'
  BY DEF Next, vars
<1>1. ASSUME NEW n \in Names, Evi!Save(n) PROVE EviInv'
  BY <1>1, EviWrite DEF Evi!Save, Evi!Holdings
<1>2. ASSUME NEW n \in Names, Evi!Alter(n) PROVE EviInv'
  BY <1>2, EviWrite DEF Evi!Alter, Evi!Holdings
<1>3. ASSUME NEW n \in Names, Evi!HarvestRead(n) PROVE EviInv'
  BY <1>3 DEF Evi!HarvestRead, EviInv, Evi!Uploading, Evi!SealedIsGenuine
<1>4. CASE Evi!HarvestWrite
  BY <1>4, EviWrite DEF Evi!HarvestWrite, Evi!Holdings
<1>5. CASE Evi!Verify
  BY <1>5 DEF Evi!Verify, EviInv, Evi!Uploading, Evi!SealedIsGenuine, Evi!Verified
<1>6. ASSUME NEW onlyLocked \in BOOLEAN, Evi!UploadBegin(onlyLocked) PROVE EviInv'
  <2>1. /\ upload' = [kind |-> "upload", todo |-> Evi!Uploads(file, onlyLocked), changed |-> {}]
        /\ UNCHANGED <<file, harvest, bucket, swapped>>
    BY <1>6 DEF Evi!UploadBegin
  <2>2. Evi!Uploads(file, onlyLocked) \subseteq {n \in Names : file[n] \in {"genuine", "resigned"}}
    BY DEF EviInv, Evi!Uploads, Evi!Tampered, Evi!Holdings
  <2>3. upload' \in Upload
    BY <2>1, <2>2 DEF Upload
  <2> QED BY <2>1, <2>2, <2>3 DEF EviInv, Evi!Uploading, Evi!SealedIsGenuine
<1>7. ASSUME NEW n \in Names, Evi!UploadOne(n) PROVE EviInv'
  <2>1. /\ Evi!Uploading /\ n \in upload.todo /\ UNCHANGED <<file, harvest>>
        /\ upload' = [upload EXCEPT !.todo = @ \ {n}, !.changed = @ \ {n}]
    BY <1>7 DEF Evi!UploadOne
  <2>2. upload \in Upload
    BY <2>1 DEF EviInv, Evi!Uploading, Evi!NotRunning, Evi!Verified
  <2>3. upload' \in Upload /\ upload'.todo = upload.todo \ {n} /\ upload'.changed = upload.changed \ {n}
    BY <2>1, <2>2 DEF Upload
  <2>4. CASE ~Evi!Exists(n)
    <3>1. UNCHANGED <<bucket, swapped>>
      BY <1>7, <2>4 DEF Evi!UploadOne
    <3> QED BY <2>1, <2>3, <3>1 DEF EviInv, Evi!Uploading, Evi!SealedIsGenuine
  <2>5. CASE Evi!Exists(n)
    <3>1. bucket' = [bucket EXCEPT ![n] = file[n]] /\ swapped' = (swapped \ {n}) \cup (upload.changed \cap {n})
      BY <1>7, <2>5 DEF Evi!UploadOne, Evi!Put
    <3>2. n \notin swapped' => file[n] \in {"genuine", "resigned"}
      BY <2>1, <3>1 DEF EviInv
    <3> QED BY <2>1, <2>3, <3>1, <3>2 DEF EviInv, Evi!Uploading, Evi!SealedIsGenuine
  <2> QED BY <2>4, <2>5
<1>8. CASE Evi!UploadEnd
  BY <1>8 DEF Evi!UploadEnd, EviInv, Evi!Uploading, Evi!SealedIsGenuine, Evi!NotRunning
<1>9. ASSUME NEW n \in Names, Evi!Lose(n) PROVE EviInv'
  BY <1>9, EviWrite DEF Evi!Lose, Evi!Holdings
<1>10. ASSUME NEW n \in Names, Evi!Restore(n) PROVE EviInv'
  <2>1. Evi!Got(n) \in Evi!Holdings
    BY DEF EviInv, Evi!Got
  <2> QED BY <1>10, <2>1, EviWrite DEF Evi!Restore
<1>11. CASE UNCHANGED eviVars
  BY <1>11 DEF eviVars, EviInv, Evi!Uploading, Evi!SealedIsGenuine
<1> QED BY <1>1, <1>2, <1>3, <1>4, <1>5, <1>6, <1>7, <1>8, <1>9, <1>10, <1>11 DEF Evi!Next

\* What is under lock was not changed by hand - but between its scan and its upload, or
\* before a harvester signed it again -, for any files, restores and harvesters.
THEOREM LockedEvidenceIsGenuine == Spec => []SealedIsGenuine
<1>1. EviInv => SealedIsGenuine
  BY DEF EviInv, SealedIsGenuine
<1> QED BY EviInit, EviStep, <1>1, PTL DEF Spec

-----------------------------------------------------------------------------
(* EvidenceGc *)

Untorn(d) == \A f \in Files : d[f] \in {"none", "young", "old"}
Of(d, t)  == {f \in Files : d[f] # "none" /\ TenantOf[f] = t}

\* While it is calm, one run removes; and of a tenant of which it has something still to
\* remove, the minimum would stay if all that was done.
GcInv ==
  /\ disk \in [Files -> Gc!States] /\ gc \in [Runs -> SUBSET Files]
  /\ calm \in BOOLEAN /\ enough \subseteq Gc!Tenants
  /\ calm => /\ Untorn(disk)
             /\ \A q, r \in Runs : gc[q] # {} /\ gc[r] # {} => q = r
             /\ \A r \in Runs : \A f \in gc[r] : Cardinality(Of(disk, TenantOf[f]) \ gc[r]) >= KeepMin
             /\ \A t \in enough : Cardinality(Of(disk, t)) >= KeepMin

\* The instance counts as FiniteSets does.
LEMMA GcCounts == \A S : Gc!Cardinality(S) = Cardinality(S)
BY DEF Gc!Cardinality, Cardinality

\* A file that is not torn belongs to its tenant.
LEMMA UntornBelongs ==
  ASSUME NEW d, Untorn(d), NEW t PROVE Gc!Belonging(d, t) = Of(d, t)
BY DEF Untorn, Of, Gc!Belonging, Gc!There

LEMMA FilesAreFinite ==
  ASSUME NEW S, S \subseteq Files PROVE IsFiniteSet(S) /\ Cardinality(S) \in Nat
BY GcAssumption, FS_Subset, FS_CardinalityType

\* More files are no fewer.
LEMMA MoreFiles ==
  ASSUME NEW S, NEW T, S \subseteq T, T \subseteq Files, Cardinality(S) >= KeepMin
  PROVE  Cardinality(T) >= KeepMin
<1>1. S \subseteq Files
  OBVIOUS
<1>2. IsFiniteSet(T) /\ Cardinality(T) \in Nat /\ Cardinality(S) \in Nat
  BY <1>1, FilesAreFinite
<1>3. Cardinality(S) <= Cardinality(T)
  BY <1>2, FS_Subset
<1> QED BY <1>2, <1>3, GcAssumption

\* A list of candidates leaves the minimum of each tenant it names a file of.
LEMMA CandidatesLeaveEnough ==
  ASSUME NEW d, Untorn(d), NEW c \in Gc!Candidates(d), NEW f \in c
  PROVE  f \in Files /\ Cardinality(Of(d, TenantOf[f]) \ c) >= KeepMin
<1> DEFINE t == TenantOf[f]
           own == Gc!Belonging(d, t)
           old == (Gc!Belonging(d, t) \cap Gc!Old(d)) \ Kept
<1>1. /\ f \in Files /\ d[f] # "none" /\ t \in Gc!Tenants
      /\ Cardinality(c \cap own) = IF Gc!MayGo(d, t) > 0 THEN Gc!MayGo(d, t) ELSE 0
  BY GcCounts DEF Gc!Candidates, Gc!Old, Gc!Tenants
<1>2. own = Of(d, t) /\ f \in own /\ own \subseteq Files
  BY <1>1, UntornBelongs DEF Of
<1>3. /\ IsFiniteSet(own) /\ Cardinality(own) \in Nat
      /\ IsFiniteSet(c \cap own) /\ Cardinality(c \cap own) \in Nat
      /\ IsFiniteSet(own \ c) /\ Cardinality(own \ c) \in Nat
      /\ IsFiniteSet(old) /\ Cardinality(old) \in Nat
  BY <1>2, FilesAreFinite
<1>4. Gc!MayGo(d, t) = IF Cardinality(old) < Cardinality(own) - KeepMin THEN Cardinality(old) ELSE Cardinality(own) - KeepMin
  BY GcCounts DEF Gc!MayGo, Gc!Lower
<1>5. Cardinality(c \cap own) # 0
  BY <1>2, <1>3, FS_EmptySet
<1>6. Cardinality(own \ c) = Cardinality(own) - Cardinality(c \cap own)
  <2>1. c \cap own = own \cap c
    OBVIOUS
  <2> QED BY <1>3, <2>1, FS_Difference
<1> HIDE DEF own, old
<1>7. Cardinality(own \ c) >= KeepMin
  BY <1>1, <1>3, <1>4, <1>5, <1>6, GcAssumption
<1> QED BY <1>1, <1>2, <1>7

LEMMA GcInit == Init => GcInv
<1> SUFFICES ASSUME Gc!Init PROVE GcInv
  BY DEF Init
<1>1. \A f \in Files : disk[f] = "none"
  BY DEF Gc!Init
<1> QED BY <1>1 DEF Gc!Init, GcInv, Untorn, Of, Gc!States

LEMMA GcStep == GcInv /\ [Next]_vars => GcInv'
<1> SUFFICES ASSUME GcInv, Gc!Next \/ UNCHANGED gcVars PROVE GcInv'
  BY DEF Next, vars
<1>0. \A d, t : Of(d, t) \subseteq Files
  BY DEF Of
<1>1. ASSUME NEW f \in Files, Gc!Write(f) PROVE GcInv'
  <2>1. PICK s \in {"young", "young torn"} : disk' = [disk EXCEPT ![f] = s] /\ calm' = (calm /\ s # "young torn")
    BY <1>1 DEF Gc!Write
  <2>2. enough' = enough \cup Gc!Reached(disk') /\ gc' = gc
    BY <1>1 DEF Gc!Write
  <2>3. disk' \in [Files -> Gc!States] /\ calm' \in BOOLEAN /\ enough' \subseteq Gc!Tenants
    BY <2>1, <2>2 DEF GcInv, Gc!States, Gc!Reached
  <2>4. ASSUME calm'
        PROVE  /\ Untorn(disk')
               /\ \A r \in Runs : \A g \in gc[r] : Cardinality(Of(disk', TenantOf[g]) \ gc[r]) >= KeepMin
               /\ \A t \in enough' : Cardinality(Of(disk', t)) >= KeepMin
    <3>1. calm /\ disk' = [disk EXCEPT ![f] = "young"]
      BY <2>1, <2>4
    <3>2. Untorn(disk')
      BY <3>1 DEF GcInv, Untorn
    <3>3. \A t : Of(disk, t) \subseteq Of(disk', t)
      BY <3>1 DEF Of, GcInv
    <3>4. ASSUME NEW r \in Runs, NEW g \in gc[r] PROVE Cardinality(Of(disk', TenantOf[g]) \ gc[r]) >= KeepMin
      <4>1. Cardinality(Of(disk, TenantOf[g]) \ gc[r]) >= KeepMin
        BY <3>1 DEF GcInv
      <4>2. /\ Of(disk, TenantOf[g]) \ gc[r] \subseteq Of(disk', TenantOf[g]) \ gc[r]
            /\ Of(disk', TenantOf[g]) \ gc[r] \subseteq Files
        BY <3>3, <1>0
      <4> QED BY <4>1, <4>2, MoreFiles
    <3>5. ASSUME NEW t \in enough' PROVE Cardinality(Of(disk', t)) >= KeepMin
      <4>1. CASE t \in enough
        BY <4>1, <3>1, <3>3, <1>0, MoreFiles DEF GcInv
      <4>2. CASE t \in Gc!Reached(disk')
        BY <4>2, <3>2, UntornBelongs, GcCounts DEF Gc!Reached
      <4> QED BY <4>1, <4>2, <2>2
    <3> QED BY <3>2, <3>4, <3>5
  <2>5. calm' => calm
    BY <2>1
  <2> QED BY <2>2, <2>3, <2>4, <2>5 DEF GcInv
<1>2. ASSUME NEW f \in Files, Gc!Age(f) PROVE GcInv'
  <2>1. /\ disk[f] \in {"young", "young torn"} /\ UNCHANGED <<gc, calm, enough>>
        /\ disk' = [disk EXCEPT ![f] = IF @ = "young" THEN "old" ELSE "old torn"]
    BY <1>2 DEF Gc!Age
  <2>2. disk' \in [Files -> Gc!States]
    BY <2>1 DEF GcInv, Gc!States
  <2>3. Untorn(disk) => Untorn(disk') /\ \A t : Of(disk', t) = Of(disk, t)
    BY <2>1 DEF GcInv, Untorn, Of
  <2> QED BY <2>1, <2>2, <2>3 DEF GcInv
<1>3. ASSUME NEW r \in Runs, Gc!Scan(r) PROVE GcInv'
  <2>1. /\ gc[r] = {} /\ UNCHANGED <<disk, enough>>
        /\ calm' = (calm /\ \A q \in Runs : gc[q] = {})
    BY <1>3 DEF Gc!Scan
  <2>2. PICK c \in Gc!Candidates(disk) : gc' = [gc EXCEPT ![r] = c]
    BY <1>3 DEF Gc!Scan
  <2>3. c \subseteq Files
    BY DEF Gc!Candidates, Gc!Old
  <2>4. gc' \in [Runs -> SUBSET Files] /\ \A q \in Runs : gc'[q] = IF q = r THEN c ELSE gc[q]
    BY <2>2, <2>3 DEF GcInv
  <2>5. ASSUME calm', NEW f \in c PROVE Cardinality(Of(disk, TenantOf[f]) \ c) >= KeepMin
    BY <2>1, <2>5, CandidatesLeaveEnough DEF GcInv
  <2> QED BY <2>1, <2>4, <2>5 DEF GcInv
<1>4. ASSUME NEW r \in Runs, Gc!Die(r) PROVE GcInv'
  BY <1>4 DEF Gc!Die, GcInv
<1>5. ASSUME NEW r \in Runs, NEW f \in Files, Gc!Unlink(r, f) PROVE GcInv'
  <2>1. /\ f \in gc[r] /\ UNCHANGED <<calm, enough>>
        /\ gc' = [gc EXCEPT ![r] = @ \ {f}] /\ disk' = [disk EXCEPT ![f] = "none"]
    BY <1>5 DEF Gc!Unlink
  <2>2. /\ gc' \in [Runs -> SUBSET Files] /\ disk' \in [Files -> Gc!States]
        /\ \A q \in Runs : gc'[q] = IF q = r THEN gc[r] \ {f} ELSE gc[q]
    BY <2>1 DEF GcInv, Gc!States
  <2>3. Untorn(disk) => Untorn(disk')
    BY <2>1 DEF GcInv, Untorn
  <2>4. \A t : Of(disk', t) = Of(disk, t) \ {f}
    BY <2>1 DEF GcInv, Of
  <2>5. ASSUME calm, NEW q \in Runs, NEW g \in gc'[q]
        PROVE  Cardinality(Of(disk', TenantOf[g]) \ gc'[q]) >= KeepMin
    <3>1. q = r /\ g \in gc[r]
      BY <2>1, <2>2, <2>5 DEF GcInv
    <3>2. Of(disk', TenantOf[g]) \ gc'[q] = Of(disk, TenantOf[g]) \ gc[r]
      <4>1. gc'[q] = gc[r] \ {f} /\ f \in gc[r]
        BY <2>1, <2>2, <3>1
      <4> HIDE DEF GcInv
      <4> QED BY <2>4, <4>1
    <3> QED BY <3>1, <3>2, <2>5 DEF GcInv
  <2>6. ASSUME calm, NEW t \in enough PROVE Cardinality(Of(disk', t)) >= KeepMin
    <3>1. CASE TenantOf[f] = t
      <4>1. Cardinality(Of(disk, t) \ gc[r]) >= KeepMin
        BY <2>1, <2>6, <3>1 DEF GcInv
      <4>2. Of(disk, t) \ gc[r] \subseteq Of(disk', t) /\ Of(disk', t) \subseteq Files
        BY <2>1, <2>4, <1>0
      <4> QED BY <4>1, <4>2, MoreFiles
    <3>2. CASE TenantOf[f] # t
      <4>1. Of(disk', t) = Of(disk, t)
        BY <2>4, <3>2 DEF Of
      <4> QED BY <4>1, <2>6 DEF GcInv
    <3> QED BY <3>1, <3>2
  <2>7. \A q, s \in Runs : calm /\ gc'[q] # {} /\ gc'[s] # {} => q = s
    BY <2>2 DEF GcInv
  <2> QED BY <2>1, <2>2, <2>3, <2>5, <2>6, <2>7 DEF GcInv
<1>6. CASE UNCHANGED gcVars
  BY <1>6 DEF gcVars, GcInv
<1> QED BY <1>1, <1>2, <1>3, <1>4, <1>5, <1>6 DEF Gc!Next

\* A tenant keeps its minimum of files, for any files and tenants and whatever is written
\* between listing and removing, but for overlapping runs and torn files.
THEOREM TenantsKeepTheirMinimum == Spec => []MinimumIsKept
<1>1. GcInv => MinimumIsKept
  BY UntornBelongs, GcCounts DEF GcInv, MinimumIsKept, Gc!MinimumIsKept
<1> QED BY GcInit, GcStep, <1>1, PTL DEF Spec

-----------------------------------------------------------------------------
(* KeyCaches *)

\* A key that a round dropped: since that round there was none that found a key, and its
\* grace runs; or it is over and the key forgotten.
InGrace(k) ==
  /\ loader.keys[k] = Cache!None /\ loader.keys # Cache!NoKeys
  /\ dropped[k] \in Nat /\ dropped[k] <= clock /\ dropped[k] <= loader.at
  /\ \/ /\ loader.grace[k] # Cache!None
        /\ loader.at = dropped[k] /\ loader.end = dropped[k] + Grace
     \/ loader.grace[k] = Cache!None /\ clock >= dropped[k] + Grace

CacheInv ==
  /\ clock \in Nat /\ loader.at \in Int /\ loader.end \in Int
  /\ loader \in [keys : [Ids -> Secrets \cup {Cache!None}], at : Int,
                 grace : [Ids -> Secrets \cup {Cache!None}], end : Int, degraded : BOOLEAN]
  /\ env \in Cache!Source /\ ssm \in Cache!Source
  /\ dropped \in [Ids -> Int]
  /\ \A k \in Ids : dropped[k] # Cache!None => InGrace(k)
  /\ kms \in [active : Cache!Source, degraded : BOOLEAN]
  /\ Cache!ReadyMeansComplete

LEMMA CacheInit == Init => CacheInv
<1> SUFFICES ASSUME Cache!Init PROVE CacheInv
  BY DEF Init
<1>1. Cache!NoKeys \in Cache!Source
  BY DEF Cache!NoKeys, Cache!Source
<1>2. clock = 0 /\ env \in Cache!Source /\ ssm = Cache!NoKeys /\ dropped = [k \in Ids |-> Cache!None]
  BY DEF Cache!Init
<1>3. /\ loader = [keys |-> Cache!NoKeys, at |-> -Interval, grace |-> Cache!NoKeys, end |-> 0, degraded |-> FALSE]
      /\ kms = [active |-> env, degraded |-> Cache!Degraded(env)]
  BY DEF Cache!Init
<1>4. dropped \in [Ids -> Int] /\ \A k \in Ids : dropped[k] = Cache!None
  BY <1>2 DEF Cache!None
<1>5. kms \in [active : Cache!Source, degraded : BOOLEAN] /\ Cache!ReadyMeansComplete
  BY <1>2, <1>3 DEF Cache!Degraded, Cache!ReadyMeansComplete, Cache!KmsGiven
<1> QED BY <1>1, <1>2, <1>3, <1>4, <1>5, KeysAssumption DEF CacheInv, Cache!Source

\* What one set of keys gives before another.
LEMMA OverIsSource ==
  ASSUME NEW high \in Cache!Source, NEW low \in Cache!Source
  PROVE  /\ Cache!Over(high, low) \in Cache!Source
         /\ \A k \in Ids : low[k] # Cache!None => Cache!Over(high, low)[k] # Cache!None
         /\ \A k \in Ids : high[k] # Cache!None => Cache!Over(high, low)[k] # Cache!None
BY DEF Cache!Over, Cache!Source

\* A round of the loader.
LEMMA CacheRefresh ==
  ASSUME CacheInv, NEW answers \in BOOLEAN, Cache!Refresh(answers) PROVE CacheInv'
<1> DEFINE found == Cache!Over(env, IF answers THEN ssm ELSE Cache!NoKeys)
<1>0. found \in Cache!Source
  <2>1. Cache!NoKeys \in Cache!Source
    BY DEF Cache!NoKeys, Cache!Source
  <2> QED BY <2>1, OverIsSource DEF CacheInv
<1>1. /\ clock - loader.at >= Interval /\ UNCHANGED <<env, ssm, clock, kms>>
      /\ loader' = IF found = Cache!NoKeys
                   THEN [loader EXCEPT !.grace = Cache!GraceOf.keys, !.end = Cache!GraceOf.end, !.degraded = TRUE]
                   ELSE [keys |-> found, at |-> clock, grace |-> Cache!GraceOf.keys,
                         end |-> Cache!GraceOf.end, degraded |-> FALSE]
      /\ dropped' = IF found = Cache!NoKeys THEN dropped
                    ELSE [k \in Ids |-> IF found[k] # Cache!None THEN Cache!None
                                       ELSE IF loader.keys[k] # Cache!None THEN clock ELSE dropped[k]]
  BY DEF Cache!Refresh
<1> HIDE DEF found
<1>2. /\ loader.keys = Cache!NoKeys => Cache!GraceOf.keys = loader.grace /\ Cache!GraceOf.end = loader.end
      /\ loader.keys # Cache!NoKeys => Cache!GraceOf.keys = loader.keys /\ Cache!GraceOf.end = clock + Grace
  BY DEF Cache!GraceOf
<1>3. /\ Cache!GraceOf.keys \in Cache!Source /\ Cache!GraceOf.end \in Int
  BY <1>2, KeysAssumption DEF CacheInv, Cache!Source
<1>4. Cache!ReadyMeansComplete'
  BY <1>1 DEF CacheInv, Cache!ReadyMeansComplete, Cache!KmsGiven
<1>5. CASE found = Cache!NoKeys
  <2>1. /\ loader' \in [keys : Cache!Source, at : Int, grace : Cache!Source, end : Int, degraded : BOOLEAN]
        /\ loader'.keys = loader.keys /\ loader'.at = loader.at
        /\ loader'.grace = Cache!GraceOf.keys /\ loader'.end = Cache!GraceOf.end /\ dropped' = dropped
    BY <1>1, <1>3, <1>5 DEF CacheInv, Cache!Source
  <2>2. ASSUME NEW k \in Ids, dropped[k] # Cache!None PROVE InGrace(k)'
    <3>1. InGrace(k)
      BY <2>2 DEF CacheInv
    <3>2. loader'.grace[k] = Cache!None
      BY <2>1, <3>1, <1>2 DEF InGrace
    <3>3. clock >= dropped[k] + Grace
      BY <3>1, <1>1, KeysAssumption DEF InGrace, CacheInv
    <3> QED BY <3>1, <3>2, <3>3, <2>1, <1>1 DEF InGrace, Cache!NoKeys
  <2> QED BY <2>1, <2>2, <1>1, <1>4 DEF CacheInv, Cache!Source
<1>6. CASE found # Cache!NoKeys
  <2>1. /\ loader' \in [keys : Cache!Source, at : Int, grace : Cache!Source, end : Int, degraded : BOOLEAN]
        /\ loader'.keys = found /\ loader'.at = clock
        /\ loader'.grace = Cache!GraceOf.keys /\ loader'.end = Cache!GraceOf.end
    BY <1>0, <1>1, <1>3, <1>6 DEF CacheInv
  <2>2. \A k \in Ids : /\ found[k] # Cache!None => dropped'[k] = Cache!None
                       /\ found[k] = Cache!None /\ loader.keys[k] # Cache!None => dropped'[k] = clock
                       /\ found[k] = Cache!None /\ loader.keys[k] = Cache!None => dropped'[k] = dropped[k]
    BY <1>1, <1>6
  <2>3. dropped' \in [Ids -> Int]
    BY <1>1, <1>6 DEF CacheInv, Cache!None
  <2>4. ASSUME NEW k \in Ids, dropped'[k] # Cache!None PROVE InGrace(k)'
    <3>0. found[k] = Cache!None
      BY <2>2, <2>4
    <3>1. CASE loader.keys[k] # Cache!None
      <4>1. loader.keys # Cache!NoKeys
        BY <3>1 DEF Cache!NoKeys
      <4> QED BY <4>1, <3>0, <3>1, <2>1, <2>2, <1>1, <1>2, <1>6 DEF InGrace, CacheInv, Cache!NoKeys
    <3>2. CASE loader.keys[k] = Cache!None
      <4>1. dropped'[k] = dropped[k] /\ InGrace(k)
        BY <3>0, <3>2, <2>2, <2>4 DEF CacheInv
      <4>2. loader'.grace[k] = Cache!None
        BY <2>1, <4>1, <1>2 DEF InGrace
      <4>3. clock >= dropped[k] + Grace
        BY <4>1, <1>1, KeysAssumption DEF InGrace, CacheInv
      <4> QED BY <4>1, <4>2, <4>3, <3>0, <2>1, <1>1, <1>6 DEF InGrace, Cache!NoKeys
    <3> QED BY <3>1, <3>2
  <2> QED BY <2>1, <2>3, <2>4, <1>1, <1>4 DEF CacheInv, Cache!Source
<1> QED BY <1>5, <1>6

LEMMA CacheStep == CacheInv /\ [Next]_vars => CacheInv'
<1> SUFFICES ASSUME CacheInv, Cache!Next \/ UNCHANGED cacheVars PROVE CacheInv'
  BY DEF Next, vars
<1>1. ASSUME NEW k \in Ids, NEW v \in Secrets \cup {Cache!None}, Cache!EditSsm(k, v) PROVE CacheInv'
  <2>1. ssm' \in Cache!Source
    BY <1>1 DEF Cache!EditSsm, CacheInv, Cache!Source
  <2> QED BY <2>1, <1>1 DEF Cache!EditSsm, CacheInv, InGrace, Cache!ReadyMeansComplete, Cache!KmsGiven, Cache!NoKeys
<1>2. CASE Cache!Tick
  <2>1. clock' = clock + 1 /\ UNCHANGED <<env, ssm, loader, kms, dropped>>
    BY <1>2 DEF Cache!Tick
  <2>2. ASSUME NEW k \in Ids, InGrace(k) PROVE InGrace(k)'
    BY <2>1, <2>2, KeysAssumption DEF CacheInv, InGrace, Cache!NoKeys
  <2> QED BY <2>1, <2>2 DEF CacheInv, Cache!ReadyMeansComplete, Cache!KmsGiven
<1>3. ASSUME NEW answers \in BOOLEAN, Cache!Refresh(answers) PROVE CacheInv'
  BY <1>3, CacheRefresh
<1>4. ASSUME NEW k \in Ids, Cache!LoadKey(k) PROVE CacheInv'
  <2> DEFINE one == [j \in Ids |-> IF j = k THEN Cache!Over(env, ssm)[k] ELSE Cache!None]
  <2>1. kms' = [kms EXCEPT !.active = Cache!Over(one, @)] /\ UNCHANGED <<env, ssm, clock, loader, dropped>>
    BY <1>4 DEF Cache!LoadKey
  <2>2. one \in Cache!Source
    BY OverIsSource DEF CacheInv, Cache!Source
  <2> HIDE DEF one
  <2>3. kms' \in [active : Cache!Source, degraded : BOOLEAN] /\ kms'.degraded = kms.degraded
        /\ \A j \in Ids : kms.active[j] # Cache!None => kms'.active[j] # Cache!None
    BY <2>1, <2>2, OverIsSource DEF CacheInv
  <2> QED BY <2>1, <2>3 DEF CacheInv, Cache!ReadyMeansComplete, Cache!KmsGiven, InGrace, Cache!NoKeys
<1>5. CASE Cache!LoadAll
  <2> DEFINE found == Cache!Over(env, ssm)
  <2>1. /\ kms' = [active |-> Cache!Over(found, kms.active), degraded |-> Cache!Degraded(found)]
        /\ UNCHANGED <<env, ssm, clock, loader, dropped>>
    BY <1>5 DEF Cache!LoadAll
  <2>2. found \in Cache!Source
    BY OverIsSource DEF CacheInv
  <2> HIDE DEF found
  <2>3. kms' \in [active : Cache!Source, degraded : BOOLEAN]
        /\ \A j \in Ids : found[j] # Cache!None => kms'.active[j] # Cache!None
    BY <2>1, <2>2, OverIsSource DEF CacheInv, Cache!Degraded
  <2> QED BY <2>1, <2>3 DEF CacheInv, Cache!ReadyMeansComplete, Cache!KmsGiven, Cache!Degraded, InGrace, Cache!NoKeys
<1>6. CASE UNCHANGED cacheVars
  BY <1>6 DEF cacheVars, CacheInv, InGrace, Cache!ReadyMeansComplete, Cache!KmsGiven, Cache!NoKeys
<1> QED BY <1>1, <1>2, <1>3, <1>4, <1>5, <1>6 DEF Cache!Next

\* A dropped key is given to the end of its grace and no longer, and a loader that calls
\* itself ready has all keys, for any keys and any times, if no round falls into the
\* grace of another.
THEOREM KeyCachesTellTheTruth == Spec => []KeysAreHonest
<1>1. CacheInv => KeysAreHonest
  <2> SUFFICES ASSUME CacheInv, NEW k \in Ids, dropped[k] # Cache!None
               PROVE  Cache!Given(k) # Cache!None <=> clock < dropped[k] + Grace
    BY DEF KeysAreHonest, Cache!GraceIsExact, CacheInv
  <2>1. InGrace(k)
    BY DEF CacheInv
  <2> QED BY <2>1, KeysAssumption DEF InGrace, CacheInv, Cache!Given
<1> QED BY CacheInit, CacheStep, <1>1, PTL DEF Spec

-----------------------------------------------------------------------------
(* Cards *)

Said    == Indexes \cup {Card!Nobody}
Request == [pc : {"idle", "stat", "read", "aggregate"}, body : Said, key : Nat, crossed : BOOLEAN]
Copy    == [etag : Said \cup Nat, body : Said, crossed : BOOLEAN]
Entry   == [etag : Nat, made : Said, crossed : BOOLEAN]

CardType ==
  /\ index \in [says : Said, stamp : Nat] /\ made \in Nat
  /\ etags \in [DOMAIN etags -> Said] /\ DOMAIN etags \subseteq 0..index.stamp
  /\ trends \in [DOMAIN trends -> Entry]
  /\ asked \in [Card!Clients -> Request] /\ held \in [Card!Clients -> Copy]

\* The digest filed under the stamp of now is that of now; what a client is being told was
\* made of the index of now, or it was written meanwhile.
Filed  == index.stamp \in DOMAIN etags => etags[index.stamp] = index.says
Making == \A c \in Card!Clients :
            /\ asked[c].pc # "idle" /\ ~asked[c].crossed => asked[c].body = index.says
            /\ asked[c].key <= index.stamp

\* A card's tag is the digest of its body; a trend's tag is of one body only, and that was
\* made of the index it is filed under.
CardTags  == \A c \in CardClients : ~held[c].crossed => held[c].body = held[c].etag
TrendTags ==
  /\ \A s \in DOMAIN trends : /\ trends[s].etag <= made
                              /\ ~trends[s].crossed => trends[s].made = s
  /\ \A r, s \in DOMAIN trends : trends[r].etag = trends[s].etag =>
       trends[r].made = trends[s].made /\ trends[r].crossed = trends[s].crossed
  /\ \A c \in TrendClients :
       /\ held[c].etag \in Nat /\ held[c].etag <= made
       /\ \A s \in DOMAIN trends : held[c].etag = trends[s].etag =>
            held[c].body = trends[s].made /\ held[c].crossed = trends[s].crossed

CardInv == CardType /\ Filed /\ Making /\ CardTags /\ TrendTags

LEMMA CardInit == Init => CardInv
<1> SUFFICES ASSUME Card!Init PROVE CardInv
  BY DEF Init
<1>1. /\ index = [says |-> 0, stamp |-> 0] /\ etags = <<>> /\ trends = <<>> /\ made = 0
      /\ asked = [c \in Card!Clients |-> [pc |-> "idle", body |-> 0, key |-> 0, crossed |-> FALSE]]
      /\ held = [c \in Card!Clients |-> [etag |-> 0, body |-> 0, crossed |-> FALSE]]
  BY DEF Card!Init, Card!Nobody, Card!Idle, Card!Nothing
<1>2. DOMAIN etags = {} /\ DOMAIN trends = {}
  BY <1>1
<1>3. CardClients \subseteq Card!Clients /\ TrendClients \subseteq Card!Clients
  BY DEF Card!Clients
<1>4. CardType
  BY <1>1, <1>2 DEF CardType, Said, Request, Copy, Entry, Card!Nobody
<1> QED BY <1>1, <1>2, <1>3, <1>4 DEF CardInv, Filed, Making, CardTags, TrendTags

\* An answer to a client of the cards.
LEMMA CardAnswer ==
  ASSUME CardInv, NEW c \in CardClients, asked[c].pc # "idle",
         NEW etag \in Said, Card!Answer(c, etag), etag = index.says,
         UNCHANGED <<index, trends, made>>
  PROVE  /\ asked' \in [Card!Clients -> Request] /\ held' \in [Card!Clients -> Copy]
         /\ Making' /\ CardTags' /\ TrendTags'
<1>0. c \in Card!Clients /\ CardClients \subseteq Card!Clients /\ TrendClients \subseteq Card!Clients
  BY DEF Card!Clients
<1>1. asked' = [asked EXCEPT ![c] = Card!Idle] /\ Card!Idle \in Request
      /\ Card!Idle.pc = "idle" /\ Card!Idle.key = 0
  BY DEF Card!Answer, Card!Idle, Request, Said, Card!Nobody
<1>2. asked' \in [Card!Clients -> Request] /\ Making'
  BY <1>0, <1>1 DEF CardInv, CardType, Making
<1> DEFINE full == [etag |-> etag, body |-> asked[c].body, crossed |-> asked[c].crossed]
<1>3. held' = IF held[c].etag = etag THEN held ELSE [held EXCEPT ![c] = full]
  BY DEF Card!Answer
<1>4. full \in Copy /\ (~full.crossed => full.body = full.etag)
  BY <1>0 DEF CardInv, CardType, Request, Copy, Making
<1> HIDE DEF full
<1>5. held' \in [Card!Clients -> Copy] /\ CardTags'
  BY <1>0, <1>3, <1>4 DEF CardInv, CardType, CardTags
<1>6. \A d \in TrendClients : held'[d] = held[d]
  BY <1>0, <1>3, CardsAssumption DEF CardInv, CardType
<1>7. TrendTags'
  BY <1>6 DEF CardInv, TrendTags
<1> QED BY <1>2, <1>5, <1>7

LEMMA CardStep == CardInv /\ [Next]_vars => CardInv'
<1> SUFFICES ASSUME CardInv, Card!Next \/ UNCHANGED cardVars PROVE CardInv'
  BY DEF Next, vars
<1>0. CardClients \subseteq Card!Clients /\ TrendClients \subseteq Card!Clients
  BY DEF Card!Clients
<1>00. Card!Idle \in Request /\ Card!Idle.pc = "idle" /\ Card!Idle.key = 0
  BY DEF Card!Idle, Request, Said, Card!Nobody
<1>1. ASSUME NEW i \in Indexes, Card!Write(i) PROVE CardInv'
  <2>1. /\ index' = [says |-> i, stamp |-> index.stamp + 1] /\ UNCHANGED <<etags, trends, made, held>>
        /\ asked' = [c \in Card!Clients |-> IF asked[c].pc = "idle" THEN Card!Idle
                                            ELSE [asked[c] EXCEPT !.crossed = TRUE]]
    BY <1>1 DEF Card!Write
  <2>2. /\ index' \in [says : Said, stamp : Nat] /\ index'.stamp = index.stamp + 1 /\ index.stamp \in Nat
        /\ index'.says = i
    BY <2>1 DEF CardInv, CardType, Said
  <2>3. ASSUME NEW c \in Card!Clients
        PROVE  asked'[c] \in Request /\ asked'[c].key <= index.stamp
               /\ (asked'[c].pc # "idle" => asked'[c].crossed)
    <3>1. asked[c] \in Request /\ asked[c].key <= index.stamp
      BY DEF CardInv, CardType, Making
    <3>2. CASE asked[c].pc = "idle"
      BY <2>1, <2>2, <3>2, <1>00
    <3>3. CASE asked[c].pc # "idle"
      BY <2>1, <3>1, <3>3 DEF Request
    <3> QED BY <3>2, <3>3
  <2>4. CardType'
    BY <2>1, <2>2, <2>3 DEF CardInv, CardType
  <2>5. Filed'
    <3>1. index.stamp + 1 \notin DOMAIN etags
      BY <2>2 DEF CardInv, CardType
    <3> QED BY <2>1, <2>2, <3>1 DEF Filed
  <2>6. Making'
    <3>1. ASSUME NEW c \in Card!Clients PROVE asked'[c].key <= index.stamp + 1
      <4>1. asked'[c].key \in Nat
        BY <2>3 DEF Request
      <4> QED BY <2>2, <2>3, <4>1
    <3> QED BY <2>2, <2>3, <3>1 DEF Making
  <2> QED BY <2>1, <2>4, <2>5, <2>6 DEF CardInv, CardTags, TrendTags
<1>2. CASE Card!Forget
  <2>0. UNCHANGED <<index, made, asked, held>>
    BY <1>2 DEF Card!Forget
  <2>1. CASE \E s \in DOMAIN etags : etags' = Card!Restrict(etags, DOMAIN etags \ {s}) /\ UNCHANGED trends
    <3>1. DOMAIN etags' \subseteq DOMAIN etags /\ (\A s \in DOMAIN etags' : etags'[s] = etags[s])
          /\ etags' \in [DOMAIN etags' -> Said]
      BY <2>1 DEF Card!Restrict, CardInv, CardType
    <3>2. CardType' /\ Filed'
      BY <2>0, <2>1, <3>1 DEF CardInv, CardType, Filed
    <3> QED BY <2>0, <2>1, <3>2 DEF CardInv, Making, CardTags, TrendTags
  <2>2. CASE \E s \in DOMAIN trends : trends' = Card!Restrict(trends, DOMAIN trends \ {s}) /\ UNCHANGED etags
    <3>1. DOMAIN trends' \subseteq DOMAIN trends /\ (\A s \in DOMAIN trends' : trends'[s] = trends[s])
          /\ trends' \in [DOMAIN trends' -> Entry]
      BY <2>2 DEF Card!Restrict, CardInv, CardType
    <3>2. CardType'
      BY <2>0, <2>2, <3>1 DEF CardInv, CardType
    <3>3. TrendTags'
      BY <2>0, <3>1 DEF CardInv, TrendTags
    <3> QED BY <2>0, <2>2, <3>2, <3>3 DEF CardInv, Filed, Making, CardTags
  <2> QED BY <1>2, <2>1, <2>2 DEF Card!Forget
<1>3. ASSUME NEW c \in CardClients, Card!Compute(c) PROVE CardInv'
  <2> DEFINE r == [pc |-> "stat", body |-> index.says, key |-> 0, crossed |-> FALSE]
  <2>1. asked' = [asked EXCEPT ![c] = r] /\ UNCHANGED <<index, etags, trends, made, held>>
    BY <1>3 DEF Card!Compute
  <2>2. r \in Request /\ r.body = index.says /\ r.key = 0
    BY DEF CardInv, CardType, Request
  <2> HIDE DEF r
  <2>3. CardType' /\ Making'
    BY <1>0, <2>1, <2>2 DEF CardInv, CardType, Making
  <2> QED BY <2>1, <2>3 DEF CardInv, Filed, CardTags, TrendTags
<1>4. ASSUME NEW c \in CardClients, Card!Stat(c) PROVE CardInv'
  <2>1. asked[c].pc = "stat" /\ UNCHANGED <<index, etags, trends, made>>
    BY <1>4 DEF Card!Stat
  <2>2. CASE index.says = Card!Nobody
    <3>1. asked' = [asked EXCEPT ![c] = Card!Idle] /\ UNCHANGED held
      BY <1>4, <2>2 DEF Card!Stat
    <3>2. CardType' /\ Making'
      BY <1>0, <1>00, <2>1, <3>1 DEF CardInv, CardType, Making
    <3> QED BY <2>1, <3>1, <3>2 DEF CardInv, Filed, CardTags, TrendTags
  <2>3. CASE index.says # Card!Nobody /\ Card!Stamp \in DOMAIN etags
    <3>1. Card!Answer(c, etags[index.stamp]) /\ index.stamp \in DOMAIN etags
      BY <1>4, <2>3 DEF Card!Stat, Card!Stamp
    <3>2. etags[index.stamp] = index.says /\ index.says \in Said
      BY <3>1 DEF CardInv, CardType, Filed
    <3>3. asked' \in [Card!Clients -> Request] /\ held' \in [Card!Clients -> Copy] /\ Making' /\ CardTags' /\ TrendTags'
      BY <2>1, <3>1, <3>2, CardAnswer
    <3> QED BY <2>1, <3>3 DEF CardInv, CardType, Filed, TrendTags
  <2>4. CASE index.says # Card!Nobody /\ Card!Stamp \notin DOMAIN etags
    <3> DEFINE r == [asked[c] EXCEPT !.pc = "read", !.key = index.stamp]
    <3>1. asked[c] \in Request /\ (~asked[c].crossed => asked[c].body = index.says) /\ index.stamp \in Nat
      BY <1>0, <2>1 DEF CardInv, CardType, Making
    <3>2. asked' = [asked EXCEPT ![c] = r] /\ UNCHANGED held
      BY <1>4, <2>4, <3>1 DEF Card!Stat, Card!Stamp
    <3>3. r \in Request /\ (~r.crossed => r.body = index.says) /\ r.key = index.stamp
      BY <3>1 DEF Request
    <3> HIDE DEF r
    <3>4. CardType' /\ Making'
      BY <1>0, <2>1, <3>1, <3>2, <3>3 DEF CardInv, CardType, Making
    <3> QED BY <2>1, <3>2, <3>4 DEF CardInv, Filed, CardTags, TrendTags
  <2> QED BY <2>2, <2>3, <2>4
<1>5. ASSUME NEW c \in CardClients, Card!Digest(c) PROVE CardInv'
  <2>1. /\ asked[c].pc = "read" /\ Card!Answer(c, index.says) /\ UNCHANGED <<index, trends, made>>
        /\ etags' = [s \in DOMAIN etags \cup {asked[c].key} |-> IF s = asked[c].key THEN index.says ELSE etags[s]]
    BY <1>5 DEF Card!Digest
  <2>2. index.says \in Said /\ asked[c].key \in Nat /\ asked[c].key <= index.stamp /\ index.stamp \in Nat
    BY <1>0 DEF CardInv, CardType, Making, Request
  <2>3. asked' \in [Card!Clients -> Request] /\ held' \in [Card!Clients -> Copy] /\ Making' /\ CardTags' /\ TrendTags'
    BY <2>1, <2>2, CardAnswer
  <2>4. etags' \in [DOMAIN etags' -> Said] /\ DOMAIN etags' \subseteq 0..index.stamp /\ Filed'
    BY <2>1, <2>2 DEF CardInv, CardType, Filed
  <2> QED BY <2>1, <2>3, <2>4 DEF CardInv, CardType, TrendTags
<1>6. ASSUME NEW c \in TrendClients, Card!Peek(c) PROVE CardInv'
  <2>1. asked[c].pc = "idle" /\ UNCHANGED <<index, etags, trends, made>>
    BY <1>6 DEF Card!Peek
  <2>2. CASE index.says \in DOMAIN trends
    <3> DEFINE entry == trends[index.says]
               got == [etag |-> entry.etag, body |-> entry.made, crossed |-> entry.crossed]
    <3>1. held' = [held EXCEPT ![c] = got] /\ UNCHANGED asked
      BY <1>6, <2>2 DEF Card!Peek
    <3>2. entry \in Entry
      BY <2>2 DEF CardInv, CardType
    <3>3. got \in Copy /\ got.etag = entry.etag /\ got.body = entry.made /\ got.crossed = entry.crossed /\ got.etag \in Nat
      BY <3>2 DEF Entry, Copy
    <3> HIDE DEF got
    <3>4. CardType' /\ Making'
      BY <1>0, <2>1, <3>1, <3>3 DEF CardInv, CardType, Making
    <3>5. \A d \in Card!Clients : held'[d] = IF d = c THEN got ELSE held[d]
      BY <3>1 DEF CardInv, CardType
    <3>6. CardTags'
      BY <1>0, <3>5, CardsAssumption DEF CardInv, CardTags
    <3>7. TrendTags'
      BY <1>0, <2>1, <2>2, <3>3, <3>5 DEF CardInv, TrendTags
    <3> QED BY <2>1, <3>4, <3>6, <3>7 DEF CardInv, Filed, TrendTags
  <2>3. CASE index.says \notin DOMAIN trends
    <3> DEFINE r == [pc |-> "aggregate", body |-> index.says, key |-> 0, crossed |-> FALSE]
    <3>1. asked' = [asked EXCEPT ![c] = r] /\ UNCHANGED held
      BY <1>6, <2>3 DEF Card!Peek
    <3>2. r \in Request /\ r.body = index.says /\ r.key = 0
      BY DEF CardInv, CardType, Request
    <3> HIDE DEF r
    <3>3. CardType' /\ Making'
      BY <1>0, <2>1, <3>1, <3>2 DEF CardInv, CardType, Making
    <3> QED BY <2>1, <3>1, <3>3 DEF CardInv, Filed, CardTags, TrendTags
  <2> QED BY <2>2, <2>3
<1>7. ASSUME NEW c \in TrendClients, Card!Aggregate(c) PROVE CardInv'
  <2> DEFINE entry == [etag |-> made + 1, made |-> index.says, crossed |-> asked[c].crossed]
             got == [etag |-> made + 1, body |-> index.says, crossed |-> asked[c].crossed]
             under == asked[c].body
  <2>1. /\ asked[c].pc = "aggregate" /\ made' = made + 1 /\ UNCHANGED <<index, etags>>
        /\ trends' = [s \in DOMAIN trends \cup {under} |-> IF s = under THEN entry ELSE trends[s]]
        /\ held' = [held EXCEPT ![c] = got] /\ asked' = [asked EXCEPT ![c] = Card!Idle]
    BY <1>7 DEF Card!Aggregate
  <2>2. /\ asked[c] \in Request /\ (~asked[c].crossed => under = index.says) /\ made \in Nat
        /\ index.says \in Said
    BY <1>0, <2>1 DEF CardInv, CardType, Making
  <2>3. /\ entry \in Entry /\ got \in Copy /\ entry.etag = made + 1 /\ entry.made = index.says
        /\ (~entry.crossed => entry.made = under)
        /\ got.etag = entry.etag /\ got.body = entry.made /\ got.crossed = entry.crossed
    BY <2>2 DEF Entry, Copy, Request
  <2> HIDE DEF entry, got, under
  <2>4. /\ trends' \in [DOMAIN trends' -> Entry] /\ DOMAIN trends' = DOMAIN trends \cup {under}
        /\ \A s \in DOMAIN trends' : trends'[s] = IF s = under THEN entry ELSE trends[s]
    BY <2>1, <2>3 DEF CardInv, CardType
  <2>5. \A d \in Card!Clients : held'[d] = IF d = c THEN got ELSE held[d]
    BY <2>1 DEF CardInv, CardType
  <2>6. CardType' /\ Making'
    BY <1>0, <1>00, <2>1, <2>2, <2>3, <2>4 DEF CardInv, CardType, Making
  <2>7. CardTags'
    BY <1>0, <2>5, CardsAssumption DEF CardInv, CardTags
  <2>8. /\ \A s \in DOMAIN trends : trends[s].etag \in Nat /\ trends[s].etag <= made
        /\ \A d \in TrendClients : held[d].etag \in Nat /\ held[d].etag <= made
    BY DEF CardInv, CardType, TrendTags, Entry
  <2>9. \A s \in DOMAIN trends' : /\ trends'[s].etag <= made' /\ (~trends'[s].crossed => trends'[s].made = s)
    BY <2>1, <2>2, <2>3, <2>4, <2>8 DEF CardInv, TrendTags
  <2>10. \A r, s \in DOMAIN trends' : trends'[r].etag = trends'[s].etag =>
           trends'[r].made = trends'[s].made /\ trends'[r].crossed = trends'[s].crossed
    BY <2>2, <2>3, <2>4, <2>8 DEF CardInv, TrendTags
  <2>11. ASSUME NEW d \in TrendClients
         PROVE  /\ held'[d].etag \in Nat /\ held'[d].etag <= made'
                /\ \A s \in DOMAIN trends' : held'[d].etag = trends'[s].etag =>
                     held'[d].body = trends'[s].made /\ held'[d].crossed = trends'[s].crossed
    <3>1. CASE d = c
      BY <1>0, <3>1, <2>1, <2>2, <2>3, <2>4, <2>5, <2>8
    <3>2. CASE d # c
      BY <1>0, <3>2, <2>1, <2>2, <2>3, <2>4, <2>5, <2>8 DEF CardInv, TrendTags
    <3> QED BY <3>1, <3>2
  <2> QED BY <2>1, <2>6, <2>7, <2>9, <2>10, <2>11 DEF CardInv, Filed, TrendTags
<1>8. CASE UNCHANGED cardVars
  BY <1>8 DEF cardVars, CardInv, CardType, Filed, Making, CardTags, TrendTags
<1> QED BY <1>1, <1>2, <1>3, <1>4, <1>5, <1>6, <1>7, <1>8 DEF Card!Next

\* "Not modified" is only said to who has what the index says, for any clients and
\* contents and whoever writes the index: but to those whose answer was overtaken.
THEOREM NotModifiedIsTrue == Spec => []NotModifiedMeansCurrent
<1>1. CardInv => NotModifiedMeansCurrent
  <2> SUFFICES ASSUME CardInv, NEW c \in Card!Clients, Card!NotModified(c), ~held[c].crossed
               PROVE  held[c].body = index.says
    BY DEF NotModifiedMeansCurrent, Card!NotModifiedMeansCurrent
  <2>1. CASE c \in CardClients
    <3>1. held[c].etag = IF index.stamp \in DOMAIN etags THEN etags[index.stamp] ELSE index.says
      BY <2>1 DEF Card!NotModified, Card!Stamp
    <3> QED BY <2>1, <3>1 DEF CardInv, CardTags, Filed
  <2>2. CASE c \notin CardClients
    <3>1. c \in TrendClients /\ index.says \in DOMAIN trends /\ held[c].etag = trends[index.says].etag
      BY <2>2 DEF Card!NotModified, Card!Clients
    <3> QED BY <3>1 DEF CardInv, TrendTags
  <2> QED BY <2>1, <2>2
<1> QED BY CardInit, CardStep, <1>1, PTL DEF Spec

-----------------------------------------------------------------------------
(* Limits *)

\* The instants that calls nobody has overtaken may still bring.
Moments == {time} \cup {call[c].now : c \in {d \in Callers : call[d] # Limit!Idle /\ ~call[d].crossed}}

\* Which of a history's calls are in a stretch of time.
Stretch(q, low, high) == {i \in DOMAIN q : q[i] \in low..high}

\* What a bucket gains from one instant to another.
Gained(low, high) == Refill * (high - low)

\* What a bucket has and has let through is at most what it had and gained. It is full
\* again before Redis drops it.
BucketInv ==
  /\ ts # Limit!None => ts \in Nat /\ tokens \in Int /\ first <= ts /\ ts <= latest /\ latest # Limit!None
  /\ limiter.at = "memory" /\ ts = Limit!None => latest = Limit!None
  /\ limiter.at = "memory" \/ ~overtaken =>
       /\ latest # Limit!None => Len(admitted) <= Cap + Gained(first, latest)
       /\ ts # Limit!None => Len(admitted) + tokens <= Cap + Gained(first, ts)
  /\ limiter.at = "redis" /\ ~overtaken =>
       /\ latest <= used
       /\ ts # Limit!None => tokens >= 0 /\ ts = latest /\ \A h \in Moments : h >= ts
       /\ ts = Limit!None /\ latest # Limit!None => \A h \in Moments : h >= latest + Ttl

\* The window in memory holds the end of the history; what it dropped is over for good.
OwnInv ==
  /\ \A c, d \in Callers : call[c] # Limit!Idle /\ call[d] # Limit!Idle => c = d
  /\ events \in Seq(Nat) /\ Len(events) <= Len(admitted)
  /\ \A i \in 1..Len(events) : events[i] = admitted[Len(admitted) - Len(events) + i]
  /\ \A i \in 1..(Len(admitted) - Len(events)) :
       /\ admitted[i] + Window < time
       /\ \A c \in Callers : call[c] # Limit!Idle => admitted[i] + Window < call[c].now
  /\ \A s \in Nat : Cardinality(Stretch(admitted, s, s + Window)) <= MaxEvents

\* What Redis has let through and may still count is in the sorted set.
SharedInv ==
  /\ stamps \subseteq Nat /\ IsFiniteSet(stamps)
  /\ \A i, j \in DOMAIN admitted : admitted[i] = admitted[j] => i = j
  /\ \A i \in DOMAIN admitted : admitted[i] <= used
  /\ \A i \in DOMAIN admitted : \A h \in Moments :
       admitted[i] <= h /\ (admitted[i] > h - Window => admitted[i] \in stamps)
  /\ \A s \in Nat : Cardinality(Stretch(admitted, s, s + Window - 1)) <= MaxEvents

LimitType ==
  /\ limiter \in [at : {"memory", "redis"}, form : {"bucket", "window"}]
  /\ time \in Nat /\ used \in 0..time /\ overtaken \in BOOLEAN /\ admitted \in Seq(Nat)
  /\ call \in [Callers -> [now : Nat \cup {Limit!None}, crossed : BOOLEAN]]
  /\ \A c \in Callers : call[c] # Limit!Idle => call[c].now \in 0..time
  /\ IF latest = Limit!None THEN first = Limit!None /\ ts = Limit!None /\ admitted = <<>>
     ELSE first \in 0..latest /\ latest \in 0..time

LimitInv ==
  /\ LimitType
  /\ limiter.form = "bucket" => BucketInv
  /\ limiter = Limit!OwnWindow => OwnInv
  /\ limiter = Limit!SharedWindow /\ ~overtaken => SharedInv

LEMMA LimitCounts == \A S : Limit!Cardinality(S) = Cardinality(S)
BY DEF Limit!Cardinality, Limit!IsFiniteSet, Cardinality, IsFiniteSet

LEMMA LimitNumbers ==
  /\ Cap \in Nat /\ Refill \in Nat /\ Window \in Nat /\ MaxEvents \in Nat /\ Ttl \in Nat
  /\ Refill * Ttl >= Cap /\ Ttl > Window
BY LimitsAssumption

LEMMA Gains ==
  /\ \A x, y \in Int : /\ Gained(x, y) \in Int
                       /\ x <= y => Gained(x, y) >= 0
                       /\ x + Ttl <= y => Gained(x, y) >= Cap
  /\ \A x, y, z \in Int : Gained(x, z) = Gained(x, y) + Gained(y, z)
<1> SUFFICES ASSUME NEW x \in Int, NEW y \in Int, NEW z \in Int
             PROVE  /\ Gained(x, y) \in Int /\ Gained(x, z) = Gained(x, y) + Gained(y, z)
                    /\ x <= y => Gained(x, y) >= 0
                    /\ x + Ttl <= y => Gained(x, y) >= Cap
  OBVIOUS
<1>1. Refill \in Nat /\ Cap \in Nat /\ Ttl \in Nat
  BY LimitNumbers
<1>2. \A a, b \in Int : /\ Refill * a \in Int /\ Refill * (a + b) = Refill * a + Refill * b
                        /\ a >= 0 => Refill * a >= 0
  BY <1>1
<1>3. Gained(x, y) \in Int /\ Gained(x, z) = Gained(x, y) + Gained(y, z) /\ (x <= y => Gained(x, y) >= 0)
  BY <1>1 DEF Gained
<1>4. ASSUME x + Ttl <= y PROVE Gained(x, y) >= Cap
  <2> DEFINE a == y - x - Ttl
  <2>1. a \in Nat /\ y - x = Ttl + a
    BY <1>1, <1>4
  <2> HIDE DEF a
  <2>2. Refill * (Ttl + a) = Refill * Ttl + Refill * a /\ Refill * a \in Nat /\ Refill * Ttl \in Nat
    BY <1>1, <2>1
  <2>3. Gained(x, y) = Refill * Ttl + Refill * a
    BY <2>1, <2>2 DEF Gained
  <2> QED BY <1>1, <2>2, <2>3, LimitNumbers
<1> QED BY <1>3, <1>4

LEMMA StretchIsFinite ==
  ASSUME NEW q \in Seq(Nat), NEW low, NEW high
  PROVE  IsFiniteSet(Stretch(q, low, high)) /\ Cardinality(Stretch(q, low, high)) \in Nat
<1>1. IsFiniteSet(1..Len(q)) /\ Stretch(q, low, high) \subseteq 1..Len(q)
  <2>1. Len(q) \in Nat /\ DOMAIN q = 1..Len(q)
    OBVIOUS
  <2>2. IsFiniteSet(1..Len(q))
    BY <2>1, FS_Interval
  <2> QED BY <2>1, <2>2 DEF Stretch
<1> QED BY <1>1, FS_Subset, FS_CardinalityType

\* What one more call adds to a stretch.
LEMMA OneMore ==
  ASSUME NEW q \in Seq(Nat), NEW v \in Nat, NEW low, NEW high
  PROVE  /\ v \notin low..high => Stretch(Append(q, v), low, high) = Stretch(q, low, high)
         /\ Cardinality(Stretch(Append(q, v), low, high)) <= Cardinality(Stretch(q, low, high)) + 1
<1> DEFINE n == Len(q)
           r == Append(q, v)
<1>1. n \in Nat /\ DOMAIN q = 1..n /\ DOMAIN r = 1..(n + 1) /\ r[n + 1] = v /\ \A i \in 1..n : r[i] = q[i]
  OBVIOUS
<1> HIDE DEF n, r
<1>2. Stretch(r, low, high) = IF v \in low..high THEN Stretch(q, low, high) \cup {n + 1} ELSE Stretch(q, low, high)
  <2>1. \A i : i \in 1..(n + 1) <=> i \in 1..n \/ i = n + 1
    BY <1>1
  <2> QED BY <1>1, <2>1 DEF Stretch
<1>3. n + 1 \notin Stretch(q, low, high)
  BY <1>1 DEF Stretch
<1>4. IsFiniteSet(Stretch(q, low, high)) /\ Cardinality(Stretch(q, low, high)) \in Nat
  BY StretchIsFinite
<1>5. v \in low..high => Cardinality(Stretch(r, low, high)) = Cardinality(Stretch(q, low, high)) + 1
  <2> SUFFICES ASSUME v \in low..high
               PROVE  Cardinality(Stretch(q, low, high) \cup {n + 1}) = Cardinality(Stretch(q, low, high)) + 1
    BY <1>2
  <2> QED BY <1>3, <1>4, FS_AddElement
<1> QED BY <1>2, <1>4, <1>5 DEF r

LEMMA MomentsAreTimes == LimitType => Moments \subseteq 0..time /\ time \in Nat
BY DEF LimitType, Moments

\* What no moment of M comes before, nothing comes before that is not before all of M.
LEMMA NotBefore ==
  ASSUME NEW x \in Int, NEW M, NEW N, \A h \in M : h \in Int /\ h >= x,
         \A h \in N : h \in M \/ \E k \in M : h \in Int /\ h >= k
  PROVE  \A h \in N : h >= x
<1> SUFFICES ASSUME NEW h \in N PROVE h >= x
  OBVIOUS
<1>1. CASE h \in M
  BY <1>1
<1>2. ASSUME NEW k \in M, h \in Int, h >= k PROVE h >= x
  <2>1. k \in Int /\ k >= x
    OBVIOUS
  <2> QED BY <2>1, <1>2
<1> QED BY <1>1, <1>2

LEMMA LimitInit == Init => LimitInv
<1> SUFFICES ASSUME Init PROVE LimitInv
  OBVIOUS
<1> USE DEF Init, Limit!Init, Limit!Idle, Limit!None
<1>1. LimitType
  <2>1. /\ limiter \in [at : {"memory", "redis"}, form : {"bucket", "window"}]
        /\ time = 0 /\ used = 0 /\ overtaken = FALSE /\ admitted = <<>> /\ first = -1 /\ ts = -1 /\ latest = -1
        /\ \A c \in Callers : call[c] = Limit!Idle
        /\ call \in [Callers -> [now : Nat \cup {-1}, crossed : BOOLEAN]]
    OBVIOUS
  <2>2. used \in 0..time /\ time \in Nat /\ admitted \in Seq(Nat)
    BY <2>1
  <2> QED BY <2>1, <2>2 DEF LimitType
<1>2. BucketInv
  BY LimitNumbers DEF BucketInv
<1>3. \A low, high : Cardinality(Stretch(admitted, low, high)) = 0
  <2>1. admitted = <<>>
    OBVIOUS
  <2>2. \A low, high : Stretch(admitted, low, high) = {}
    BY <2>1 DEF Stretch
  <2> QED BY <2>2, FS_EmptySet
<1>4. OwnInv
  <2>1. events = <<>> /\ admitted = <<>> /\ \A c \in Callers : call[c] = Limit!Idle
    OBVIOUS
  <2> QED BY <1>3, <2>1, LimitNumbers DEF OwnInv
<1>5. SharedInv
  BY <1>3, LimitNumbers, FS_EmptySet DEF SharedInv
<1> QED BY <1>1, <1>2, <1>4, <1>5 DEF LimitInv

LEMMA LimitTick == LimitInv /\ Limit!Tick => LimitInv'
<1> SUFFICES ASSUME LimitInv, Limit!Tick PROVE LimitInv'
  OBVIOUS
<1> USE DEF Limit!Tick
<1>1. time \in Nat /\ time' = time + 1
  BY DEF LimitInv, LimitType
<1>2. LimitType'
  BY <1>1 DEF LimitInv, LimitType
<1>3. time \in Moments /\ \A h \in Moments' : h \in Moments \/ h = time + 1
  BY DEF Moments
<1>4. limiter.form = "bucket" => BucketInv'
  <2> SUFFICES ASSUME limiter.form = "bucket" PROVE BucketInv'
    OBVIOUS
  <2>1. BucketInv /\ LimitType
    BY DEF LimitInv
  <2>2. limiter.at = "redis" /\ ~overtaken =>
         /\ ts # Limit!None => \A h \in Moments' : h >= ts
         /\ ts = Limit!None /\ latest # Limit!None => \A h \in Moments' : h >= latest + Ttl
    <3>1. /\ \A h \in Moments : h \in Int
          /\ \A h \in Moments' : h \in Moments \/ \E k \in Moments : h \in Int /\ h >= k
      BY <1>1, <1>3, <2>1, MomentsAreTimes
    <3>2. ASSUME limiter.at = "redis", ~overtaken, ts # Limit!None PROVE \A h \in Moments' : h >= ts
      <4>1. ts \in Int /\ \A h \in Moments : h >= ts
        BY <2>1, <3>2 DEF BucketInv
      <4> QED BY <3>1, <4>1, NotBefore
    <3>3. ASSUME limiter.at = "redis", ~overtaken, ts = Limit!None, latest # Limit!None
          PROVE  \A h \in Moments' : h >= latest + Ttl
      <4>1. latest + Ttl \in Int /\ \A h \in Moments : h >= latest + Ttl
        BY <2>1, <3>3, LimitNumbers DEF BucketInv, LimitType
      <4> QED BY <3>1, <4>1, NotBefore
    <3> QED BY <3>2, <3>3
  <2> QED BY <1>1, <2>1, <2>2 DEF BucketInv
<1>5. limiter = Limit!OwnWindow => OwnInv'
  <2> SUFFICES ASSUME limiter = Limit!OwnWindow PROVE OwnInv'
    OBVIOUS
  <2>1. OwnInv /\ admitted \in Seq(Nat)
    BY DEF LimitInv, LimitType
  <2>2. \A i \in 1..(Len(admitted) - Len(events)) : admitted[i] + Window < time'
    <3>1. \A i \in 1..(Len(admitted) - Len(events)) : admitted[i] \in Nat
      BY <2>1 DEF OwnInv
    <3>2. \A i \in 1..(Len(admitted) - Len(events)) : admitted[i] + Window < time
      BY <2>1 DEF OwnInv
    <3> QED BY <1>1, <3>1, <3>2, LimitNumbers
  <2> QED BY <2>1, <2>2 DEF OwnInv, Stretch
<1>6. limiter = Limit!SharedWindow /\ ~overtaken => SharedInv'
  <2> SUFFICES ASSUME limiter = Limit!SharedWindow, ~overtaken PROVE SharedInv'
    OBVIOUS
  <2>1. SharedInv /\ (\A i \in DOMAIN admitted : admitted[i] \in Nat) /\ Moments \subseteq 0..time
    BY MomentsAreTimes DEF LimitInv, LimitType
  <2>2. \A i \in DOMAIN admitted : \A h \in Moments' :
          admitted[i] <= h /\ (admitted[i] > h - Window => admitted[i] \in stamps)
    <3> SUFFICES ASSUME NEW i \in DOMAIN admitted, NEW h \in Moments'
                 PROVE  admitted[i] <= h /\ (admitted[i] > h - Window => admitted[i] \in stamps)
      OBVIOUS
    <3>1. \A k \in Moments : k \in Int /\ admitted[i] <= k /\ (admitted[i] > k - Window => admitted[i] \in stamps)
      BY <2>1 DEF SharedInv
    <3>2. admitted[i] \in Nat /\ Window \in Nat
      BY <2>1, LimitNumbers
    <3>3. CASE h \in Moments
      BY <3>1, <3>3
    <3>4. CASE h = time + 1
      BY <1>1, <1>3, <3>1, <3>2, <3>4
    <3> QED BY <1>3, <3>3, <3>4
  <2> QED BY <2>1, <2>2 DEF SharedInv, Stretch
<1> QED BY <1>2, <1>4, <1>5, <1>6 DEF LimitInv

\* What only begins or ends a call.
LEMMA LimitCalls ==
  ASSUME LimitInv, UNCHANGED <<limiter, time, tokens, ts, events, stamps, used, admitted, first, latest, overtaken>>,
         call' \in [Callers -> [now : Nat \cup {Limit!None}, crossed : BOOLEAN]],
         \A c \in Callers : call'[c] # Limit!Idle => call'[c].now \in 0..time,
         Moments' \subseteq Moments, limiter = Limit!OwnWindow => OwnInv'
  PROVE  LimitInv'
<1>1. LimitType'
  BY DEF LimitInv, LimitType
<1>2. limiter.form = "bucket" => BucketInv'
  BY DEF LimitInv, BucketInv
<1>3. limiter = Limit!SharedWindow /\ ~overtaken => SharedInv'
  BY DEF LimitInv, SharedInv, Stretch
<1> QED BY <1>1, <1>2, <1>3 DEF LimitInv

LEMMA LimitCall == ASSUME NEW c \in Callers, LimitInv, Limit!Call(c) PROVE LimitInv'
<1> USE DEF Limit!Call
<1>1. LimitType /\ call[c] = Limit!Idle /\ call' = [call EXCEPT ![c].now = time]
  BY DEF LimitInv
<1>2. /\ call' \in [Callers -> [now : Nat \cup {Limit!None}, crossed : BOOLEAN]]
      /\ call'[c].now = time /\ \A d \in Callers \ {c} : call'[d] = call[d]
  <2>1. time \in Nat /\ call \in [Callers -> [now : Nat \cup {Limit!None}, crossed : BOOLEAN]]
    BY <1>1 DEF LimitType
  <2> DEFINE r == [call[c] EXCEPT !.now = time]
  <2>2. r \in [now : Nat \cup {Limit!None}, crossed : BOOLEAN] /\ r.now = time
    BY <2>1
  <2>3. call' = [call EXCEPT ![c] = r]
    BY <1>1
  <2> HIDE DEF r
  <2> QED BY <2>1, <2>2, <2>3
<1>3. /\ \A d \in Callers : call'[d] # Limit!Idle => call'[d].now \in 0..time
      /\ Moments' \subseteq Moments
  <2>1. time \in 0..time
    BY <1>1 DEF LimitType
  <2>2. \A d \in Callers : d = c \/ call'[d] = call[d]
    BY <1>2
  <2> QED BY <1>1, <1>2, <2>1, <2>2 DEF Moments, LimitType
<1>4. limiter = Limit!OwnWindow => OwnInv'
  <2> SUFFICES ASSUME limiter = Limit!OwnWindow PROVE OwnInv'
    OBVIOUS
  <2>1. OwnInv /\ \A d \in Callers : call[d] = Limit!Idle
    BY DEF LimitInv
  <2>2. \A d \in Callers : call'[d] # Limit!Idle => d = c /\ call'[d].now = time
    BY <1>2, <2>1
  <2> QED BY <2>1, <2>2 DEF OwnInv, Stretch
<1> QED BY <1>2, <1>3, <1>4, LimitCalls

LEMMA LimitFail == ASSUME NEW c \in Callers, LimitInv, Limit!Fail(c) PROVE LimitInv'
<1> USE DEF Limit!Fail
<1>1. LimitType /\ call' = [call EXCEPT ![c] = Limit!Idle]
  BY DEF LimitInv
<1>2. /\ call' \in [Callers -> [now : Nat \cup {Limit!None}, crossed : BOOLEAN]]
      /\ \A d \in Callers : call'[d] # Limit!Idle => call'[d] = call[d]
  BY <1>1 DEF LimitType, Limit!Idle
<1>3. /\ \A d \in Callers : call'[d] # Limit!Idle => call'[d].now \in 0..time
      /\ Moments' \subseteq Moments
  BY <1>1, <1>2 DEF Moments, LimitType
<1>4. limiter # Limit!OwnWindow
  BY DEF Limit!OwnWindow
<1> QED BY <1>2, <1>3, <1>4, LimitCalls

\* Once the limiter has moved, only calls to come are not overtaken.
LEMMA OnlyNow ==
  ASSUME LimitType, time' = time, \A d \in Callers : call'[d] # Limit!Idle => call'[d].crossed
  PROVE  Moments' = {time}
BY DEF Moments

LEMMA LimitExpire == ASSUME LimitInv, Limit!Expire PROVE LimitInv'
<1> USE DEF Limit!Expire
<1>1. LimitType /\ limiter.at = "redis" /\ time >= used + Ttl /\ ts' = Limit!None /\ stamps' = {}
      /\ UNCHANGED <<limiter, time, events, used, admitted, first, latest, overtaken>>
  BY DEF LimitInv
<1>2. /\ call' \in [Callers -> [now : Nat \cup {Limit!None}, crossed : BOOLEAN]]
      /\ \A d \in Callers : call'[d] # Limit!Idle => call[d] # Limit!Idle /\ call'[d].now = call[d].now /\ call'[d].crossed
  <2>1. call' = [c \in Callers |-> IF call[c] = Limit!Idle THEN Limit!Idle ELSE [call[c] EXCEPT !.crossed = TRUE]]
    OBVIOUS
  <2>2. \A c \in Callers : call[c] \in [now : Nat \cup {Limit!None}, crossed : BOOLEAN]
    BY <1>1 DEF LimitType
  <2>3. ASSUME NEW c \in Callers
        PROVE  /\ call'[c] \in [now : Nat \cup {Limit!None}, crossed : BOOLEAN]
               /\ call'[c] # Limit!Idle => call[c] # Limit!Idle /\ call'[c].now = call[c].now /\ call'[c].crossed
    <3>1. call'[c] = IF call[c] = Limit!Idle THEN Limit!Idle ELSE [call[c] EXCEPT !.crossed = TRUE]
      BY <2>1
    <3>2. call[c] \in [now : Nat \cup {Limit!None}, crossed : BOOLEAN]
      BY <2>2
    <3>3. /\ [call[c] EXCEPT !.crossed = TRUE].now = call[c].now /\ [call[c] EXCEPT !.crossed = TRUE].crossed
          /\ [call[c] EXCEPT !.crossed = TRUE] \in [now : Nat \cup {Limit!None}, crossed : BOOLEAN]
      BY <3>2
    <3> QED BY <3>1, <3>2, <3>3
  <2>4. DOMAIN call' = Callers /\ call' = [c \in Callers |-> call'[c]]
    BY <2>1
  <2> QED BY <2>3, <2>4
<1>3. Moments' = {time}
  BY <1>1, <1>2, OnlyNow
<1>4. LimitType'
  BY <1>1, <1>2 DEF LimitType
<1>5. time \in Nat /\ used \in Nat /\ (latest # Limit!None => latest \in Nat)
  BY <1>1 DEF LimitType
<1>6. limiter.form = "bucket" => BucketInv'
  <2> SUFFICES ASSUME limiter.form = "bucket" PROVE BucketInv'
    OBVIOUS
  <2>1. BucketInv
    BY DEF LimitInv
  <2>2. ~overtaken /\ latest # Limit!None => latest + Ttl <= time
    BY <1>1, <1>5, <2>1, LimitNumbers DEF BucketInv
  <2> QED BY <1>1, <1>3, <1>5, <2>1, <2>2 DEF BucketInv
<1>7. limiter = Limit!SharedWindow /\ ~overtaken => SharedInv'
  <2> SUFFICES ASSUME limiter = Limit!SharedWindow, ~overtaken PROVE SharedInv'
    OBVIOUS
  <2>1. SharedInv /\ \A i \in DOMAIN admitted : admitted[i] \in Nat
    BY DEF LimitInv, LimitType
  <2>2. \A i \in DOMAIN admitted : admitted[i] <= time /\ ~(admitted[i] > time - Window)
    <3> SUFFICES ASSUME NEW i \in DOMAIN admitted PROVE admitted[i] <= time /\ ~(admitted[i] > time - Window)
      OBVIOUS
    <3>1. admitted[i] \in Nat /\ admitted[i] <= used
      BY <2>1 DEF SharedInv
    <3> QED BY <1>1, <1>5, <3>1, LimitNumbers
  <2>3. IsFiniteSet({})
    BY FS_EmptySet
  <2> QED BY <1>1, <1>3, <2>1, <2>2, <2>3 DEF SharedInv, Stretch
<1>8. limiter # Limit!OwnWindow
  BY <1>1 DEF Limit!OwnWindow
<1> QED BY <1>1, <1>4, <1>6, <1>7, <1>8 DEF LimitInv

\* The limiter's turn: the call it takes, and the calls it leaves.
LEMMA LimitDone ==
  ASSUME NEW c \in Callers, NEW answered \in BOOLEAN, LimitInv, Limit!Allow(c, answered)
  PROVE  /\ call[c].now \in 0..time /\ time \in Nat /\ (~call[c].crossed => call[c].now \in Moments)
         /\ call' \in [Callers -> [now : Nat \cup {Limit!None}, crossed : BOOLEAN]]
         /\ \A d \in Callers : call'[d] # Limit!Idle =>
              call[d] # Limit!Idle /\ d # c /\ call'[d].now = call[d].now /\ call'[d].crossed
         /\ Moments' = {time}
<1>1. /\ LimitType /\ call[c] # Limit!Idle /\ call' = Limit!Done(c) /\ UNCHANGED time
  BY DEF LimitInv, Limit!Allow
<1>2. call[c].now \in 0..time /\ time \in Nat /\ (~call[c].crossed => call[c].now \in Moments)
  BY <1>1 DEF LimitType, Moments
<1>3. ASSUME NEW d \in Callers
      PROVE  /\ call'[d] \in [now : Nat \cup {Limit!None}, crossed : BOOLEAN]
             /\ call'[d] # Limit!Idle => call[d] # Limit!Idle /\ d # c /\ call'[d].now = call[d].now /\ call'[d].crossed
  <2>1. call'[d] = IF d = c \/ call[d] = Limit!Idle THEN Limit!Idle ELSE [call[d] EXCEPT !.crossed = TRUE]
    BY <1>1 DEF Limit!Done
  <2>2. call[d] \in [now : Nat \cup {Limit!None}, crossed : BOOLEAN]
    BY <1>1 DEF LimitType
  <2>3. /\ [call[d] EXCEPT !.crossed = TRUE].now = call[d].now /\ [call[d] EXCEPT !.crossed = TRUE].crossed
        /\ [call[d] EXCEPT !.crossed = TRUE] \in [now : Nat \cup {Limit!None}, crossed : BOOLEAN]
    BY <2>2
  <2>4. Limit!Idle \in [now : Nat \cup {Limit!None}, crossed : BOOLEAN]
    BY DEF Limit!Idle
  <2> QED BY <2>1, <2>2, <2>3, <2>4
<1>4. call' = [d \in Callers |-> call'[d]]
  BY <1>1 DEF Limit!Done
<1>5. call' \in [Callers -> [now : Nat \cup {Limit!None}, crossed : BOOLEAN]]
  BY <1>3, <1>4
<1>6. Moments' = {time}
  BY <1>1, <1>3, OnlyNow
<1> QED BY <1>2, <1>3, <1>5, <1>6

\* What it makes of the history.
LEMMA LimitHistory ==
  ASSUME NEW c \in Callers, NEW answered \in BOOLEAN, LimitInv, Limit!Allow(c, answered)
  PROVE  /\ LimitType' /\ latest' # Limit!None
         /\ admitted' \in {<<>>, admitted, Append(admitted, call[c].now)}
         /\ admitted' = <<>> => admitted = <<>> \/ (limiter.at = "redis" /\ overtaken')
         /\ admitted' = Append(admitted, call[c].now) =>
              /\ Limit!Allowed(call[c].now)
              /\ limiter = Limit!SharedWindow => ~Limit!Contains(admitted, call[c].now)
<1> DEFINE now == call[c].now
<1>1. LimitType /\ now \in 0..time /\ time \in Nat
  BY LimitDone DEF LimitInv
<1>2. /\ first' = IF first = Limit!None \/ now < first THEN now ELSE first
      /\ latest' = IF now > latest THEN now ELSE latest
      /\ used' = (IF limiter.form = "bucket" \/ Limit!Allowed(now) THEN time ELSE used)
      /\ overtaken' = (overtaken \/ call[c].crossed)
      /\ admitted' = IF limiter.at = "redis" /\ overtaken' THEN <<>>
                     ELSE IF Limit!Allowed(now) /\ answered /\ (limiter = Limit!SharedWindow => ~Limit!Contains(admitted, now))
                     THEN Append(admitted, now) ELSE admitted
      /\ UNCHANGED <<limiter, time>> /\ (ts' = ts \/ ts' = now)
  BY DEF Limit!Allow
<1>3. overtaken' \in BOOLEAN
  BY <1>1, <1>2, LimitDone DEF LimitType
<1>4. latest' \in 0..time /\ first' \in 0..latest' /\ latest' # Limit!None /\ used' \in 0..time
  BY <1>1, <1>2 DEF LimitType, Limit!None
<1>5. admitted' \in Seq(Nat)
  BY <1>1, <1>2 DEF LimitType
<1>6. /\ call' \in [Callers -> [now : Nat \cup {Limit!None}, crossed : BOOLEAN]]
      /\ \A d \in Callers : call'[d] # Limit!Idle => call'[d].now \in 0..time
  BY <1>1, LimitDone DEF LimitType
<1>7. LimitType'
  BY <1>1, <1>2, <1>3, <1>4, <1>5, <1>6 DEF LimitType
<1>8. Append(admitted, now) # <<>> /\ Append(admitted, now) # admitted
  <2>1. admitted \in Seq(Nat) /\ Len(Append(admitted, now)) = Len(admitted) + 1 /\ Len(admitted) \in Nat
    BY <1>1 DEF LimitType
  <2> QED BY <2>1
<1> QED BY <1>2, <1>4, <1>7, <1>8

LEMMA BucketTurn ==
  ASSUME NEW c \in Callers, NEW answered \in BOOLEAN, LimitInv, Limit!Allow(c, answered), limiter.form = "bucket"
  PROVE  BucketInv'
<1> DEFINE now == call[c].now
           n == Len(admitted)
           full == Limit!Filled(now)
<1>1. /\ LimitType /\ BucketInv /\ LimitType' /\ now \in 0..time /\ time \in Nat /\ admitted \in Seq(Nat)
      /\ limiter' = limiter /\ time' = time
  BY LimitDone, LimitHistory DEF LimitInv, LimitType, Limit!Allow
<1>2. /\ ts' = now /\ tokens' = (IF full >= 1 THEN full - 1 ELSE full) /\ used' = time
      /\ first' = IF first = Limit!None \/ now < first THEN now ELSE first
      /\ latest' = IF now > latest THEN now ELSE latest
      /\ overtaken' = (overtaken \/ call[c].crossed)
  <2>1. Limit!Allowed(now) <=> full >= 1
    BY DEF Limit!Allowed, Limit!OwnWindow, Limit!SharedWindow
  <2> QED BY <2>1 DEF Limit!Allow
<1>3. /\ n \in Nat /\ Len(admitted') \in Nat
      /\ limiter.at = "memory" \/ ~overtaken' => Len(admitted') <= n + (IF full >= 1 THEN 1 ELSE 0)
  <2>1. n \in Nat /\ Len(Append(admitted, now)) = n + 1 /\ Len(<<>>) = 0
    BY <1>1
  <2>2. admitted' = Append(admitted, now) => full >= 1
    BY LimitHistory DEF Limit!Allowed, Limit!OwnWindow, Limit!SharedWindow
  <2>3. admitted' \in {<<>>, admitted, Append(admitted, now)}
    BY LimitHistory
  <2> QED BY <2>1, <2>2, <2>3
<1>4. /\ latest \in Int /\ first \in Int /\ (latest # Limit!None => latest \in Nat /\ first \in Nat /\ first <= latest)
      /\ (latest = Limit!None => first = Limit!None /\ ts = Limit!None /\ n = 0)
      /\ Limit!None = -1
  BY <1>1 DEF LimitType, Limit!None
<1>5. /\ latest' \in Nat /\ first' \in Nat /\ first' <= now /\ now <= latest'
      /\ latest # Limit!None => first' <= first /\ latest <= latest'
  BY <1>1, <1>2, <1>4
<1>6. full \in Int
  <2>1. ts # Limit!None => ts \in Nat /\ tokens \in Int
    BY <1>1 DEF BucketInv
  <2>2. ts # Limit!None => Limit!Elapsed(now) \in Int
    BY <1>1, <2>1 DEF Limit!Elapsed
  <2>3. ts # Limit!None => Limit!Elapsed(now) * Refill \in Int
    BY <2>2, LimitNumbers
  <2> QED BY <2>1, <2>3, LimitNumbers DEF Limit!Filled, Limit!Least
<1>7. tokens' \in Int
  BY <1>2, <1>6
<1>8. ASSUME limiter.at = "redis", ~overtaken'
      PROVE  /\ ts # Limit!None => tokens >= 0 /\ ts = latest /\ now >= ts
             /\ ts = Limit!None /\ latest # Limit!None => now >= latest + Ttl
  <2>1. ~overtaken /\ now \in Moments
    BY <1>1, <1>2, <1>8, LimitDone DEF LimitType
  <2> QED BY <1>1, <1>8, <2>1 DEF BucketInv
<1>9. limiter.at = "memory" \/ ~overtaken' => limiter.at = "memory" \/ ~overtaken
  BY <1>1, <1>2 DEF LimitType
<1>10. /\ ts = Limit!None => full = Cap
       /\ ts # Limit!None /\ (limiter.at = "memory" \/ ~overtaken') => full = Limit!Least(Cap, tokens + Gained(ts, now))
  <2>1. limiter.at \in {"memory", "redis"}
    BY <1>1 DEF LimitType
  <2>2. ASSUME ts # Limit!None, limiter.at = "memory" \/ ~overtaken' PROVE Limit!Elapsed(now) = now - ts
    <3>1. limiter.at = "redis" => ~(now < ts)
      BY <1>1, <1>8, <2>2, <2>1 DEF BucketInv
    <3> QED BY <3>1 DEF Limit!Elapsed
  <2>3. ts # Limit!None => (now - ts) * Refill = Gained(ts, now)
    BY <1>1, LimitNumbers DEF Gained, BucketInv
  <2>4. ts = Limit!None => full = Cap
    BY DEF Limit!Filled
  <2>5. ts # Limit!None => full = Limit!Least(Cap, tokens + Limit!Elapsed(now) * Refill)
    BY DEF Limit!Filled
  <2> QED BY <2>2, <2>3, <2>4, <2>5
<1>11. ts # Limit!None => ts \in Nat /\ tokens \in Int /\ first <= ts
  BY <1>1 DEF BucketInv
<1>12. now \in Nat
  BY <1>1
<1> HIDE DEF now, n, full
<1>13. /\ now \in Int /\ first \in Int /\ latest \in Int /\ first' \in Int /\ latest' \in Int
       /\ first' <= now /\ now <= latest'
  BY <1>4, <1>5, <1>12
\* What there is to give and what was given, before anything is given.
<1>14. ASSUME limiter.at = "memory" \/ ~overtaken'
       PROVE  /\ n + full <= Cap + Gained(first', now)
              /\ limiter.at = "redis" => full >= 0
  <2>1. limiter.at \in {"memory", "redis"} /\ 0 <= Gained(first', now) /\ Gained(first', now) \in Int /\ Cap \in Nat
    <3>1. Gained(first', now) \in Int /\ Gained(first', now) >= 0
      BY <1>13, Gains
    <3> QED BY <1>1, <3>1, LimitNumbers DEF LimitType
  <2>2. CASE latest = Limit!None
    BY <1>3, <1>4, <1>10, <2>1, <2>2
  <2>3. CASE latest # Limit!None /\ ts = Limit!None
    <3>1. limiter.at = "redis" /\ ~overtaken' /\ now >= latest + Ttl
      BY <1>1, <1>8, <1>14, <2>1, <2>3 DEF BucketInv
    <3>2. n <= Cap + Gained(first, latest)
      BY <1>1, <1>9, <2>3, <3>1 DEF BucketInv, n
    <3>3. /\ Gained(first', now) = Gained(first', first) + Gained(first, now)
          /\ Gained(first, now) = Gained(first, latest) + Gained(latest, now)
          /\ Gained(first', first) \in Int /\ Gained(first, latest) \in Int /\ Gained(latest, now) \in Int
      BY <1>13, Gains
    <3>4. Gained(first', first) >= 0 /\ Gained(latest, now) >= Cap
      BY <1>4, <1>5, <1>12, <2>3, <3>1, Gains
    <3> QED BY <1>3, <1>10, <2>1, <2>3, <3>2, <3>3, <3>4
  <2>4. CASE latest # Limit!None /\ ts # Limit!None
    <3>1. n + tokens <= Cap + Gained(first, ts)
      BY <1>1, <1>9, <1>14, <2>4 DEF BucketInv, n
    <3>2. /\ Gained(first', now) = Gained(first', first) + Gained(first, now)
          /\ Gained(first, now) = Gained(first, ts) + Gained(ts, now)
          /\ Gained(first', first) \in Int /\ Gained(first, ts) \in Int /\ Gained(ts, now) \in Int
      <4>1. ts \in Int
        BY <1>11, <2>4
      <4>2. Gained(first', now) = Gained(first', first) + Gained(first, now)
        BY <1>13, Gains
      <4>3. Gained(first, now) = Gained(first, ts) + Gained(ts, now)
        BY <1>13, <4>1, Gains
      <4> QED BY <1>13, <4>1, <4>2, <4>3, Gains
    <3>3. full = Limit!Least(Cap, tokens + Gained(ts, now)) /\ full <= tokens + Gained(ts, now)
      BY <1>10, <1>11, <1>14, <2>1, <2>4, <3>2 DEF Limit!Least
    <3>4. Gained(first', first) >= 0
      BY <1>4, <1>5, <2>4, Gains
    <3>5. ASSUME limiter.at = "redis" PROVE full >= 0
      <4>1. tokens >= 0 /\ now >= ts
        BY <1>8, <1>14, <2>4, <3>5
      <4>2. 0 <= Gained(ts, now)
        BY <1>11, <1>12, <2>4, <4>1, Gains
      <4> QED BY <1>11, <2>1, <2>4, <3>2, <3>3, <4>1, <4>2 DEF Limit!Least
    <3>6. n + full <= Cap + Gained(first', now)
      <4>1. n \in Int /\ tokens \in Int /\ full \in Int /\ Cap \in Int
        BY <1>3, <1>6, <1>11, <2>1, <2>4
      <4> QED BY <2>1, <3>1, <3>2, <3>3, <3>4, <4>1
    <3> QED BY <3>5, <3>6
  <2> QED BY <2>2, <2>3, <2>4
<1>15. ASSUME limiter.at = "memory" \/ ~overtaken'
       PROVE  /\ Len(admitted') + tokens' <= Cap + Gained(first', now)
              /\ Len(admitted') <= Cap + Gained(first', latest')
  <2>1. /\ Gained(first', latest') = Gained(first', now) + Gained(now, latest')
        /\ Gained(first', now) \in Int /\ Gained(now, latest') \in Int /\ Gained(first', latest') \in Int
        /\ Gained(first', now) >= 0 /\ Gained(now, latest') >= 0 /\ Cap \in Nat
    <3>1. Cap \in Nat
      BY LimitNumbers
    <3> QED BY <1>13, <3>1, Gains
  <2>2. Len(admitted') + tokens' <= Cap + Gained(first', now)
    BY <1>2, <1>3, <1>6, <1>14, <1>15, <2>1
  <2>3. CASE full >= 1
    <3>1. tokens' >= 0
      BY <1>2, <1>6, <2>3
    <3> QED BY <1>3, <1>7, <2>1, <2>2, <3>1
  <2>4. CASE ~(full >= 1) /\ latest = Limit!None
    BY <1>3, <1>4, <1>15, <2>1, <2>2, <2>4
  <2>5. CASE ~(full >= 1) /\ latest # Limit!None
    <3>1. n <= Cap + Gained(first, latest)
      BY <1>1, <1>9, <1>15, <2>5 DEF BucketInv, n
    <3>2. /\ Gained(first', latest') = Gained(first', first) + Gained(first, latest')
          /\ Gained(first, latest') = Gained(first, latest) + Gained(latest, latest')
          /\ Gained(first', first) \in Int /\ Gained(first, latest) \in Int /\ Gained(latest, latest') \in Int
          /\ Gained(first', first) >= 0 /\ Gained(latest, latest') >= 0
      <4>1. first' <= first /\ latest <= latest'
        BY <1>5, <2>5
      <4> QED BY <1>13, <4>1, Gains
    <3> QED BY <1>3, <1>15, <2>1, <2>2, <2>5, <3>1, <3>2
  <2> QED BY <2>2, <2>3, <2>4, <2>5
<1>16. ASSUME limiter.at = "redis", ~overtaken'
       PROVE  latest' <= used' /\ tokens' >= 0 /\ now = latest' /\ now <= time
  <2>1. full >= 0
    BY <1>14, <1>16
  <2>2. ~(latest > now)
    BY <1>4, <1>8, <1>12, <1>16, LimitNumbers
  <2>3. now <= time
    BY <1>1 DEF now
  <2>4. latest' = now
    BY <1>2, <1>4, <1>12, <2>2
  <2>5. tokens' >= 0
    BY <1>2, <1>6, <2>1
  <2> QED BY <1>2, <2>3, <2>4, <2>5
<1>17. Moments' = {time} /\ ts' # Limit!None /\ latest' # Limit!None
  BY <1>1, <1>2, <1>4, <1>5, <1>12, LimitDone DEF Limit!None
<1>18. first' <= ts' /\ ts' <= latest' /\ ts' \in Nat /\ tokens' \in Int
  BY <1>2, <1>5, <1>7, <1>12
<1>19. limiter.at = "redis" /\ ~overtaken' => latest' <= used' /\ tokens' >= 0 /\ ts' = latest' /\ \A h \in Moments' : h >= ts'
  BY <1>1, <1>2, <1>16, <1>17
<1>20. limiter.at = "memory" \/ ~overtaken' => Len(admitted') <= Cap + Gained(first', latest') /\ Len(admitted') + tokens' <= Cap + Gained(first', ts')
  BY <1>2, <1>15
<1> QED BY <1>1, <1>17, <1>18, <1>19, <1>20 DEF BucketInv

LEMMA LeastOne == ASSUME NEW S, S \subseteq Nat, S # {} PROVE \E i \in S : \A j \in S : i <= j
<1>1. PICK i \in S : \A j \in S : ~(<<j, i>> \in OpToRel(<, Nat))
  BY NatLessThanWellFounded, WFMin
<1>2. \A j \in S : ~(j < i)
  BY <1>1 DEF OpToRel
<1> QED BY <1>2

\* What is left of the window in memory is its end, and what is dropped is before the window.
LEMMA WhatIsLeft ==
  ASSUME NEW now \in Nat, events \in Seq(Nat)
  PROVE  \E k \in 0..Len(events) :
           /\ Limit!Unexpired(now) \in Seq(Nat) /\ Len(Limit!Unexpired(now)) = Len(events) - k
           /\ \A i \in 1..(Len(events) - k) : Limit!Unexpired(now)[i] = events[i + k]
           /\ \A i \in 1..k : events[i] + Window < now
<1> DEFINE n == Len(events)
           young == {i \in DOMAIN events : events[i] >= now - Window}
           least == CHOOSE i \in young : \A j \in young : i <= j
<1>1. /\ n \in Nat /\ DOMAIN events = 1..n /\ (\A i \in 1..n : events[i] \in Nat) /\ <<>> \in Seq(Nat) /\ Len(<<>>) = 0
      /\ Window \in Nat
  BY LimitNumbers
<1>2. Limit!Unexpired(now) = IF young = {} THEN <<>> ELSE SubSeq(events, least, n)
  BY DEF Limit!Unexpired
<1>3. \A i \in 1..n : i \notin young => events[i] + Window < now
  BY <1>1
<1>4. CASE young = {}
  <2>1. Limit!Unexpired(now) = <<>> /\ \A i \in 1..n : events[i] + Window < now
    BY <1>2, <1>3, <1>4
  <2>2. n \in 0..n /\ n - n = 0 /\ 1..0 = {}
    BY <1>1
  <2> HIDE DEF young, least
  <2> QED BY <1>1, <2>1, <2>2
<1>5. CASE young # {}
  <2>1. young \subseteq Nat
    BY <1>1
  <2> HIDE DEF n, young
  <2>2. least \in young /\ \A j \in young : least <= j
    BY <1>5, <2>1, LeastOne
  <2>3. least \in 1..n
    BY <1>1, <2>2 DEF young
  <2> HIDE DEF least
  <2>4. \A i \in least..n : events[i] \in Nat
    BY <1>1, <2>3
  <2>5. /\ SubSeq(events, least, n) \in Seq(Nat) /\ Len(SubSeq(events, least, n)) = n - least + 1
        /\ \A i \in 1..(n - least + 1) : SubSeq(events, least, n)[i] = events[least + i - 1]
    <3>1. least \in Int /\ n \in Int /\ least <= n
      BY <1>1, <2>3
    <3> QED BY <2>4, <3>1, SubSeqProperties
  <2> DEFINE k == least - 1
  <2>6. /\ k \in 0..n /\ n - least + 1 = n - k /\ k \in Int /\ 1..k \subseteq 1..n
        /\ \A i \in 1..(n - k) : least + i - 1 = i + k
    BY <1>1, <2>3
  <2>7. \A i \in 1..k : i \notin young
    BY <2>2, <2>3
  <2> HIDE DEF k
  <2>8. \A i \in 1..k : events[i] + Window < now
    BY <1>3, <2>6, <2>7
  <2>9. Limit!Unexpired(now) = SubSeq(events, least, n)
    BY <1>2, <1>5
  <2> QED BY <2>5, <2>6, <2>8, <2>9 DEF n
<1> QED BY <1>4, <1>5

LEMMA OwnTurn ==
  ASSUME NEW c \in Callers, NEW answered \in BOOLEAN, LimitInv, Limit!Allow(c, answered), limiter = Limit!OwnWindow
  PROVE  OwnInv'
<1> DEFINE now == call[c].now
           n == Len(events)
           p == Len(admitted)
           d == p - n
           left == Limit!Unexpired(now)
           allowed == Limit!Allowed(now)
<1>1. /\ OwnInv /\ admitted \in Seq(Nat) /\ now \in 0..time /\ time' = time /\ time \in Nat /\ call[c] # Limit!Idle
      /\ \A e \in Callers : call'[e] # Limit!Idle => call[e] # Limit!Idle /\ e # c
  BY LimitDone DEF LimitInv, LimitType, Limit!Allow
<1>2. \A e \in Callers : call'[e] = Limit!Idle
  BY <1>1 DEF OwnInv
<1>3. /\ events' = (IF allowed THEN Append(left, now) ELSE left)
      /\ admitted' = (IF allowed THEN Append(admitted, now) ELSE admitted)
      /\ allowed => Len(left) < MaxEvents
  <2>1. limiter.at = "memory" /\ limiter.form = "window" /\ limiter # Limit!SharedWindow
    BY DEF Limit!OwnWindow, Limit!SharedWindow
  <2> QED BY <2>1 DEF Limit!Allow, Limit!Allowed
<1>4. n \in Nat /\ p \in Nat /\ d \in Nat /\ d + n = p
  BY <1>1 DEF OwnInv
<1>5. /\ \A i \in 1..p : admitted[i] \in Nat
      /\ \A i \in 1..n : events[i] = admitted[d + i]
      /\ \A i \in 1..d : admitted[i] + Window < now
  BY <1>1 DEF OwnInv
<1>6. PICK k \in 0..n : /\ left \in Seq(Nat) /\ Len(left) = n - k
                        /\ \A i \in 1..(n - k) : left[i] = events[i + k]
                        /\ \A i \in 1..k : events[i] + Window < now
  <2>1. now \in Nat /\ events \in Seq(Nat)
    BY <1>1 DEF OwnInv
  <2> QED BY <2>1, WhatIsLeft
<1>7. /\ Append(left, now) \in Seq(Nat) /\ Len(Append(left, now)) = (n - k) + 1
      /\ \A i \in 1..(n - k) : Append(left, now)[i] = left[i]
      /\ Append(left, now)[(n - k) + 1] = now
      /\ Append(admitted, now) \in Seq(Nat) /\ Len(Append(admitted, now)) = p + 1
      /\ \A i \in 1..p : Append(admitted, now)[i] = admitted[i]
      /\ Append(admitted, now)[p + 1] = now
  <2>1. now \in Nat
    BY <1>1
  <2> QED BY <1>1, <1>6, <2>1, AppendProperties
<1> DEFINE longerLeft == Append(left, now)
           longer == Append(admitted, now)
<1>8. now \in Nat /\ Window \in Nat /\ MaxEvents \in Nat /\ now <= time
  BY <1>1, LimitNumbers
<1> HIDE DEF now, n, p, d, left, allowed, longerLeft, longer
<1>9. \A i \in 1..(d + k) : i \in 1..p /\ admitted[i] + Window < now
  <2> SUFFICES ASSUME NEW i \in 1..(d + k) PROVE i \in 1..p /\ admitted[i] + Window < now
    OBVIOUS
  <2>1. CASE i \in 1..d
    BY <1>4, <1>5, <2>1
  <2>2. CASE i \notin 1..d
    <3>1. i - d \in 1..k /\ i - d \in 1..n /\ d + (i - d) = i /\ i \in 1..p
      BY <1>4, <2>2
    <3>2. events[i - d] = admitted[d + (i - d)] /\ events[i - d] + Window < now
      BY <1>5, <1>6, <3>1
    <3> QED BY <3>1, <3>2
  <2> QED BY <2>1, <2>2
<1>10. \A i \in 1..(n - k) : i + k \in 1..n /\ i + (d + k) = d + (i + k) /\ left[i] = admitted[(d + k) + i]
  BY <1>4, <1>5, <1>6
<1>11. /\ events' \in Seq(Nat) /\ Len(admitted') - Len(events') = d + k /\ Len(events') <= Len(admitted')
       /\ \A i \in 1..Len(events') : events'[i] = admitted'[(d + k) + i]
       /\ \A i \in 1..(d + k) : admitted'[i] = admitted[i]
  <2>1. CASE allowed
    <3>1. events' = longerLeft /\ admitted' = longer
      BY <1>3, <2>1 DEF longerLeft, longer
    <3>2. /\ longerLeft \in Seq(Nat) /\ Len(longerLeft) = (n - k) + 1 /\ Len(longer) = p + 1
          /\ (\A i \in 1..(n - k) : longerLeft[i] = left[i]) /\ longerLeft[(n - k) + 1] = now
          /\ (\A i \in 1..p : longer[i] = admitted[i]) /\ longer[p + 1] = now
      BY <1>7 DEF longerLeft, longer
    <3>3. ASSUME NEW i \in 1..((n - k) + 1) PROVE longerLeft[i] = longer[(d + k) + i]
      <4>1. CASE i \in 1..(n - k)
        <5>1. (d + k) + i \in 1..p
          BY <1>4, <4>1
        <5> QED BY <1>10, <3>2, <4>1, <5>1
      <4>2. CASE i = (n - k) + 1
        <5>1. (d + k) + i = p + 1
          BY <1>4, <4>2
        <5> QED BY <3>2, <4>2, <5>1
      <4> QED BY <1>4, <4>1, <4>2
    <3>4. (p + 1) - ((n - k) + 1) = d + k /\ (n - k) + 1 <= p + 1
      BY <1>4
    <3> QED BY <1>9, <3>1, <3>2, <3>3, <3>4
  <2>2. CASE ~allowed
    <3>1. events' = left /\ admitted' = admitted /\ Len(admitted) = p
      BY <1>3, <2>2 DEF p
    <3>2. p - (n - k) = d + k /\ n - k <= p
      BY <1>4
    <3> QED BY <1>6, <1>10, <3>1, <3>2
  <2> QED BY <2>1, <2>2
<1>12. \A i \in 1..(d + k) : admitted'[i] + Window < time'
  <2> SUFFICES ASSUME NEW i \in 1..(d + k) PROVE admitted'[i] + Window < time'
    OBVIOUS
  <2>1. admitted[i] \in Nat /\ admitted[i] + Window < now /\ admitted'[i] = admitted[i]
    BY <1>5, <1>9, <1>11
  <2> QED BY <1>1, <1>8, <2>1
<1>13. \A s \in Nat : Cardinality(Stretch(admitted', s, s + Window)) <= MaxEvents
  <2> SUFFICES ASSUME NEW s \in Nat PROVE Cardinality(Stretch(admitted', s, s + Window)) <= MaxEvents
    OBVIOUS
  <2>1. /\ Cardinality(Stretch(admitted, s, s + Window)) <= MaxEvents
        /\ Cardinality(Stretch(admitted, s, s + Window)) \in Nat
    BY <1>1, StretchIsFinite DEF OwnInv
  <2>2. CASE ~allowed
    BY <1>3, <2>1, <2>2
  <2>3. CASE allowed /\ now \notin s..(s + Window)
    <3>1. Stretch(Append(admitted, now), s, s + Window) = Stretch(admitted, s, s + Window)
      BY <1>1, <1>8, <2>3, OneMore
    <3> QED BY <1>3, <2>1, <2>3, <3>1
  <2>4. CASE allowed /\ now \in s..(s + Window)
    <3>1. Stretch(admitted, s, s + Window) \subseteq (d + k + 1)..p
      <4> SUFFICES ASSUME NEW i \in Stretch(admitted, s, s + Window) PROVE i \in (d + k + 1)..p
        OBVIOUS
      <4>1. i \in 1..p /\ admitted[i] \in s..(s + Window)
        <5>1. DOMAIN admitted = 1..p
          BY <1>1 DEF p
        <5> QED BY <5>1 DEF Stretch
      <4>2. i \notin 1..(d + k)
        <5> SUFFICES ASSUME i \in 1..(d + k) PROVE FALSE
          OBVIOUS
        <5>1. admitted[i] \in Nat /\ admitted[i] + Window < now
          BY <1>5, <1>9, <4>1
        <5> QED BY <1>8, <2>4, <4>1, <5>1
      <4> QED BY <1>4, <4>1, <4>2
    <3>2. IsFiniteSet((d + k + 1)..p) /\ Cardinality((d + k + 1)..p) <= n - k /\ Cardinality((d + k + 1)..p) \in Nat
      <4> DEFINE a == d + k + 1
      <4>1. a \in Int /\ p \in Int /\ p - a + 1 = n - k /\ 0 <= n - k
        BY <1>4
      <4> HIDE DEF a
      <4>2. IsFiniteSet(a..p) /\ Cardinality(a..p) = (IF a > p THEN 0 ELSE p - a + 1) /\ Cardinality(a..p) \in Nat
        BY <4>1, FS_Interval, FS_CardinalityType
      <4> QED BY <4>1, <4>2 DEF a
    <3>3. Cardinality(Stretch(admitted, s, s + Window)) <= n - k
      <4>1. Cardinality(Stretch(admitted, s, s + Window)) <= Cardinality((d + k + 1)..p)
        BY <3>1, <3>2, FS_Subset
      <4> QED BY <1>4, <2>1, <3>2, <4>1
    <3>4. Cardinality(Stretch(Append(admitted, now), s, s + Window)) <= Cardinality(Stretch(admitted, s, s + Window)) + 1
      BY <1>1, <1>8, OneMore
    <3>5. /\ n - k < MaxEvents /\ admitted' = Append(admitted, now)
          /\ Cardinality(Stretch(Append(admitted, now), s, s + Window)) \in Nat
      <4>1. Append(admitted, now) \in Seq(Nat)
        BY <1>1, <1>8
      <4> QED BY <1>3, <1>6, <2>4, <4>1, StretchIsFinite
    <3> QED BY <1>4, <1>8, <2>1, <3>3, <3>4, <3>5
  <2> QED BY <2>2, <2>3, <2>4
<1> QED BY <1>2, <1>11, <1>12, <1>13 DEF OwnInv

LEMMA SharedTurn ==
  ASSUME NEW c \in Callers, NEW answered \in BOOLEAN, LimitInv, Limit!Allow(c, answered),
         limiter = Limit!SharedWindow, ~overtaken'
  PROVE  SharedInv'
<1> DEFINE now == call[c].now
           current == Limit!Current(now)
           allowed == Limit!Allowed(now)
<1>1. overtaken' = (overtaken \/ call[c].crossed) /\ overtaken \in BOOLEAN /\ limiter.at = "redis" /\ limiter.form = "window"
      /\ limiter # Limit!OwnWindow
  BY DEF LimitInv, LimitType, Limit!Allow, Limit!SharedWindow, Limit!OwnWindow
<1>2. /\ SharedInv /\ admitted \in Seq(Nat) /\ now \in 0..time /\ time' = time /\ time \in Nat
      /\ now \in Moments /\ Moments' = {time} /\ used \in 0..time
  <2>1. ~overtaken /\ ~call[c].crossed
    BY <1>1
  <2> QED BY <2>1, LimitDone DEF LimitInv, LimitType, Limit!Allow
<1>3. /\ stamps' = (IF allowed THEN current \cup {now} ELSE current)
      /\ used' = (IF allowed THEN time ELSE used)
      /\ \/ admitted' = admitted
         \/ admitted' = Append(admitted, now) /\ allowed /\ ~Limit!Contains(admitted, now)
      /\ allowed => Cardinality(current) < MaxEvents
  <2>1. allowed => Cardinality(current) < MaxEvents
    BY <1>1, LimitCounts DEF Limit!Allowed
  <2> QED BY <1>1, <2>1 DEF Limit!Allow
<1>4. now \in Nat /\ Window \in Nat /\ MaxEvents \in Nat /\ now <= time
  BY <1>2, LimitNumbers
<1> DEFINE n == Len(admitted)
<1>5. n \in Nat /\ DOMAIN admitted = 1..n /\ \A i \in 1..n : admitted[i] \in Nat
  BY <1>2
<1>6. /\ Append(admitted, now) \in Seq(Nat) /\ DOMAIN Append(admitted, now) = 1..(n + 1)
      /\ Append(admitted, now)[n + 1] = now
      /\ \A i \in 1..n : Append(admitted, now)[i] = admitted[i]
      /\ \A i \in 1..(n + 1) : i \in 1..n \/ i = n + 1
  BY <1>2, <1>4, <1>5
<1>7. ~Limit!Contains(admitted, now) => \A i \in 1..n : admitted[i] # now
  BY DEF Limit!Contains
<1>8. /\ current \subseteq stamps /\ stamps \subseteq Nat
      /\ IsFiniteSet(current) /\ IsFiniteSet(stamps') /\ stamps' \subseteq Nat /\ Cardinality(current) \in Nat
  <2>1. current \subseteq stamps /\ IsFiniteSet(stamps) /\ stamps \subseteq Nat
    BY <1>2 DEF Limit!Current, SharedInv
  <2>2. IsFiniteSet(current) /\ Cardinality(current) \in Nat
    BY <2>1, FS_Subset, FS_CardinalityType
  <2>3. IsFiniteSet(current \cup {now})
    BY <2>2, FS_AddElement
  <2> QED BY <1>3, <1>4, <2>1, <2>2, <2>3
<1>9. \A i \in 1..n : /\ admitted[i] <= now /\ admitted[i] <= used
                      /\ admitted[i] > now - Window => admitted[i] \in current
  <2> SUFFICES ASSUME NEW i \in 1..n
               PROVE  /\ admitted[i] <= now /\ admitted[i] <= used
                      /\ admitted[i] > now - Window => admitted[i] \in current
    OBVIOUS
  <2> QED BY <1>2, <1>5 DEF SharedInv, Limit!Current
<1> HIDE DEF now, current, allowed, n
<1>10. \A i, j \in DOMAIN admitted' : admitted'[i] = admitted'[j] => i = j
  <2>1. \A i, j \in 1..n : admitted[i] = admitted[j] => i = j
    BY <1>2, <1>5 DEF SharedInv
  <2>2. CASE admitted' = admitted
    BY <1>5, <2>1, <2>2
  <2>3. CASE admitted' = Append(admitted, now) /\ ~Limit!Contains(admitted, now)
    <3>1. \A i \in 1..n : admitted[i] # now /\ admitted'[i] = admitted[i]
      BY <1>6, <1>7, <2>3
    <3>2. admitted'[n + 1] = now /\ DOMAIN admitted' = 1..(n + 1)
      BY <1>6, <2>3
    <3> SUFFICES ASSUME NEW i \in 1..(n + 1), NEW j \in 1..(n + 1), admitted'[i] = admitted'[j] PROVE i = j
      BY <3>2
    <3> QED BY <1>6, <2>1, <3>1, <3>2
  <2> QED BY <1>3, <2>2, <2>3
<1>11. \A i \in DOMAIN admitted' : admitted'[i] <= used' /\ admitted'[i] <= time /\ (admitted'[i] > time - Window => admitted'[i] \in stamps')
  <2>1. \A i \in 1..n : admitted[i] <= used' /\ admitted[i] <= time /\ (admitted[i] > time - Window => admitted[i] \in stamps')
    <3> SUFFICES ASSUME NEW i \in 1..n
                 PROVE  admitted[i] <= used' /\ admitted[i] <= time /\ (admitted[i] > time - Window => admitted[i] \in stamps')
      OBVIOUS
    <3>1. admitted[i] \in Nat /\ admitted[i] <= now /\ admitted[i] <= used /\ (admitted[i] > now - Window => admitted[i] \in current)
      BY <1>5, <1>9
    <3>2. admitted[i] <= time /\ admitted[i] <= used' /\ (admitted[i] > time - Window => admitted[i] > now - Window)
      BY <1>2, <1>3, <1>4, <3>1
    <3>3. current \subseteq stamps'
      BY <1>3
    <3> QED BY <3>1, <3>2, <3>3
  <2>2. CASE admitted' = admitted
    BY <1>5, <2>1, <2>2
  <2>3. CASE admitted' = Append(admitted, now) /\ allowed
    <3>1. now <= used' /\ now \in stamps'
      BY <1>2, <1>3, <1>4, <2>3
    <3> QED BY <1>4, <1>6, <2>1, <2>3, <3>1
  <2> QED BY <1>3, <2>2, <2>3
<1>12. \A s \in Nat : Cardinality(Stretch(admitted', s, s + Window - 1)) <= MaxEvents
  <2> SUFFICES ASSUME NEW s \in Nat PROVE Cardinality(Stretch(admitted', s, s + Window - 1)) <= MaxEvents
    OBVIOUS
  <2> DEFINE old == Stretch(admitted, s, s + Window - 1)
  <2>1. Cardinality(old) <= MaxEvents /\ Cardinality(old) \in Nat
    BY <1>2, StretchIsFinite DEF SharedInv
  <2>2. CASE admitted' = admitted
    BY <2>1, <2>2
  <2>3. CASE admitted' = Append(admitted, now) /\ now \notin s..(s + Window - 1)
    <3>1. Stretch(Append(admitted, now), s, s + Window - 1) = old
      BY <1>2, <1>4, <2>3, OneMore
    <3> QED BY <2>1, <2>3, <3>1
  <2>4. CASE admitted' = Append(admitted, now) /\ allowed /\ now \in s..(s + Window - 1)
    <3> DEFINE stampOf == [i \in old |-> admitted[i]]
    <3>1. \A i \in old : i \in 1..n /\ admitted[i] \in current
      <4> SUFFICES ASSUME NEW i \in old PROVE i \in 1..n /\ admitted[i] \in current
        OBVIOUS
      <4>1. i \in 1..n /\ admitted[i] \in s..(s + Window - 1)
        BY <1>5 DEF Stretch
      <4>2. admitted[i] > now - Window
        BY <1>4, <1>5, <2>4, <4>1
      <4> QED BY <1>9, <4>1, <4>2
    <3>2. \A i, j \in old : admitted[i] = admitted[j] => i = j
      BY <1>2, <1>5, <3>1 DEF SharedInv
    <3> HIDE DEF old
    <3>3. stampOf \in Injection(old, current)
      BY <3>1, <3>2 DEF Injection, IsInjective
    <3>4. Cardinality(old) <= Cardinality(current)
      BY <1>8, <3>3, FS_Injection
    <3>5. Cardinality(Stretch(Append(admitted, now), s, s + Window - 1)) <= Cardinality(old) + 1
      BY <1>2, <1>4, OneMore DEF old
    <3>6. Cardinality(Stretch(Append(admitted, now), s, s + Window - 1)) \in Nat
      BY <1>6, StretchIsFinite
    <3> QED BY <1>3, <1>4, <1>8, <2>1, <2>4, <3>4, <3>5, <3>6
  <2> QED BY <1>3, <2>2, <2>3, <2>4
<1> QED BY <1>2, <1>8, <1>10, <1>11, <1>12 DEF SharedInv

LEMMA LimitStep == LimitInv /\ [Next]_vars => LimitInv'
<1> SUFFICES ASSUME LimitInv, Limit!Next \/ UNCHANGED limitVars PROVE LimitInv'
  BY DEF Next, vars
<1>1. ASSUME NEW c \in Callers, NEW answered \in BOOLEAN, Limit!Allow(c, answered) PROVE LimitInv'
  <2>1. LimitType' /\ limiter' = limiter
    BY <1>1, LimitHistory DEF Limit!Allow
  <2>2. limiter.form = "bucket" => BucketInv'
    BY <1>1, BucketTurn
  <2>3. limiter = Limit!OwnWindow => OwnInv'
    BY <1>1, OwnTurn
  <2>4. limiter = Limit!SharedWindow /\ ~overtaken' => SharedInv'
    BY <1>1, SharedTurn
  <2> QED BY <2>1, <2>2, <2>3, <2>4 DEF LimitInv, Limit!OwnWindow, Limit!SharedWindow
<1>2. CASE UNCHANGED limitVars
  <2>1. Moments' = Moments
    BY <1>2 DEF limitVars, Moments
  <2>2. LimitType' <=> LimitType
    BY <1>2 DEF limitVars, LimitType
  <2>3. BucketInv' <=> BucketInv
    BY <1>2, <2>1 DEF limitVars, BucketInv
  <2>4. OwnInv' <=> OwnInv
    BY <1>2 DEF limitVars, OwnInv, Stretch
  <2>5. SharedInv' <=> SharedInv
    BY <1>2, <2>1 DEF limitVars, SharedInv, Stretch
  <2> QED BY <1>2, <2>2, <2>3, <2>4, <2>5 DEF limitVars, LimitInv
<1> QED BY <1>1, <1>2, LimitTick, LimitExpire, LimitCall, LimitFail DEF Limit!Next

\* No limiter lets more through than it says, for any callers, capacity, refill and
\* window, in whatever order their calls come: a bucket no more than it can hold and has
\* gained since its first call, a window no more than MaxEvents in any stretch as long.
THEOREM LimitersHold == Spec => []LimitHolds
<1>1. LimitInv => LimitHolds
  <2> SUFFICES ASSUME LimitInv, latest # Limit!None, limiter.at = "memory" \/ ~overtaken
               PROVE  IF limiter.form = "bucket" THEN Len(admitted) <= Cap + Refill * (latest - first)
                      ELSE \A s \in 0..EndOfTime :
                             Limit!Admitted(s, s + Window - (IF limiter.at = "memory" THEN 0 ELSE 1)) <= MaxEvents
    BY DEF LimitHolds, Limit!LimitHolds
  <2>1. /\ limiter \in [at : {"memory", "redis"}, form : {"bucket", "window"}]
        /\ limiter.form # "bucket" =>
             \/ limiter = Limit!OwnWindow /\ limiter.at = "memory"
             \/ limiter = Limit!SharedWindow /\ limiter.at = "redis"
    BY DEF LimitInv, LimitType, Limit!OwnWindow, Limit!SharedWindow
  <2>2. \A low, high : Limit!Admitted(low, high) = Cardinality(Stretch(admitted, low, high))
    BY LimitCounts DEF Limit!Admitted, Stretch
  <2>3. CASE limiter.form = "bucket"
    BY <2>3 DEF LimitInv, BucketInv, Gained
  <2>4. CASE limiter = Limit!OwnWindow /\ limiter.at = "memory"
    <3>1. \A s \in Nat : s + Window - 0 = s + Window
      BY LimitNumbers
    <3>2. limiter.form # "bucket" /\ \A s \in Nat : Cardinality(Stretch(admitted, s, s + Window)) <= MaxEvents
      BY <2>4 DEF LimitInv, OwnInv, Limit!OwnWindow
    <3> QED BY <2>2, <2>4, <3>1, <3>2
  <2>5. CASE limiter = Limit!SharedWindow /\ limiter.at = "redis"
    <3>1. limiter.form # "bucket" /\ \A s \in Nat : Cardinality(Stretch(admitted, s, s + Window - 1)) <= MaxEvents
      BY <2>5 DEF LimitInv, SharedInv, Limit!SharedWindow
    <3> QED BY <2>2, <2>5, <3>1
  <2> QED BY <2>1, <2>3, <2>4, <2>5
<1> QED BY LimitInit, LimitStep, <1>1, PTL DEF Spec

-----------------------------------------------------------------------------
(* Metering *)

\* Lists of events as batches and answers hold them.
Lists == Seq(EventKeys)

\* Nothing occurs twice in a list, or in two.
Once(s) == \A i, j \in 1..Len(s) : s[i] = s[j] => i = j
Apart(s, t) == \A i \in 1..Len(s), j \in 1..Len(t) : s[i] # t[j]
AllIn(s, m) == \A i \in 1..Len(s) : s[i] \in m

MeterType ==
  /\ ingest \in [Ingesters -> [pc : {"rest", "seen", "mark", "done"}, rest : Lists, accepted : Lists]]
  /\ returned \in Seq(Lists)
  /\ \A p \in Ingesters : ingest[p].pc \in {"seen", "mark"} => Len(ingest[p].rest) > 0

\* What was accepted, returned or not yet, is marked and there is nothing of it twice.
MeterInv ==
  /\ MeterType
  /\ \A p \in Ingesters :
       /\ Once(ingest[p].accepted) /\ AllIn(ingest[p].accepted, marked)
       /\ \A q \in Ingesters \ {p} : Apart(ingest[p].accepted, ingest[q].accepted)
       /\ \A x \in 1..Len(returned) : Apart(ingest[p].accepted, returned[x])
  /\ \A x \in 1..Len(returned) :
       /\ Once(returned[x]) /\ AllIn(returned[x], marked)
       /\ \A y \in 1..Len(returned) : x # y => Apart(returned[x], returned[y])

LEMMA MeterInit == Init => MeterInv
<1> SUFFICES ASSUME Meter!Init PROVE MeterInv
  BY DEF Init
<1>1. /\ ingest = [p \in Ingesters |-> [pc |-> "rest", rest |-> <<>>, accepted |-> <<>>]]
      /\ returned = <<>>
  BY DEF Meter!Init, Meter!Resting
<1>2. <<>> \in Lists /\ <<>> \in Seq(Lists) /\ Len(<<>>) = 0
  BY DEF Lists
<1> QED BY <1>1, <1>2 DEF MeterInv, MeterType, Once, Apart, AllIn

\* The turn of an event of which nothing is accepted, or one that was not marked before.
LEMMA TurnOver ==
  ASSUME MeterInv, NEW p \in Ingesters, ingest[p].pc \in {"seen", "mark"}, UNCHANGED returned,
         NEW gain, Meter!Over(p, gain),
         \/ gain = <<>> /\ UNCHANGED marked
         \/ gain = <<Head(ingest[p].rest)>> /\ Head(ingest[p].rest) \notin marked
            /\ marked' = marked \cup {Head(ingest[p].rest)}
  PROVE  MeterInv'
<1> DEFINE key == Head(ingest[p].rest)
           was == ingest[p].accepted
           now == was \o gain
           left == Tail(ingest[p].rest)
           state == [pc |-> IF Len(ingest[p].rest) = 1 THEN "done" ELSE "seen",
                     rest |-> left, accepted |-> now]
<1>1. ingest' = [ingest EXCEPT ![p] = state]
  BY DEF Meter!Over
<1>2. /\ ingest[p].rest \in Lists /\ Len(ingest[p].rest) > 0 /\ was \in Lists
  BY DEF MeterInv, MeterType
<1>3. key \in EventKeys /\ left \in Lists /\ Len(left) = Len(ingest[p].rest) - 1
  BY <1>2 DEF Lists
<1>4. gain \in Lists
  <2> HIDE DEF key
  <2>1. <<>> \in Lists /\ <<key>> \in Lists
    BY <1>3 DEF Lists
  <2>2. gain = <<>> \/ gain = <<key>>
    BY DEF key
  <2> QED BY <2>1, <2>2
<1>5. now \in Lists
  BY <1>2, <1>4 DEF Lists
<1>6. state \in [pc : {"rest", "seen", "mark", "done"}, rest : Lists, accepted : Lists]
      /\ (state.pc \in {"seen", "mark"} => Len(state.rest) > 0)
  <2> HIDE DEF now, left
  <2>1. Len(ingest[p].rest) \in Nat
    BY <1>2 DEF Lists
  <2>2. state.pc \in {"done", "seen"} /\ (state.pc = "seen" => Len(ingest[p].rest) # 1)
    OBVIOUS
  <2>3. state.pc = "seen" => Len(left) > 0
    <3> HIDE DEF state, key, was
    <3> DEFINE size == Len(ingest[p].rest)
    <3>1. size \in Nat /\ size > 0 /\ Len(left) = size - 1 /\ (state.pc = "seen" => size # 1)
      BY <1>2, <1>3, <2>1, <2>2
    <3> HIDE DEF size
    <3> QED BY <3>1
  <2>4. state \in [pc : {"rest", "seen", "mark", "done"}, rest : Lists, accepted : Lists] /\ state.rest = left
    BY <1>3, <1>5
  <2> HIDE DEF state
  <2> QED BY <2>2, <2>3, <2>4
<1>7. state.accepted = now
  OBVIOUS
<1> HIDE DEF state
<1>8. \A q \in Ingesters : ingest'[q] = IF q = p THEN state ELSE ingest[q]
  BY <1>1 DEF MeterInv, MeterType
<1>9. MeterType'
  BY <1>1, <1>6, <1>8 DEF MeterInv, MeterType
<1>10. CASE gain = <<>> /\ UNCHANGED marked
  <2>1. now = was
    BY <1>2, <1>10 DEF Lists
  <2>2. \A q \in Ingesters : ingest'[q].accepted = ingest[q].accepted
    BY <1>7, <1>8, <2>1
  <2>3. marked' = marked /\ returned' = returned
    BY <1>10
  <2> HIDE DEF key, was, now
  <2> QED BY ONLY MeterInv, <1>9, <2>2, <2>3 DEF MeterInv
<1>11. CASE gain = <<key>> /\ key \notin marked /\ marked' = marked \cup {key}
  <2>1. /\ Len(now) = Len(was) + 1 /\ Len(was) \in Nat /\ now[Len(was) + 1] = key
        /\ \A i \in 1..Len(was) : now[i] = was[i]
    BY <1>2, <1>3, <1>11 DEF Lists
  <2> HIDE DEF key, now, was
  <2>0. \A i \in 1..Len(now) : i \in 1..Len(was) \/ i = Len(was) + 1
    BY <2>1
  <2>2. Once(was) /\ AllIn(was, marked)
    BY DEF MeterInv, was
  <2>3. AllIn(now, marked')
    BY <2>1, <2>2, <1>11 DEF AllIn
  <2>4. Once(now)
    BY <2>0, <2>1, <2>2, <1>11 DEF Once, AllIn
  <2>5. ASSUME NEW t, AllIn(t, marked), Apart(was, t) PROVE Apart(now, t)
    BY <2>0, <2>1, <2>5, <1>11 DEF Apart, AllIn
  <2>6. ASSUME NEW q \in Ingesters \ {p} PROVE Apart(now, ingest[q].accepted) /\ Apart(ingest[q].accepted, now)
    <3>1. AllIn(ingest[q].accepted, marked) /\ Apart(was, ingest[q].accepted)
      BY <2>6 DEF MeterInv, was
    <3>2. Apart(now, ingest[q].accepted)
      BY <3>1, <2>5
    <3> QED BY <3>2 DEF Apart
  <2>7. ASSUME NEW x \in 1..Len(returned) PROVE Apart(now, returned[x])
    <3>1. AllIn(returned[x], marked) /\ Apart(was, returned[x])
      BY <2>7 DEF MeterInv, was
    <3> QED BY <3>1, <2>5
  <2>8. ASSUME NEW q \in Ingesters
        PROVE  /\ Once(ingest'[q].accepted) /\ AllIn(ingest'[q].accepted, marked')
               /\ \A r \in Ingesters \ {q} : Apart(ingest'[q].accepted, ingest'[r].accepted)
               /\ \A x \in 1..Len(returned) : Apart(ingest'[q].accepted, returned[x])
    <3>1. CASE q = p
      <4>1. AllIn(ingest'[p].accepted, marked')
        BY <2>3, <1>7, <1>8 DEF AllIn
      <4> QED BY <3>1, <4>1, <2>4, <2>6, <2>7, <1>7, <1>8
    <3>2. CASE q # p
      <4>1. Once(ingest[q].accepted) /\ AllIn(ingest[q].accepted, marked)
        BY DEF MeterInv
      <4>2. AllIn(ingest'[q].accepted, marked')
        BY <4>1, <1>8, <1>11, <3>2 DEF AllIn
      <4>3. ASSUME NEW r \in Ingesters \ {q} PROVE Apart(ingest'[q].accepted, ingest'[r].accepted)
        BY <3>2, <4>3, <2>6, <1>7, <1>8 DEF MeterInv
      <4>4. ASSUME NEW x \in 1..Len(returned) PROVE Apart(ingest'[q].accepted, returned[x])
        BY <3>2, <1>8 DEF MeterInv
      <4> QED BY <4>1, <4>2, <4>3, <4>4, <3>2, <1>8
    <3> QED BY <3>1, <3>2
  <2>9. \A x \in 1..Len(returned) :
          /\ Once(returned[x]) /\ AllIn(returned[x], marked')
          /\ \A y \in 1..Len(returned) : x # y => Apart(returned[x], returned[y])
    BY <1>11 DEF MeterInv, AllIn
  <2> QED BY <1>9, <2>8, <2>9 DEF MeterInv
<1> QED BY <1>10, <1>11

\* A batch that ends without an answer, or one that is taken.
LEMMA BatchReplaced ==
  ASSUME MeterInv, NEW p \in Ingesters, UNCHANGED <<marked, returned>>,
         NEW state \in [pc : {"rest", "seen", "mark", "done"}, rest : Lists, accepted : Lists],
         state.pc \in {"seen", "mark"} => Len(state.rest) > 0,
         state.accepted = <<>> \/ state.accepted = ingest[p].accepted,
         ingest' = [ingest EXCEPT ![p] = state]
  PROVE  MeterInv'
<1>1. \A q \in Ingesters : ingest'[q] = IF q = p THEN state ELSE ingest[q]
  BY DEF MeterInv, MeterType
<1>2. MeterType'
  BY <1>1 DEF MeterInv, MeterType
<1>3. CASE state.accepted = ingest[p].accepted
  <2>1. \A q \in Ingesters : ingest'[q].accepted = ingest[q].accepted
    BY <1>1, <1>3
  <2> QED BY <1>2, <2>1 DEF MeterInv, Once, Apart, AllIn
<1>4. CASE state.accepted = <<>>
  <2>1. Len(state.accepted) = 0
    BY <1>4
  <2>2. \A t : Once(state.accepted) /\ AllIn(state.accepted, marked') /\ Apart(state.accepted, t) /\ Apart(t, state.accepted)
    BY <2>1 DEF Once, AllIn, Apart
  <2>3. ASSUME NEW q \in Ingesters
        PROVE  /\ Once(ingest'[q].accepted) /\ AllIn(ingest'[q].accepted, marked')
               /\ \A r \in Ingesters \ {q} : Apart(ingest'[q].accepted, ingest'[r].accepted)
               /\ \A x \in 1..Len(returned) : Apart(ingest'[q].accepted, returned[x])
    BY <1>1, <2>2 DEF MeterInv, AllIn
  <2>4. \A x \in 1..Len(returned) :
          /\ Once(returned[x]) /\ AllIn(returned[x], marked')
          /\ \A y \in 1..Len(returned) : x # y => Apart(returned[x], returned[y])
    BY DEF MeterInv, AllIn
  <2> QED BY <1>2, <2>3, <2>4 DEF MeterInv
<1> QED BY <1>3, <1>4

LEMMA MeterStep == MeterInv /\ [Next]_vars => MeterInv'
<1> SUFFICES ASSUME MeterInv, Meter!Next \/ UNCHANGED meterVars PROVE MeterInv'
  BY DEF Next, vars
<1>0. \A p \in Ingesters : ingest[p] \in [pc : {"rest", "seen", "mark", "done"}, rest : Lists, accepted : Lists]
  BY DEF MeterInv, MeterType
<1>1. ASSUME NEW p \in Ingesters, Meter!Seen(p) PROVE MeterInv'
  <2>1. ingest[p].pc = "seen" /\ UNCHANGED <<marked, taken, returned, failed>>
    BY <1>1 DEF Meter!Seen
  <2>2. CASE Meter!Over(p, <<>>)
    BY <2>1, <2>2, TurnOver
  <2>3. CASE ingest' = [ingest EXCEPT ![p].pc = "mark"]
    <3> DEFINE state == [ingest[p] EXCEPT !.pc = "mark"]
    <3>1. ingest' = [ingest EXCEPT ![p] = state] /\ Len(ingest[p].rest) > 0
      BY <2>1, <2>3 DEF MeterInv, MeterType
    <3>2. /\ state \in [pc : {"rest", "seen", "mark", "done"}, rest : Lists, accepted : Lists]
          /\ state.accepted = ingest[p].accepted /\ state.rest = ingest[p].rest
      BY <1>0
    <3> HIDE DEF state
    <3> QED BY <2>1, <3>1, <3>2, BatchReplaced
  <2> QED BY <1>1, <2>2, <2>3 DEF Meter!Seen
<1>2. ASSUME NEW p \in Ingesters, Meter!Mark(p) PROVE MeterInv'
  <2>1. ingest[p].pc = "mark" /\ UNCHANGED returned
    BY <1>2 DEF Meter!Mark
  <2>2. CASE Meter!Inserted(Head(ingest[p].rest))
    <3>1. /\ marked' = marked \cup {Head(ingest[p].rest)} /\ Meter!Over(p, <<Head(ingest[p].rest)>>)
          /\ Head(ingest[p].rest) \notin marked
      BY <1>2, <2>2 DEF Meter!Mark, Meter!Inserted
    <3> QED BY <2>1, <3>1, TurnOver
  <2>3. CASE ~Meter!Inserted(Head(ingest[p].rest))
    <3>1. Meter!Over(p, <<>>) /\ UNCHANGED marked
      BY <1>2, <2>3 DEF Meter!Mark
    <3> QED BY <2>1, <3>1, TurnOver
  <2> QED BY <2>2, <2>3
<1>3. Meter!Resting \in [pc : {"rest", "seen", "mark", "done"}, rest : Lists, accepted : Lists]
      /\ Meter!Resting.pc = "rest" /\ Meter!Resting.accepted = <<>>
  BY DEF Meter!Resting, Lists
<1>4. ASSUME NEW p \in Ingesters, Meter!GiveUp(p) PROVE MeterInv'
  BY <1>3, <1>4, BatchReplaced DEF Meter!GiveUp
<1>5. ASSUME NEW p \in Ingesters, Meter!Return(p) PROVE MeterInv'
  <2> DEFINE was == ingest[p].accepted
  <2>1. returned' = Append(returned, was) /\ ingest' = [ingest EXCEPT ![p] = Meter!Resting] /\ UNCHANGED marked
    BY <1>5 DEF Meter!Return
  <2>2. was \in Lists /\ returned \in Seq(Lists)
    BY <1>0 DEF MeterInv, MeterType
  <2>3. /\ returned' \in Seq(Lists) /\ Len(returned') = Len(returned) + 1 /\ Len(returned) \in Nat
        /\ returned'[Len(returned) + 1] = was /\ \A x \in 1..Len(returned) : returned'[x] = returned[x]
    BY <2>1, <2>2
  <2>4. \A q \in Ingesters : ingest'[q] = IF q = p THEN Meter!Resting ELSE ingest[q]
    BY <2>1 DEF MeterInv, MeterType
  <2>5. MeterType'
    BY <2>1, <2>3, <2>4, <1>3 DEF MeterInv, MeterType
  <2>6. \A t : Once(Meter!Resting.accepted) /\ AllIn(Meter!Resting.accepted, marked')
               /\ Apart(Meter!Resting.accepted, t) /\ Apart(t, Meter!Resting.accepted)
    BY <1>3 DEF Once, AllIn, Apart
  <2>7. /\ Once(was) /\ AllIn(was, marked)
        /\ \A x \in 1..Len(returned) : Apart(was, returned[x])
        /\ \A q \in Ingesters \ {p} : Apart(ingest[q].accepted, was)
    BY DEF MeterInv
  <2>8. \A x \in 1..Len(returned) : Apart(returned[x], was)
    BY <2>7 DEF Apart
  <2> HIDE DEF was
  <2>9. ASSUME NEW q \in Ingesters
        PROVE  /\ Once(ingest'[q].accepted) /\ AllIn(ingest'[q].accepted, marked')
               /\ \A r \in Ingesters \ {q} : Apart(ingest'[q].accepted, ingest'[r].accepted)
               /\ \A x \in 1..Len(returned') : Apart(ingest'[q].accepted, returned'[x])
    <3>1. CASE q = p
      BY <3>1, <2>4, <2>6 DEF AllIn
    <3>2. CASE q # p
      <4>1. /\ Once(ingest[q].accepted) /\ AllIn(ingest[q].accepted, marked)
            /\ \A r \in Ingesters \ {q} : Apart(ingest[q].accepted, ingest[r].accepted)
            /\ \A x \in 1..Len(returned) : Apart(ingest[q].accepted, returned[x])
        BY DEF MeterInv
      <4>2. \A r \in Ingesters \ {q} : Apart(ingest'[q].accepted, ingest'[r].accepted)
        BY <4>1, <3>2, <2>4, <2>6
      <4>3. \A x \in 1..Len(returned') : Apart(ingest'[q].accepted, returned'[x])
        BY <4>1, <3>2, <2>3, <2>4, <2>7
      <4>4. ingest'[q] = ingest[q] /\ AllIn(ingest'[q].accepted, marked')
        BY <4>1, <3>2, <2>1, <2>4 DEF AllIn
      <4> QED BY <4>1, <4>2, <4>3, <4>4
    <3> QED BY <3>1, <3>2
  <2>10. ASSUME NEW x \in 1..Len(returned')
         PROVE  /\ Once(returned'[x]) /\ AllIn(returned'[x], marked')
                /\ \A y \in 1..Len(returned') : x # y => Apart(returned'[x], returned'[y])
    <3>1. \A z \in 1..Len(returned) : /\ Once(returned[z]) /\ AllIn(returned[z], marked)
                                      /\ \A y \in 1..Len(returned) : z # y => Apart(returned[z], returned[y])
      BY DEF MeterInv
    <3>2. CASE x \in 1..Len(returned)
      BY <3>1, <3>2, <2>1, <2>3, <2>8 DEF AllIn
    <3>3. CASE x = Len(returned) + 1
      BY <3>3, <2>1, <2>3, <2>7 DEF AllIn
    <3> QED BY <3>2, <3>3, <2>3
  <2> QED BY <2>5, <2>9, <2>10 DEF MeterInv
<1>6. ASSUME NEW p \in Ingesters, Meter!End(p) PROVE MeterInv'
  BY <1>3, <1>6, BatchReplaced DEF Meter!End
<1>7. ASSUME NEW p \in Ingesters, NEW batch \in Meter!Batches, Meter!Take(p, batch) PROVE MeterInv'
  <2> DEFINE state == [pc |-> "seen", rest |-> batch, accepted |-> <<>>]
  <2>1. ingest' = [ingest EXCEPT ![p] = state] /\ UNCHANGED <<marked, returned>>
    BY <1>7 DEF Meter!Take
  <2>2. batch \in Lists /\ Len(batch) > 0
    <3>1. CASE \E k \in EventKeys : batch = <<k>>
      BY <3>1 DEF Lists
    <3>2. CASE \E k, l \in EventKeys : batch = <<k, l>>
      BY <3>2 DEF Lists
    <3> QED BY <3>1, <3>2 DEF Meter!Batches
  <2>3. state \in [pc : {"rest", "seen", "mark", "done"}, rest : Lists, accepted : Lists]
        /\ Len(state.rest) > 0 /\ state.accepted = <<>>
    BY <2>2 DEF Lists
  <2> HIDE DEF state
  <2> QED BY <2>1, <2>3, BatchReplaced
<1>8. CASE UNCHANGED meterVars
  BY <1>8 DEF meterVars, MeterInv, MeterType, Once, Apart, AllIn
<1> QED BY <1>1, <1>2, <1>4, <1>5, <1>6, <1>7, <1>8 DEF Meter!Next

\* An event is accepted once and only if it is marked, for any number of processes and
\* events, whichever of them meet a lock, stop or take the same batch.
THEOREM EventsAreAcceptedOnce == Spec => []AcceptedOnce
<1>1. MeterInv => AcceptedOnce
  <2> SUFFICES ASSUME MeterInv PROVE AcceptedOnce
    OBVIOUS
  <2> DEFINE places(k) == {at \in (DOMAIN returned) \X (1..2) :
                             at[2] <= Len(returned[at[1]]) /\ returned[at[1]][at[2]] = k}
  <2>1. DOMAIN returned = 1..Len(returned) /\ \A x \in 1..Len(returned) : Len(returned[x]) \in Nat
    BY DEF MeterInv, MeterType, Lists
  <2>2. ASSUME NEW k, NEW x \in places(k)
        PROVE  x[1] \in 1..Len(returned) /\ x[2] \in 1..Len(returned[x[1]]) /\ returned[x[1]][x[2]] = k /\ x = <<x[1], x[2]>>
    BY <2>1
  <2>3. ASSUME NEW k, NEW x \in places(k), NEW y \in places(k) PROVE x = y
    <3>1. x[1] = y[1]
      BY <2>2 DEF MeterInv, Apart
    <3>2. x[2] = y[2]
      BY <2>2, <3>1 DEF MeterInv, Once
    <3> QED BY <2>2, <3>1, <3>2
  <2>4. ASSUME NEW k, NEW x \in places(k) PROVE k \in marked
    BY <2>2 DEF MeterInv, AllIn
  <2> HIDE DEF places
  <2>5. \A k \in EventKeys : /\ \A x, y \in places(k) : x = y
                             /\ places(k) # {} => k \in marked
    BY <2>3, <2>4
  <2> QED BY <2>5 DEF AcceptedOnce, Meter!AcceptedOnce, places
<1> QED BY MeterInit, MeterStep, <1>1, PTL DEF Spec

-----------------------------------------------------------------------------
(* Annotate *)

JobType == [pc : {"list", "write", "labels", "create"}, report : Reports, target : Nat, todo : SUBSET Catalog]

\* The comment a run has found was the gate's, and ids are not used again.
Targets ==
  \A j \in Jobs : job[j] # Note!Idle /\ job[j].target # 0 =>
    job[j].target <= written /\ (job[j].target \in DOMAIN comments => job[j].target \in Note!Marked)

\* While no comment was made blindly, there is one at most, it is on the first page, and
\* there is none when a run is about to make it.
NoteInv ==
  /\ written \in Nat /\ DOMAIN comments \subseteq 1..written
  /\ job \in [Jobs -> JobType \cup {Note!Idle}] /\ blind \in BOOLEAN
  /\ Targets
  /\ ~blind => /\ \A i, k \in Note!Marked : i = k
               /\ Note!Marked \subseteq Note!Page
               /\ \A j \in Jobs : job[j].pc = "write" /\ job[j].target = 0 => Note!Marked = {}

\* The instance counts as FiniteSets does.
LEMMA NoteCounts == \A S : Note!Cardinality(S) = Cardinality(S)
BY DEF Note!Cardinality, Cardinality

LEMMA PageIsSome == PageSize \in Nat
BY AnnotateAssumption

\* What a run writes is not talk.
LEMMA BodyIsMarked ==
  ASSUME NEW r \in Reports PROVE Note!Body(r) # Note!Talk
<1>1. Note!Status(r) # "talk"
  BY AnnotateAssumption DEF Note!Status, Note!StageStatus
<1> QED BY <1>1 DEF Note!Body, Note!Talk

\* The comments before one are no more when comments go, nor when others come after it.
LEMMA PageKeeps ==
  ASSUME NEW old, NEW new, NEW n \in Nat, old \subseteq 1..n, NEW i \in Nat,
         {k \in new : k < i} \subseteq {k \in old : k < i},
         Note!Cardinality({k \in old : k < i}) < PageSize
  PROVE  Note!Cardinality({k \in new : k < i}) < PageSize
<1> DEFINE was == {k \in old : k < i}
           is  == {k \in new : k < i}
<1>1. IsFiniteSet(1..n)
  BY FS_Interval
<1>2. was \subseteq 1..n /\ is \subseteq was
  OBVIOUS
<1> HIDE DEF was, is
<1>3. IsFiniteSet(was) /\ IsFiniteSet(is)
  BY <1>1, <1>2, FS_Subset
<1>4. Cardinality(is) <= Cardinality(was) /\ Cardinality(is) \in Nat /\ Cardinality(was) \in Nat
  BY <1>2, <1>3, FS_Subset, FS_CardinalityType
<1>5. Cardinality(was) < PageSize
  BY NoteCounts DEF was
<1>6. Cardinality(is) < PageSize
  <2>1. \A x, y \in Nat : x <= y /\ y < PageSize => x < PageSize
    BY PageIsSome
  <2> QED BY <2>1, <1>4, <1>5
<1> QED BY <1>6, NoteCounts DEF is

LEMMA NoteInit == Init => NoteInv
<1> SUFFICES ASSUME Note!Init PROVE NoteInv
  BY DEF Init
<1>1. comments = <<>> /\ written = 0 /\ job = [j \in Jobs |-> Note!Idle] /\ blind = FALSE
  BY DEF Note!Init
<1>2. DOMAIN comments = {} /\ Note!Marked = {}
  BY <1>1 DEF Note!Marked
<1> QED BY <1>1, <1>2 DEF NoteInv, Targets

\* A run moves on; it writes a comment next only if it has just looked.
LEMMA JobMoves ==
  ASSUME NoteInv, UNCHANGED <<comments, written, blind>>, NEW j \in Jobs,
         NEW state \in JobType \cup {Note!Idle}, job' = [job EXCEPT ![j] = state],
         state = Note!Idle \/ state.target = 0 \/ state.target \in Note!Marked \/ state.target = job[j].target,
         job[j] # Note!Idle \/ state = Note!Idle \/ state.target = 0,
         state.pc = "write" /\ state.target = 0 => Note!Page \cap Note!Marked = {}
  PROVE  NoteInv'
<1>1. \A k \in Jobs : job'[k] = IF k = j THEN state ELSE job[k]
  BY DEF NoteInv
<1>2. Note!Marked' = Note!Marked /\ Note!Page' = Note!Page
  BY DEF Note!Marked, Note!Page
<1>3. Note!Marked \subseteq DOMAIN comments
  BY DEF Note!Marked
<1>4. Targets'
  BY <1>1, <1>2, <1>3 DEF NoteInv, Targets
<1>5. job' \in [Jobs -> JobType \cup {Note!Idle}]
  BY DEF NoteInv
<1>6. ASSUME ~blind, NEW k \in Jobs, job'[k].pc = "write", job'[k].target = 0 PROVE Note!Marked = {}
  BY <1>1, <1>6 DEF NoteInv
<1> QED BY <1>2, <1>4, <1>5, <1>6 DEF NoteInv

\* A comment comes: talk, or one of a run where none was marked.
LEMMA CommentComes ==
  ASSUME NoteInv, NEW body, Note!NewComment(body)
  PROVE  /\ written' = written + 1 /\ written' \notin DOMAIN comments
         /\ DOMAIN comments' = DOMAIN comments \cup {written'} /\ DOMAIN comments' \subseteq 1..written'
         /\ comments'[written'] = body /\ \A i \in DOMAIN comments : comments'[i] = comments[i]
         /\ Note!Marked' = Note!Marked \cup (IF body = Note!Talk THEN {} ELSE {written'})
         /\ \A i \in Note!Page : i \in Note!Page'
         /\ Cardinality(DOMAIN comments) < PageSize => written' \in Note!Page'
<1>1. /\ written' = written + 1 /\ written \in Nat /\ DOMAIN comments \subseteq 1..written
      /\ comments' = [i \in DOMAIN comments \cup {written'} |-> IF i = written' THEN body ELSE comments[i]]
  BY DEF NoteInv, Note!NewComment
<1>2. /\ written' \notin DOMAIN comments
      /\ DOMAIN comments' = DOMAIN comments \cup {written'} /\ DOMAIN comments' \subseteq 1..written'
      /\ comments'[written'] = body /\ \A i \in DOMAIN comments : comments'[i] = comments[i]
  BY <1>1
<1>3. Note!Marked' = Note!Marked \cup (IF body = Note!Talk THEN {} ELSE {written'})
  BY <1>2 DEF Note!Marked, Note!Talk
<1>4. ASSUME NEW i \in Note!Page PROVE i \in Note!Page'
  <2>1. i \in DOMAIN comments /\ Note!Cardinality({k \in DOMAIN comments : k < i}) < PageSize
    BY DEF Note!Page
  <2>2. i \in Nat /\ {k \in DOMAIN comments' : k < i} \subseteq {k \in DOMAIN comments : k < i}
    BY <1>1, <1>2, <2>1
  <2>3. Note!Cardinality({k \in DOMAIN comments' : k < i}) < PageSize
    BY <1>1, <2>1, <2>2, PageKeeps
  <2> QED BY <1>2, <2>1, <2>3 DEF Note!Page
<1>5. ASSUME Cardinality(DOMAIN comments) < PageSize PROVE written' \in Note!Page'
  <2>1. {k \in DOMAIN comments' : k < written'} = DOMAIN comments
    BY <1>1, <1>2
  <2>2. Note!Cardinality({k \in DOMAIN comments' : k < written'}) < PageSize
    BY <1>5, <2>1, NoteCounts
  <2> QED BY <1>2, <2>2 DEF Note!Page
<1> QED BY <1>1, <1>2, <1>3, <1>4, <1>5

LEMMA NoteWrite ==
  ASSUME NoteInv, NEW j \in Jobs, Note!Write(j) PROVE NoteInv'
<1> DEFINE i == job[j].target
           body == Note!Body(job[j].report)
           state == [job[j] EXCEPT !.pc = "labels"]
<1>1. job[j].pc = "write" /\ job' = [job EXCEPT ![j].pc = "labels"]
  BY DEF Note!Write, Note!Goto
<1>2. job[j] \in JobType /\ job[j] # Note!Idle
  BY <1>1 DEF NoteInv, Note!Idle
<1>3. state \in JobType /\ state.target = i /\ state.pc = "labels"
  BY <1>2 DEF JobType
<1> HIDE DEF state
<1>4. /\ job' \in [Jobs -> JobType \cup {Note!Idle}]
      /\ \A k \in Jobs : job'[k] = IF k = j THEN state ELSE job[k]
  BY <1>1, <1>3 DEF NoteInv, state
<1>5. body # Note!Talk
  BY <1>2, BodyIsMarked DEF JobType
<1>6. CASE i = 0
  <2>1. /\ Note!NewComment(body)
        /\ blind' = \/ blind \/ \E k \in Jobs \ {j} : job[k].pc = "write" /\ job[k].target = 0
                    \/ Note!Cardinality(DOMAIN comments) >= PageSize
    BY <1>6 DEF Note!Write
  <2> HIDE DEF body
  <2>2. /\ written' = written + 1 /\ written' \notin DOMAIN comments
        /\ DOMAIN comments' = DOMAIN comments \cup {written'} /\ DOMAIN comments' \subseteq 1..written'
        /\ Note!Marked' = Note!Marked \cup {written'}
        /\ Cardinality(DOMAIN comments) < PageSize => written' \in Note!Page'
    BY <2>1, <1>5, CommentComes
  <2>3. Targets'
    <3> SUFFICES ASSUME NEW k \in Jobs, job'[k] # Note!Idle, job'[k].target # 0
                 PROVE  job'[k].target <= written' /\ (job'[k].target \in DOMAIN comments' => job'[k].target \in Note!Marked')
      BY DEF Targets
    <3>1. k # j /\ job'[k] = job[k]
      BY <1>3, <1>4, <1>6
    <3>2. /\ job[k].target <= written /\ job[k].target \in Nat /\ written \in Nat
          /\ (job[k].target \in DOMAIN comments => job[k].target \in Note!Marked)
      BY <3>1 DEF NoteInv, Targets, JobType
    <3> QED BY <3>1, <3>2, <2>2
  <2>4. ASSUME ~blind'
        PROVE  /\ Note!Marked = {} /\ written' \in Note!Page'
               /\ \A k \in Jobs : ~(job'[k].pc = "write" /\ job'[k].target = 0)
    <3>1. ~blind /\ Note!Marked = {}
      BY <1>1, <1>6, <2>1, <2>4 DEF NoteInv
    <3>2. IsFiniteSet(DOMAIN comments)
      BY FS_Interval, FS_Subset DEF NoteInv
    <3>3. Cardinality(DOMAIN comments) < PageSize
      <4>1. \A x \in Nat : ~(x >= PageSize) => x < PageSize
        BY PageIsSome
      <4>2. Cardinality(DOMAIN comments) \in Nat
        BY <3>2, FS_CardinalityType
      <4>3. ~(Cardinality(DOMAIN comments) >= PageSize)
        BY <2>1, <2>4, NoteCounts
      <4> QED BY <4>1, <4>2, <4>3
    <3>4. \A k \in Jobs : ~(job'[k].pc = "write" /\ job'[k].target = 0)
      BY <1>3, <1>4, <2>1, <2>4
    <3> QED BY <3>1, <3>3, <3>4, <2>2
  <2>5. written' \in Nat /\ blind' \in BOOLEAN
    BY <2>1, <2>2 DEF NoteInv
  <2> QED BY <1>4, <2>2, <2>3, <2>4, <2>5 DEF NoteInv
<1>7. CASE i # 0
  <2>1. /\ comments' = IF i \in DOMAIN comments THEN [comments EXCEPT ![i] = body] ELSE comments
        /\ UNCHANGED <<written, blind>>
    BY <1>7 DEF Note!Write
  <2>2. i \in DOMAIN comments => i \in Note!Marked
    BY <1>2, <1>7 DEF NoteInv, Targets
  <2> HIDE DEF i, body
  <2>3. DOMAIN comments' = DOMAIN comments /\ Note!Marked' = Note!Marked
    BY <1>5, <2>1, <2>2 DEF Note!Marked, Note!Talk
  <2>4. Note!Page' = Note!Page
    BY <2>3 DEF Note!Page
  <2>5. Targets'
    <3> SUFFICES ASSUME NEW k \in Jobs, job'[k] # Note!Idle, job'[k].target # 0
                 PROVE  job'[k].target <= written /\ (job'[k].target \in DOMAIN comments => job'[k].target \in Note!Marked)
      BY <2>1, <2>3 DEF Targets
    <3>1. job[k] # Note!Idle /\ job'[k].target = job[k].target
      BY <1>2, <1>3, <1>4 DEF i
    <3> QED BY <3>1 DEF NoteInv, Targets
  <2>6. ASSUME NEW k \in Jobs, job'[k].pc = "write" PROVE job[k].pc = "write" /\ job'[k] = job[k]
    BY <1>3, <1>4, <2>6
  <2> QED BY <1>4, <2>1, <2>3, <2>4, <2>5, <2>6 DEF NoteInv
<1> QED BY <1>6, <1>7

LEMMA NoteStep == NoteInv /\ [Next]_vars => NoteInv'
<1> SUFFICES ASSUME NoteInv, Note!Next \/ UNCHANGED noteVars PROVE NoteInv'
  BY DEF Next, vars
<1>0. \A j \in Jobs : job[j] \in JobType \cup {Note!Idle} /\ (job[j].pc # "idle" => job[j] \in JobType /\ job[j] # Note!Idle)
  BY DEF NoteInv, Note!Idle
<1>00. Note!Idle.pc = "idle"
  BY DEF Note!Idle
<1>1. CASE Note!Comment
  <2>1. Note!NewComment(Note!Talk) /\ UNCHANGED <<job, blind>>
    BY <1>1 DEF Note!Comment
  <2>2. /\ written' = written + 1 /\ written' \notin DOMAIN comments
        /\ DOMAIN comments' = DOMAIN comments \cup {written'} /\ DOMAIN comments' \subseteq 1..written'
        /\ Note!Marked' = Note!Marked /\ (\A i \in Note!Page : i \in Note!Page')
    BY <2>1, CommentComes
  <2>3. Targets'
    <3> SUFFICES ASSUME NEW k \in Jobs, job[k] # Note!Idle, job[k].target # 0
                 PROVE  job[k].target <= written' /\ (job[k].target \in DOMAIN comments' => job[k].target \in Note!Marked)
      BY <2>1, <2>2 DEF Targets
    <3>1. /\ job[k].target <= written /\ job[k].target \in Nat /\ written \in Nat
          /\ (job[k].target \in DOMAIN comments => job[k].target \in Note!Marked)
      BY DEF NoteInv, Targets, JobType
    <3> QED BY <3>1, <2>2
  <2> QED BY <2>1, <2>2, <2>3 DEF NoteInv
<1>2. ASSUME NEW i \in 1..MaxComments, Note!Delete(i) PROVE NoteInv'
  <2>1. /\ comments' = [k \in DOMAIN comments \ {i} |-> comments[k]] /\ UNCHANGED <<written, job, blind>>
    BY <1>2 DEF Note!Delete, Note!Restrict
  <2>2. DOMAIN comments' = DOMAIN comments \ {i} /\ Note!Marked' = Note!Marked \ {i}
    BY <2>1 DEF Note!Marked, Note!Talk
  <2>3. ASSUME NEW m \in Note!Page, m # i PROVE m \in Note!Page'
    <3>1. m \in DOMAIN comments /\ Note!Cardinality({k \in DOMAIN comments : k < m}) < PageSize
      BY DEF Note!Page
    <3>2. written \in Nat /\ DOMAIN comments \subseteq 1..written /\ m \in Nat
      BY <3>1 DEF NoteInv
    <3>3. {k \in DOMAIN comments' : k < m} \subseteq {k \in DOMAIN comments : k < m}
      BY <2>2
    <3>4. Note!Cardinality({k \in DOMAIN comments' : k < m}) < PageSize
      BY <3>1, <3>2, <3>3, PageKeeps
    <3> QED BY <2>2, <2>3, <3>1, <3>4 DEF Note!Page
  <2>4. Targets'
    BY <2>1, <2>2 DEF NoteInv, Targets
  <2> QED BY <2>1, <2>2, <2>3, <2>4 DEF NoteInv
<1>3. ASSUME NEW j \in Jobs, NEW r \in Reports, Note!Start(j, r) PROVE NoteInv'
  <2> DEFINE state == [pc |-> IF r.upsert THEN "list" ELSE "labels", report |-> r,
                       target |-> 0, todo |-> IF r.sync THEN r.codes \cap Catalog ELSE {}]
  <2>1. job' = [job EXCEPT ![j] = state] /\ UNCHANGED <<comments, written, blind>>
    BY <1>3 DEF Note!Start
  <2>2. state \in JobType /\ state.target = 0 /\ state.pc # "write"
    BY DEF JobType
  <2> HIDE DEF state
  <2> QED BY <2>1, <2>2, JobMoves
<1>4. ASSUME NEW j \in Jobs, Note!List(j) PROVE NoteInv'
  <2>1. job[j].pc = "list" /\ UNCHANGED <<comments, written, blind>>
    BY <1>4 DEF Note!List
  <2>2. PICK i \in Note!Found(Note!Page) \cup {0} :
               /\ \A k \in Note!Found(Note!Page) : i # 0 /\ i <= k
               /\ job' = [job EXCEPT ![j].pc = "write", ![j].target = i]
    BY <1>4 DEF Note!List
  <2> DEFINE state == [job[j] EXCEPT !.pc = "write", !.target = i]
  <2>3. job[j] \in JobType /\ job[j] # Note!Idle
    BY <1>0, <2>1
  <2>4. i \in Nat /\ (i = 0 \/ i \in Note!Marked) /\ (i = 0 => Note!Page \cap Note!Marked = {})
    BY <2>2 DEF Note!Found, Note!Page, NoteInv
  <2>5. job' = [job EXCEPT ![j] = state]
    BY <2>2, <2>3 DEF NoteInv, JobType
  <2>6. state \in JobType /\ state.target = i
    BY <2>3, <2>4 DEF JobType
  <2> HIDE DEF state
  <2> QED BY <2>1, <2>3, <2>4, <2>5, <2>6, JobMoves
<1>5. ASSUME NEW j \in Jobs, Note!Write(j) PROVE NoteInv'
  BY <1>5, NoteWrite
<1>6. ASSUME NEW j \in Jobs, job[j] \in JobType, job[j] # Note!Idle, UNCHANGED <<comments, written, blind>>,
             \/ job' = [job EXCEPT ![j] = Note!Idle]
             \/ \E pc \in {"labels", "create"}, todo \in SUBSET Catalog :
                  job' = [job EXCEPT ![j] = [job[j] EXCEPT !.pc = pc, !.todo = todo]]
      PROVE  NoteInv'
  <2>1. CASE job' = [job EXCEPT ![j] = Note!Idle]
    BY <1>00, <1>6, <2>1, JobMoves
  <2>2. ASSUME NEW pc \in {"labels", "create"}, NEW todo \in SUBSET Catalog,
               job' = [job EXCEPT ![j] = [job[j] EXCEPT !.pc = pc, !.todo = todo]]
        PROVE  NoteInv'
    <3> DEFINE state == [job[j] EXCEPT !.pc = pc, !.todo = todo]
    <3>1. state \in JobType /\ state.target = job[j].target /\ state.pc # "write"
      BY <1>6 DEF JobType
    <3>2. job' = [job EXCEPT ![j] = state]
      BY <2>2
    <3> HIDE DEF state
    <3> QED BY <1>6, <3>1, <3>2, JobMoves
  <2> QED BY <1>6, <2>1, <2>2
<1>7. ASSUME NEW j \in Jobs, NEW c \in Catalog, Note!SyncLabel(j, c) PROVE NoteInv'
  <2>1. job[j].pc = "labels" /\ UNCHANGED <<comments, written, blind>>
    BY <1>7 DEF Note!SyncLabel
  <2>2. job[j] \in JobType /\ job[j] # Note!Idle /\ job[j].todo \in SUBSET Catalog
    BY <1>0, <2>1 DEF JobType
  <2>3. CASE job' = [job EXCEPT ![j].todo = @ \ {c}]
    <3>1. [job[j] EXCEPT !.todo = @ \ {c}] = [job[j] EXCEPT !.pc = "labels", !.todo = job[j].todo \ {c}]
      BY <2>1, <2>2 DEF JobType
    <3> QED BY <1>6, <2>1, <2>2, <2>3, <3>1
  <2>4. CASE job' = [job EXCEPT ![j].pc = "create"]
    <3>1. [job[j] EXCEPT !.pc = "create"] = [job[j] EXCEPT !.pc = "create", !.todo = job[j].todo]
      BY <2>2 DEF JobType
    <3> QED BY <1>6, <2>1, <2>2, <2>4, <3>1
  <2> QED BY <1>7, <2>3, <2>4 DEF Note!SyncLabel, Note!Goto
<1>8. ASSUME NEW j \in Jobs, NEW c \in Catalog, Note!Create(j, c) PROVE NoteInv'
  <2>1. job[j].pc = "create" /\ UNCHANGED <<comments, written, blind>>
    BY <1>8 DEF Note!Create
  <2>2. job[j] \in JobType /\ job[j] # Note!Idle /\ job[j].todo \in SUBSET Catalog
    BY <1>0, <2>1 DEF JobType
  <2>3. CASE job' = [job EXCEPT ![j] = Note!Idle]
    BY <1>6, <2>1, <2>2, <2>3
  <2>4. CASE job' = [job EXCEPT ![j].pc = "labels", ![j].todo = @ \ {c}]
    <3>1. job' = [job EXCEPT ![j] = [job[j] EXCEPT !.pc = "labels", !.todo = job[j].todo \ {c}]]
      BY <2>2, <2>4 DEF NoteInv, JobType
    <3>2. job[j].todo \ {c} \in SUBSET Catalog
      BY <2>2
    <3> QED BY <1>6, <2>1, <2>2, <3>1, <3>2
  <2> QED BY <1>8, <2>3, <2>4 DEF Note!Create
<1>9. ASSUME NEW j \in Jobs, Note!Attach(j) PROVE NoteInv'
  <2>1. job[j].pc = "labels" /\ UNCHANGED <<comments, written, blind>> /\ job' = [job EXCEPT ![j] = Note!Idle]
    BY <1>9 DEF Note!Attach
  <2> QED BY <1>0, <1>6, <2>1
<1>10. ASSUME NEW j \in Jobs, Note!Fail(j) PROVE NoteInv'
  <2>1. job[j].pc # "idle" /\ UNCHANGED <<comments, written, blind>>
    BY <1>10 DEF Note!Fail
  <2>2. job[j] \in JobType /\ job[j] # Note!Idle /\ job[j].todo \in SUBSET Catalog
    BY <1>0, <2>1 DEF JobType
  <2>3. CASE job' = [job EXCEPT ![j].pc = "labels"]
    <3>1. [job[j] EXCEPT !.pc = "labels"] = [job[j] EXCEPT !.pc = "labels", !.todo = job[j].todo]
      BY <2>2 DEF JobType
    <3> QED BY <1>6, <2>1, <2>2, <2>3, <3>1
  <2>4. CASE job' = [job EXCEPT ![j] = Note!Idle]
    BY <1>6, <2>1, <2>2, <2>4
  <2>5. CASE job[j].pc = "labels" /\ \E c \in job[j].todo : job' = [job EXCEPT ![j].todo = @ \ {c}]
    <3>1. PICK c \in job[j].todo : job' = [job EXCEPT ![j].todo = @ \ {c}]
      BY <2>5
    <3>2. [job[j] EXCEPT !.todo = @ \ {c}] = [job[j] EXCEPT !.pc = "labels", !.todo = job[j].todo \ {c}]
      BY <2>2, <2>5 DEF JobType
    <3> QED BY <1>6, <2>1, <2>2, <3>1, <3>2
  <2> QED BY <1>10, <2>3, <2>4, <2>5 DEF Note!Fail, Note!Goto
<1>11. CASE UNCHANGED noteVars
  BY <1>11 DEF noteVars, Note!labels, NoteInv, Targets, Note!Marked, Note!Page
<1> QED BY <1>1, <1>2, <1>3, <1>4, <1>5, <1>7, <1>8, <1>9, <1>10, <1>11 DEF Note!Next

\* There is one comment of the gate, for any number of runs, comments and pages, wherever
\* they fail: but for one made blindly.
THEOREM OneCommentOfTheGate == Spec => []SingleComment
<1>1. NoteInv => SingleComment
  <2> SUFFICES ASSUME NoteInv, ~blind PROVE Cardinality(Note!Marked) <= 1
    BY NoteCounts DEF SingleComment, Note!SingleComment
  <2>1. CASE Note!Marked = {}
    <3>1. Cardinality({}) = 0
      BY FS_EmptySet
    <3> QED BY <2>1, <3>1
  <2>2. CASE Note!Marked # {}
    <3>1. PICK i : i \in Note!Marked
      BY <2>2
    <3>2. Note!Marked = {i}
      BY <3>1 DEF NoteInv
    <3>3. Cardinality({i}) = 1
      BY FS_Singleton
    <3> QED BY <3>2, <3>3
  <2> QED BY <2>1, <2>2
<1> QED BY NoteInit, NoteStep, <1>1, PTL DEF Spec

-----------------------------------------------------------------------------
(* RotationBot *)

NoticeType == [kind : {"pr", "issue"}, day : Days, labels : SUBSET Countdown]

BotRun == [pc : {"start", "push", "open", "label", "issue"}, day : Days, labels : SUBSET Countdown,
           able : BOOLEAN, fallback : BOOLEAN]

\* Besides, a run that is about to set labels has its pull request of the day.
BotInv ==
  /\ notices \subseteq NoticeType /\ kept = TRUE
  /\ bot = Bot!Idle \/ bot \in BotRun
  /\ bot.pc = "label" => \E n \in notices : n.kind = "pr" /\ n.day = bot.day

LEMMA BotInit == Init => BotInv
BY DEF Init, Bot!Init, BotInv, Bot!Idle

\* A request that fails ends the run, or turns it to the issue.
LEMMA FailureKeeps ==
  ASSUME BotInv, bot.pc \in {"push", "open", "label", "issue"}, Bot!RequestFails PROVE BotInv'
<1>1. bot \in BotRun /\ notices' = notices /\ notices \subseteq NoticeType /\ kept = TRUE
  BY DEF BotInv, Bot!RequestFails, Bot!Idle
<1>2. CASE bot.pc \in {"open", "label"} /\ bot.fallback
  <2>1. bot' = [bot EXCEPT !.pc = "issue"] /\ UNCHANGED kept
    BY <1>2 DEF Bot!RequestFails, Bot!AfterFailure
  <2>2. bot' \in BotRun /\ bot'.pc = "issue"
    BY <1>1, <2>1 DEF BotRun
  <2> QED BY <1>1, <2>1, <2>2 DEF BotInv
<1>3. CASE ~(bot.pc \in {"open", "label"} /\ bot.fallback)
  <2>1. bot' = Bot!Idle /\ UNCHANGED kept
    BY <1>3 DEF Bot!RequestFails, Bot!AfterFailure
  <2> QED BY <1>1, <2>1 DEF BotInv, Bot!Idle
<1> QED BY <1>2, <1>3

LEMMA BotStep == BotInv /\ [Next]_vars => BotInv'
<1> SUFFICES ASSUME BotInv, Bot!Next \/ UNCHANGED botVars PROVE BotInv'
  BY DEF Next, vars
<1> USE DEF BotInv, NoticeType, Bot!Idle
<1>1. ASSUME NEW d \in Days, NEW wanted \in SUBSET Countdown, NEW able \in BOOLEAN, NEW fallback \in BOOLEAN,
             Bot!BotStart(d, wanted, able, fallback)
      PROVE  BotInv'
  BY <1>1 DEF Bot!BotStart, BotRun
<1>2. CASE Bot!Push \/ Bot!BotGoes
  <2>1. PICK pc \in {"push", "open"} : bot' = [bot EXCEPT !.pc = pc] /\ UNCHANGED <<notices, kept>>
    BY <1>2 DEF Bot!Push, Bot!BotGoes
  <2>2. bot \in BotRun
    <3>1. bot.pc \in {"push", "start"}
      BY <1>2 DEF Bot!Push, Bot!BotGoes
    <3> QED BY <3>1
  <2>3. bot' \in BotRun /\ bot'.pc = pc
    BY <2>1, <2>2 DEF BotRun
  <2> QED BY <2>1, <2>3
<1>8. CASE Bot!BotSkips
  <2>1. /\ ~Bot!IsToTell(bot) /\ bot' = Bot!Idle /\ notices' = notices
        /\ kept' = (kept /\ (Bot!IsToTell(bot) => \E n \in notices' : n.day = bot.day /\ bot.labels \subseteq n.labels))
    BY <1>8 DEF Bot!BotSkips, Bot!BotEnds
  <2>2. kept' = TRUE
    BY <2>1, Zenon
  <2> QED BY <2>1, <2>2
<1>3. CASE Bot!OpenPr
  <2> DEFINE request == [kind |-> "pr", day |-> bot.day, labels |-> {}]
             there == \E n \in notices : n.kind = "pr" /\ n.day = bot.day
  <2>1. /\ bot.pc = "open"
        /\ IF there THEN Bot!RequestFails
           ELSE notices' = notices \cup {request} /\ bot' = [bot EXCEPT !.pc = "label"] /\ UNCHANGED kept
    BY <1>3 DEF Bot!OpenPr
  <2>2. request \in NoticeType /\ request.kind = "pr" /\ request.day = bot.day
    BY <2>1 DEF BotRun
  <2>3. /\ [bot EXCEPT !.pc = "label"] \in BotRun
        /\ [bot EXCEPT !.pc = "label"].day = bot.day /\ [bot EXCEPT !.pc = "label"].pc = "label"
    BY <2>1 DEF BotRun
  <2> HIDE DEF request
  <2>4. CASE there
    BY <2>1, <2>4, FailureKeeps
  <2>5. CASE ~there
    BY <2>1, <2>2, <2>3, <2>5
  <2> QED BY <2>4, <2>5
<1>4. CASE Bot!LabelPr
  <2> DEFINE pr == CHOOSE n \in notices : n.kind = "pr" /\ n.day = bot.day
             labelled == [pr EXCEPT !.labels = @ \cup bot.labels]
  <2>1. pr \in notices /\ pr.kind = "pr" /\ pr.day = bot.day
    BY <1>4 DEF Bot!LabelPr
  <2>2. /\ notices' = (notices \ {pr}) \cup {labelled} /\ bot' = Bot!Idle
        /\ kept' = (kept /\ (Bot!IsToTell(bot) => \E n \in notices' : n.day = bot.day /\ bot.labels \subseteq n.labels))
    BY <1>4 DEF Bot!LabelPr, Bot!BotEnds
  <2> HIDE DEF pr
  <2>3. labelled \in NoticeType /\ labelled.day = bot.day /\ bot.labels \subseteq labelled.labels
    BY <2>1, <1>4 DEF Bot!LabelPr, BotRun
  <2> HIDE DEF labelled
  <2> QED BY <2>2, <2>3
<1>5. CASE Bot!BotFail
  BY <1>5, FailureKeeps DEF Bot!BotFail
<1>6. CASE Bot!OpenIssue
  <2> DEFINE issue == [kind |-> "issue", day |-> bot.day, labels |-> bot.labels]
  <2>1. /\ notices' = notices \cup {issue} /\ bot' = Bot!Idle
        /\ kept' = (kept /\ (Bot!IsToTell(bot) => \E n \in notices' : n.day = bot.day /\ bot.labels \subseteq n.labels))
    BY <1>6 DEF Bot!OpenIssue, Bot!BotEnds
  <2>2. issue \in NoticeType /\ issue.day = bot.day /\ bot.labels \subseteq issue.labels
    BY <1>6 DEF Bot!OpenIssue, BotRun
  <2> HIDE DEF issue
  <2> QED BY <2>1, <2>2
<1>7. CASE UNCHANGED botVars
  BY <1>7 DEF botVars
<1> QED BY <1>1, <1>2, <1>3, <1>4, <1>5, <1>6, <1>7, <1>8 DEF Bot!Next

\* Whichever of its requests fail, and on whatever days it ran before, a run of the bot
\* that was to tell of keys and ends well has left a notice with all its labels.
THEOREM EveryGoodRunLeavesItsNotice == Spec => []ExpiryIsTold
<1>1. BotInv => ExpiryIsTold
  BY DEF BotInv, ExpiryIsTold, Bot!ExpiryIsTold
<1> QED BY BotInit, BotStep, <1>1, PTL DEF Spec

-----------------------------------------------------------------------------
(* CardsDelta *)

IsMap(f) == f = [k \in DOMAIN f |-> f[k]]

\* The copy is what was sent; under way is the delta from one to the other.
PatchInv == /\ IsMap(sent)
            /\ delta = Patch!NoDelta => copy = sent
            /\ delta # Patch!NoDelta => delta = Patch!Delta(copy, sent)

\* apply_cards_delta undoes compute_cards_delta (etag_delta.py:11-108).
LEMMA RoundTrip ==
  ASSUME NEW was, NEW now, IsMap(now)
  PROVE  Patch!Apply(was, Patch!Delta(was, now)) = now
<1> DEFINE d == Patch!Delta(was, now)
<1>1. /\ d.added = [k \in DOMAIN now \ DOMAIN was |-> now[k]]
      /\ d.removed = DOMAIN was \ DOMAIN now
      /\ d.updated = [k \in {x \in DOMAIN now \cap DOMAIN was : now[x] # was[x]} |-> now[k]]
  BY DEF Patch!Delta, Patch!Restrict
<1> HIDE DEF d
<1>2. DOMAIN Patch!Apply(was, d) = DOMAIN now
  BY <1>1 DEF Patch!Apply
<1>3. ASSUME NEW k \in DOMAIN now PROVE Patch!Apply(was, d)[k] = now[k]
  BY <1>1 DEF Patch!Apply
<1>4. Patch!Apply(was, d) = [k \in DOMAIN Patch!Apply(was, d) |-> Patch!Apply(was, d)[k]]
  BY DEF Patch!Apply
<1>5. Patch!Apply(was, d) = now
  BY <1>2, <1>3, <1>4 DEF IsMap
<1> QED BY <1>5 DEF d

\* A delta has fields that NoDelta has not.
LEMMA DeltaIsThere ==
  ASSUME NEW was, NEW now PROVE Patch!Delta(was, now) # Patch!NoDelta
<1>1. DOMAIN Patch!Delta(was, now) = {"added", "removed", "updated"}
  BY DEF Patch!Delta
<1>2. DOMAIN Patch!NoDelta = {"removed"}
  BY DEF Patch!NoDelta
<1> QED BY <1>1, <1>2

LEMMA PatchInit == Init => PatchInv
BY DEF Init, Patch!Init, PatchInv, IsMap, Patch!NoCards

LEMMA PatchStep == PatchInv /\ [Next]_vars => PatchInv'
<1> SUFFICES ASSUME PatchInv, Patch!Next \/ UNCHANGED patchVars PROVE PatchInv'
  BY DEF Next, vars
<1> USE DEF PatchInv
<1>1. ASSUME NEW card \in Patch!Card, Patch!Add(card) PROVE PatchInv'
  BY <1>1 DEF Patch!Add, Patch!Edit, IsMap
<1>2. CASE Patch!Drop
  BY <1>2 DEF Patch!Drop, Patch!Edit, IsMap
<1>3. CASE Patch!Break
  BY <1>3 DEF Patch!Break, IsMap
<1>4. CASE Patch!Send
  <2>1. /\ delta' = Patch!Delta(copy, Patch!Index(cards)) /\ sent' = Patch!Index(cards) /\ copy' = copy
    BY <1>4 DEF Patch!Send
  <2>2. delta' # Patch!NoDelta
    BY <2>1, DeltaIsThere
  <2>3. IsMap(Patch!Index(cards))
    BY DEF IsMap, Patch!Index
  <2> QED BY <2>1, <2>2, <2>3
<1>5. CASE Patch!Receive
  <2>1. /\ delta = Patch!Delta(copy, sent) /\ delta' = Patch!NoDelta
        /\ copy' = Patch!Apply(copy, delta) /\ sent' = sent
    BY <1>5 DEF Patch!Receive
  <2>2. copy' = sent'
    BY <2>1, RoundTrip
  <2> QED BY <2>1, <2>2
<1>6. CASE UNCHANGED patchVars
  BY <1>6 DEF patchVars, IsMap
<1> QED BY <1>1, <1>2, <1>3, <1>4, <1>5, <1>6 DEF Patch!Next

\* A client that keeps its copy by deltas has exactly the cards of the last one, for any
\* cards, bodies and lengths of the list.
THEOREM DeltasAreExact == Spec => []CopyIsExact
<1>1. PatchInv => CopyIsExact
  BY DEF PatchInv, CopyIsExact, Patch!CopyIsExact
<1> QED BY PatchInit, PatchStep, <1>1, PTL DEF Spec

-----------------------------------------------------------------------------
(* Consent *)

GrantsOf(list, d)  == {i \in 1..Len(list) : list[i].doc = d}
RevokedOf(list, d) == {i \in 1..Len(list) : list[i].doc = d /\ list[i].revoked}

\* The counts are those of the records.
AgreeInv ==
  /\ today \in Nat
  /\ records \in Seq([doc : Docs, at : Nat, term : Terms, revoked : BOOLEAN])
  /\ granted \in [Docs -> Nat] /\ revoked \in [Docs -> Nat]
  /\ \A d \in Docs : /\ granted[d] = Cardinality(GrantsOf(records, d))
                     /\ revoked[d] = Cardinality(RevokedOf(records, d))

LEMMA RecordsAreFinite ==
  ASSUME NEW list, Len(list) \in Nat, NEW d
  PROVE  IsFiniteSet(GrantsOf(list, d)) /\ IsFiniteSet(RevokedOf(list, d))
<1>1. IsFiniteSet(1..Len(list))
  BY FS_Interval
<1>2. GrantsOf(list, d) \in SUBSET (1..Len(list)) /\ RevokedOf(list, d) \in SUBSET (1..Len(list))
  BY DEF GrantsOf, RevokedOf
<1> QED BY <1>1, <1>2, FS_Subset

\* A service that begins has no records.
LEMMA NoRecords ==
  /\ <<>> \in Seq([doc : Docs, at : Nat, term : Terms, revoked : BOOLEAN])
  /\ \A d : Cardinality(GrantsOf(<<>>, d)) = 0 /\ Cardinality(RevokedOf(<<>>, d)) = 0
<1>1. \A d : GrantsOf(<<>>, d) = {} /\ RevokedOf(<<>>, d) = {}
  BY DEF GrantsOf, RevokedOf
<1> QED BY <1>1, FS_EmptySet

LEMMA AgreeInit == Init => AgreeInv
BY NoRecords DEF Init, Agree!Init, AgreeInv

LEMMA AgreeStep == AgreeInv /\ [Next]_vars => AgreeInv'
<1> SUFFICES ASSUME AgreeInv, Agree!Next \/ UNCHANGED agreeVars PROVE AgreeInv'
  BY DEF Next, vars
<1> DEFINE R == [doc : Docs, at : Nat, term : Terms, revoked : BOOLEAN]
<1>0. records \in Seq(R) /\ Len(records) \in Nat
  BY DEF AgreeInv
<1>1. CASE Agree!Pass
  BY <1>1 DEF Agree!Pass, AgreeInv
<1>2. CASE Agree!Restart
  BY <1>2, NoRecords DEF Agree!Restart, AgreeInv
<1>3. ASSUME NEW doc \in Docs, NEW term \in Terms, Agree!Grant(doc, term) PROVE AgreeInv'
  <2> DEFINE r == Agree!Record(doc, term)
             n == Len(records) + 1
  <2>1. /\ records' = Append(records, r) /\ granted' = [granted EXCEPT ![doc] = @ + 1]
        /\ UNCHANGED <<today, revoked>>
    BY <1>3 DEF Agree!Grant
  <2>2. r \in R /\ r.doc = doc /\ r.revoked = FALSE
    BY DEF Agree!Record, AgreeInv
  <2> HIDE DEF r, R
  <2>3. /\ records' \in Seq(R) /\ Len(records') = n /\ n \in Nat \ (1..Len(records)) /\ records'[n] = r
        /\ \A i \in 1..Len(records) : records'[i] = records[i]
        /\ 1..n = 1..Len(records) \cup {n}
    BY <1>0, <2>1, <2>2
  <2> HIDE DEF n
  <2>4. \A d : RevokedOf(records', d) = RevokedOf(records, d)
    BY <2>2, <2>3 DEF RevokedOf
  <2>5. \A d : GrantsOf(records', d) = IF d = doc THEN GrantsOf(records, d) \cup {n} ELSE GrantsOf(records, d)
    BY <2>2, <2>3 DEF GrantsOf
  <2>6. n \notin GrantsOf(records, doc) /\ IsFiniteSet(GrantsOf(records, doc))
    BY <2>3, <1>0, RecordsAreFinite DEF GrantsOf
  <2>7. Cardinality(GrantsOf(records', doc)) = Cardinality(GrantsOf(records, doc)) + 1
    BY <2>5, <2>6, FS_AddElement
  <2> QED BY <2>1, <2>3, <2>4, <2>5, <2>7 DEF AgreeInv, R
<1>4. ASSUME NEW doc \in Docs, Agree!Revoke(doc) PROVE AgreeInv'
  <2>1. PICK i \in Agree!ToRevoke(doc) : records' = [records EXCEPT ![i].revoked = TRUE]
    BY <1>4 DEF Agree!Revoke
  <2>2. revoked' = [revoked EXCEPT ![doc] = @ + 1] /\ UNCHANGED <<today, granted>>
    BY <1>4 DEF Agree!Revoke
  <2>3. i \in 1..Len(records) /\ records[i].doc = doc /\ ~records[i].revoked
    BY <1>0 DEF Agree!ToRevoke
  <2> DEFINE r == [records[i] EXCEPT !.revoked = TRUE]
  <2>4. r \in R /\ r.doc = doc /\ r.revoked = TRUE
    <3>1. records[i] \in R
      <4> HIDE DEF R
      <4> QED BY <1>0, <2>3
    <3> QED BY <2>3, <3>1
  <2>5. records' = [records EXCEPT ![i] = r]
    BY <2>1
  <2> HIDE DEF r, R
  <2>6. /\ records' \in Seq(R) /\ Len(records') = Len(records) /\ records'[i] = r
        /\ \A j \in 1..Len(records) : j # i => records'[j] = records[j]
    BY <1>0, <2>3, <2>4, <2>5
  <2>7. \A d : GrantsOf(records', d) = GrantsOf(records, d)
    BY <2>3, <2>4, <2>6 DEF GrantsOf
  <2>8. \A d : RevokedOf(records', d) = IF d = doc THEN RevokedOf(records, d) \cup {i} ELSE RevokedOf(records, d)
    BY <2>3, <2>4, <2>6 DEF RevokedOf
  <2>9. i \notin RevokedOf(records, doc) /\ IsFiniteSet(RevokedOf(records, doc))
    BY <2>3, <1>0, RecordsAreFinite DEF RevokedOf
  <2>10. Cardinality(RevokedOf(records', doc)) = Cardinality(RevokedOf(records, doc)) + 1
    BY <2>8, <2>9, FS_AddElement
  <2>11. revoked' \in [Docs -> Nat] /\ revoked'[doc] = revoked[doc] + 1 /\ \A d \in Docs \ {doc} : revoked'[d] = revoked[d]
    BY <2>2 DEF AgreeInv
  <2>12. \A d \in Docs : revoked'[d] = Cardinality(RevokedOf(records', d))
    BY <2>8, <2>10, <2>11 DEF AgreeInv
  <2> QED BY <2>2, <2>6, <2>7, <2>11, <2>12 DEF AgreeInv, R
<1>5. CASE UNCHANGED agreeVars
  BY <1>5 DEF agreeVars, AgreeInv
<1> QED BY <1>1, <1>2, <1>3, <1>4, <1>5 DEF Agree!Next

\* Who revokes as often as they grant leaves no consent, in whatever order, for any
\* documents and terms and whatever is over meanwhile.
THEOREM RevocationsCount == Spec => []RevokedIsGone
<1>1. AgreeInv => RevokedIsGone
  <2> SUFFICES ASSUME AgreeInv, NEW i \in Agree!Listed
               PROVE  revoked[records[i].doc] < granted[records[i].doc]
    BY DEF RevokedIsGone, Agree!RevokedIsGone
  <2> DEFINE R == [doc : Docs, at : Nat, term : Terms, revoked : BOOLEAN]
             d == records[i].doc
             all == GrantsOf(records, d)
             gone == RevokedOf(records, d)
  <2>1. i \in 1..Len(records) /\ ~records[i].revoked /\ d \in Docs /\ Len(records) \in Nat
    <3>1. records \in Seq(R) /\ i \in 1..Len(records) /\ ~records[i].revoked
      BY DEF AgreeInv, Agree!Listed
    <3>2. records[i] \in R /\ Len(records) \in Nat
      <4> HIDE DEF R
      <4> QED BY <3>1
    <3> QED BY <3>1, <3>2
  <2>2. gone \in SUBSET all /\ i \in all /\ i \notin gone
    BY <2>1 DEF GrantsOf, RevokedOf
  <2>3. IsFiniteSet(all) /\ IsFiniteSet(gone)
    BY <2>1, RecordsAreFinite
  <2>4. Cardinality(all) \in Nat /\ Cardinality(gone) \in Nat
    BY <2>3, FS_CardinalityType
  <2>5. Cardinality(gone) <= Cardinality(all) /\ Cardinality(gone) # Cardinality(all)
    BY <2>2, <2>3, FS_Subset
  <2>6. revoked[d] = Cardinality(gone) /\ granted[d] = Cardinality(all)
    BY <2>1 DEF AgreeInv
  <2> QED BY <2>4, <2>5, <2>6
<1> QED BY AgreeInit, AgreeStep, <1>1, PTL DEF Spec

-----------------------------------------------------------------------------
(* Executor *)

\* What nobody allows to be repeated is sent once.
ExecInv ==
  decision.idempotent \/ decision.declared \/ decision.allowed
    \/ (attempt = 0 /\ effects \in {0, 1} /\ (outcome = "none" => effects = 0))

LEMMA ExecInit == Init => ExecInv
BY DEF Init, Exec!Init, ExecInv

LEMMA ExecStep == ExecInv /\ [Next]_vars => ExecInv'
<1> SUFFICES ASSUME ExecInv, Exec!Next \/ UNCHANGED execVars PROVE ExecInv'
  BY DEF Next, vars
<1>1. CASE Exec!Next
  BY <1>1 DEF ExecInv, Exec!Next, Exec!Attempt, Exec!RetriesOf
<1>2. CASE UNCHANGED execVars
  BY <1>2 DEF ExecInv, execVars
<1> QED BY <1>1, <1>2

\* However many answers are lost, a request that may not be repeated takes effect at
\* most once.
THEOREM NoRequestIsRepeatedUnasked == Spec => []NoUnaskedRepeat
<1>1. ExecInv => NoUnaskedRepeat
  BY DEF ExecInv, NoUnaskedRepeat, Exec!NoUnaskedRepeat
<1> QED BY ExecInit, ExecStep, <1>1, PTL DEF Spec

=============================================================================
