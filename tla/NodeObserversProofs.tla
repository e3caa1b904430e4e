------------------------ MODULE NodeObserversProofs ------------------------
(***************************************************************************)
(* Proofs about NodeObservers, for buffers, metadata and addresses of any  *)
(* size.                                                                   *)
(*                                                                         *)
(* A step of NodeObservers is a step of NodeLifecycle or leaves the node   *)
(* alone, so the invariants of the node hold here too; what an observer    *)
(* sees follows from where the run goroutine is when it is told.           *)
(***************************************************************************)
EXTENDS NodeObservers, NodeLifecycleProofs

USE DEF WaiterStates, Awake, Decides

---------------------------------------------------------------------------
(* The invariant *)

\* There is one life, and the goroutine of that life closes its channel last.
LifeInv ==
    /\ cGen = gen
    /\ cGen = 0 => state = "Init"
    /\ 1 \in stoppedClosed => at[1] = "done"
    /\ 1 \in stopClosed => caller = "waiting" \/ (~up /\ at[1] = "done")

\* Where the goroutine is when the node has a part in a cluster, and whom it has
\* told of it.
RoleInv ==
    /\ role[1] # "none" => at[1] \in {"announce", "exit", "done"}
    /\ at[1] = "announce" => role[1] # "none"
    /\ told # "nobody" => role[1] # "none"

\* The node has a cluster and everybody has been told.
Ready == role[1] # "none" /\ told = "all"

\* Whoever learns that the node is running learns it from a change made by the
\* goroutine after it has told everybody.
ReadyInv ==
    /\ state = "Running" => Ready
    /\ waiter[1] \in Decides \cup {"called"} => Ready
    /\ app = "ready" => Ready
    /\ change # <<>> /\ change[2] = "Running" => Ready
    /\ \A i \in 1..Len(queue) : queue[i][2] = "Running" => Ready

BrowserInv ==
    /\ follow # "browser" => ~started /\ ~bootstrapped
    /\ ~started => shown = "nothing"
    /\ bootstrapped => told # "nobody"
    /\ shown = "bootstrapped=1" => role[1] # "none"
    /\ told # "nobody" => shown # "bootstrapped=0"
    /\ 1 \in stopClosed /\ caller # "waiting" => shown = "nothing"

\* An encoding that has the address of a Raft that runs has the flag.
Consistent(f) == f.raft = "real" => f.boot

MetaInv ==
    /\ DOMAIN encoded = Updaters
    /\ Consistent(fields)
    /\ \A u \in Updaters : encoded[u] # <<>> => Consistent(encoded[u])
    /\ published # <<>> => Consistent(published)
    /\ told = "gossip" => follow = "peers"
    /\ told \in {"gossip", "all"} /\ follow = "peers" => fields.boot

\* The account a subscriber gets, link by link.
Linked ==
    /\ queue # <<>> => queue[1][1] = base
    /\ \A i \in 1..(Len(queue) - 1) : queue[i][2] = queue[i + 1][1]
    /\ LET latest == IF queue = <<>> THEN base ELSE queue[Len(queue)][2]
       IN  latest = IF change = <<>> THEN state ELSE change[1]

AccountInv ==
    /\ follow # "application" => app = "idle" /\ change = <<>>
    /\ app \in {"idle", "read"} => queue = <<>>
    /\ up \/ cGen = 0 =>
          /\ change # <<>> => change[2] = state
          /\ app = "subscribed" => Linked

OInv == LifeInv /\ RoleInv /\ ReadyInv /\ BrowserInv /\ MetaInv /\ AccountInv

---------------------------------------------------------------------------
(* The node in NodeObservers is the node of NodeLifecycle *)

LEMMA StepProjects ==
  ASSUME [ONext]_allVars
  PROVE  [Next]_vars
<1>1. CASE Environment
  BY <1>1 DEF Environment, Application, SetAppMetadata, Next, oVars
<1>2. CASE OStart \/ OStopRaft \/ OStop \/ OStopFinish
  BY <1>2 DEF OStart, OStopRaft, OStop, OStopFinish, Next
<1>3. CASE Poll \/ AppMetadataSet \/ Waiting
  BY <1>3 DEF Poll, AppMetadataSet, Waiting
<1>4. ASSUME NEW g \in Gens, RunGoroutine(g)
      PROVE  [Next]_vars
  BY <1>4 DEF RunGoroutine, ORun, OBroadcast, TellMDNS, TellGossip, Next
<1>5. ASSUME NEW g \in Gens, OWaiter(g) \/ OCallback(g) \/ Reconcile(g)
      PROVE  [Next]_vars
  BY <1>5 DEF OWaiter, OCallback, CallbackStep, SetRaftAddr, Waiter, Next
<1>6. CASE UNCHANGED allVars
  BY <1>6 DEF allVars
<1> QED BY <1>1, <1>2, <1>3, <1>4, <1>5, <1>6 DEF ONext

\* Nothing an observer does changes what the node may do: each behaviour here is
\* one of NodeLifecycle, whose theorems hold here as well.
THEOREM ObserversWatchOnly == OSpec => Spec
<1>1. OInit => Init
  BY DEF OInit
<1>2. [ONext]_allVars => [Next]_vars
  BY StepProjects
<1> QED BY <1>1, <1>2, PTL DEF OSpec, Spec

---------------------------------------------------------------------------
(* The one life *)

LEMMA OnlyLife == Gens = {1} /\ 1 \in Gens /\ \A g \in Gens : g = 1
  BY ObserversAssumption DEF Gens

LEMMA LifeFrame ==
  ASSUME LifeInv, UNCHANGED <<cGen, gen, state, stoppedClosed, stopClosed, at, up, caller>>
  PROVE  LifeInv'
  BY DEF LifeInv

LEMMA LifeStep ==
  ASSUME Inv, LifeInv, [Next]_vars
  PROVE  LifeInv'
<1>0. /\ gen \in 0..1 /\ cGen \in 0..1 /\ at \in [Gens -> B!Locations] /\ 1 \in Gens
      /\ stoppedClosed \subseteq 1..gen
      /\ gen = 0 => at[1] = "none"
  BY OnlyLife, ObserversAssumption DEF Inv, TypeOK, B!BTypeOK, B!Gens, Gens, LoopInv
<1>1. CASE Start
  <2>1. cGen = 0 /\ gen = 0 /\ cGen' = 1 /\ caller = "idle" /\ caller' = "idle"
    BY <1>0, <1>1, ObserversAssumption DEF Start, LifeInv
  <2>2. B!BStart
    BY <1>1, <2>1 DEF Start, B!MayStart, LifeInv
  <2>3. gen' = 1 /\ UNCHANGED <<stoppedClosed, stopClosed>>
    BY <2>1, <2>2 DEF B!BStart
  <2>4. 1 \notin stoppedClosed /\ 1 \notin stopClosed
    BY <1>0, <2>1 DEF LifeInv
  <2> QED BY <2>1, <2>3, <2>4 DEF LifeInv
<1>2. CASE StopRaft
  <2>1. UNCHANGED <<cGen, gen, state, stoppedClosed, stopClosed, at, up>> /\ caller = "idle"
    BY <1>2 DEF StopRaft, bVars
  <2> QED BY <2>1 DEF LifeInv
<1>3. CASE StopConsensus
  <2>1. UNCHANGED <<cGen, gen, state, stoppedClosed, at>> /\ caller = "raftDown"
    BY <1>3 DEF StopConsensus, B!BStopSignal, bVars
  <2>2. \/ caller' = "waiting"
        \/ stopClosed' = stopClosed /\ ~up'
    BY <1>3 DEF StopConsensus, bVars
  <2> QED BY <2>1, <2>2 DEF LifeInv
<1>4. CASE StopFinish
  <2>1. /\ UNCHANGED <<cGen, gen, stopClosed, stoppedClosed, at>> /\ caller = "waiting"
        /\ up' = FALSE /\ gen \in stoppedClosed
    BY <1>4 DEF StopFinish, B!BStopFinish
  <2>2. gen = 1
    BY <1>0, <2>1
  <2> QED BY <2>1, <2>2 DEF LifeInv
<1>5. ASSUME NEW g \in Gens, RunLoop(g)
      PROVE  LifeInv'
  <2>1. g = 1 /\ UNCHANGED <<cGen, gen, stopClosed, up, caller>> /\ at[1] \notin {"none", "done"}
    BY <1>0, <1>5, OnlyLife, Frames, RunLoopState DEF nVars
  <2>2. gen = 1 /\ 1 \notin stoppedClosed
    BY <1>0, <2>1 DEF LifeInv
  <2>3. 1 \in stoppedClosed' => at'[1] = "done"
    BY <1>0, <1>5, <2>1, <2>2, RunLoopMoves DEF B!Enter, B!Exit, B!Goto, Moves
  <2> QED BY <2>1, <2>2, <2>3 DEF LifeInv
<1>6. CASE CancelContext \/ Persist
  BY <1>6, LifeFrame DEF CancelContext, B!Cancel, Persist, bVars, nVars
<1>7. ASSUME NEW g \in Gens, Waiter(g) \/ Callback(g) \/ Reconcile(g)
      PROVE  LifeInv'
  BY <1>7, LifeFrame DEF Waiter, WaiterStops, WaiterTicks, AskDidBootstrap, OnBootstrapComplete,
     Callback, Reconcile, bVars, nVars
<1>8. CASE UNCHANGED vars
  BY <1>8, LifeFrame DEF vars, bVars, nVars
<1> QED BY <1>1, <1>2, <1>3, <1>4, <1>5, <1>6, <1>7, <1>8 DEF Next

\* The goroutine has a role from the step on that leads to its announcement.
LEMMA RunLoopRole ==
  ASSUME NEW g \in Gens, RunLoop(g), at \in [Gens -> B!Locations],
         role \in [Gens -> {"none", "founder", "member"}]
  PROVE  /\ role[g] # "none" => role'[g] # "none"
         /\ role[g] = "none" => (role'[g] # "none" <=> at'[g] = "announce")
  BY DEF RunLoop, B!Run, B!Enter, B!StartMDNSAdvertiser, B!StartGossip, B!Head, B!TryJoin,
         B!Joined, B!FoundCluster, B!Retry, B!Backoff, B!Announce, B!Exit, B!Goto

\* The steps of the node that say nothing to setBootstrapped.
NodeStep ==
    \/ UNCHANGED <<at, role, told>>
    \/ \E g \in Gens : RunLoop(g) /\ Announced(g) /\ told' = told
    \/ B!BStart /\ told' = told

\* setBootstrapped is under way.
TellStep ==
    /\ at[1] = "announce"
    /\ UNCHANGED <<at, role>>
    /\ \/ told = "nobody" /\ told' = "mdns"
       \/ told = "mdns" /\ told' \in {"gossip", "all"}
       \/ told = "gossip" /\ told' = "all"

LEMMA StepTells ==
  ASSUME Inv, [ONext]_allVars
  PROVE  NodeStep \/ TellStep
<1>1. CASE Environment \/ Poll \/ AppMetadataSet \/ Waiting
  BY <1>1 DEF Environment, CancelContext, B!Cancel, Persist, Application, SetAppMetadata, Poll,
     AppMetadataSet, Waiting, vars, bVars, oVars, NodeStep
<1>2. CASE OStart
  BY <1>2 DEF OStart, Start, bVars, NodeStep, B!BStart
<1>3. CASE OStopRaft \/ OStop \/ OStopFinish
  BY <1>3 DEF OStopRaft, StopRaft, OStop, StopConsensus, B!BStopSignal, OStopFinish, StopFinish,
     B!BStopFinish, bVars, oVars, NodeStep
<1>4. ASSUME NEW g \in Gens, ORun(g) \/ OBroadcast
      PROVE  NodeStep
  BY <1>4 DEF ORun, OBroadcast, vars, bVars, NodeStep
<1>5. ASSUME NEW g \in Gens, TellMDNS(g) \/ TellGossip(g)
      PROVE  TellStep
  BY <1>5, OnlyLife DEF TellMDNS, TellGossip, vars, bVars, TellStep
<1>6. ASSUME NEW g \in Gens, OWaiter(g) \/ OCallback(g)
      PROVE  NodeStep
  BY <1>6 DEF OWaiter, OCallback, CallbackStep, WaiterStops, WaiterTicks, AskDidBootstrap,
     OnBootstrapComplete, Callback, SetRaftAddr, vars, bVars, oVars, NodeStep
<1>7. ASSUME NEW g \in Gens, Reconcile(g) /\ UNCHANGED oVars
      PROVE  NodeStep
  BY <1>7 DEF Reconcile, bVars, oVars, NodeStep
<1>8. CASE UNCHANGED allVars
  BY <1>8 DEF allVars, vars, bVars, oVars, NodeStep
<1> QED BY <1>1, <1>2, <1>3, <1>4, <1>5, <1>6, <1>7, <1>8 DEF ONext, RunGoroutine

LEMMA RoleStep ==
  ASSUME Inv, RoleInv, [ONext]_allVars
  PROVE  RoleInv' /\ (role[1] # "none" => role'[1] # "none")
<1>0. /\ at \in [Gens -> B!Locations] /\ role \in [Gens -> {"none", "founder", "member"}]
      /\ 1 \in Gens
  BY OnlyLife DEF Inv, TypeOK, B!BTypeOK, B!Gens, Gens
<1>1. CASE UNCHANGED <<at, role, told>>
  BY <1>1 DEF RoleInv
<1>2. ASSUME NEW g \in Gens, RunLoop(g), told' = told
      PROVE  RoleInv' /\ (role[1] # "none" => role'[1] # "none")
  <2>1. g = 1
    BY OnlyLife
  <2>2. /\ role[1] # "none" => role'[1] # "none"
        /\ role[1] = "none" => (role'[1] # "none" <=> at'[1] = "announce")
    BY <1>0, <1>2, <2>1, RunLoopRole
  <2>3. role[1] # "none" => at'[1] \in {"exit", "done"}
    BY <1>0, <1>2, <2>1, RunLoopStays DEF RoleInv
  <2> QED BY <1>2, <2>2, <2>3 DEF RoleInv
<1>3. CASE B!BStart /\ told' = told
  <2>1. gen = 0 /\ at' = [at EXCEPT ![1] = "spawned"] /\ role' = role
    <3>1. gen \in 0..MaxStarts /\ gen < MaxStarts
      BY <1>3 DEF B!BStart, Inv, TypeOK, B!BTypeOK
    <3>2. gen = 0 /\ gen + 1 = 1
      BY <3>1, ObserversAssumption
    <3> QED BY <1>3, <3>2 DEF B!BStart
  <2>2. at[1] = "none"
    BY <1>0, <2>1 DEF Inv, LoopInv
  <2> QED BY <1>0, <1>3, <2>1, <2>2 DEF RoleInv
<1>4. CASE TellStep
  BY <1>4 DEF TellStep, RoleInv
<1> QED BY <1>1, <1>2, <1>3, <1>4, StepTells DEF NodeStep

---------------------------------------------------------------------------
(* The application *)

Changes == B!States \X B!States

\* A step of the application or of its channel.
AppStep ==
    /\ S!Broadcast \/ S!WaitForReady \/ S!SubscribeToWait \/ S!ReceiveChange
         \/ S!CancelWait \/ S!Subscribe \/ S!Consume
    /\ UNCHANGED <<vars, told>>

LEMMA StepApp ==
  ASSUME [ONext]_allVars
  PROVE  \/ AppStep
         \/ \E g \in Gens : ORun(g) /\ S!TransitionTo
         \/ UNCHANGED sVars
<1>1. CASE Environment
  BY <1>1 DEF Environment, Application, SetAppMetadata, oVars, S!Application, AppStep
<1>2. CASE Poll \/ AppMetadataSet
  BY <1>2 DEF Poll, AppMetadataSet
<1>3. CASE Waiting
  BY <1>3 DEF Waiting, S!Waiting, AppStep
<1>4. CASE OStart \/ OStopRaft \/ OStop \/ OStopFinish
  BY <1>4 DEF OStart, OStopRaft, OStop, OStopFinish, oVars
<1>5. ASSUME NEW g \in Gens, RunGoroutine(g)
      PROVE  AppStep \/ (ORun(g) /\ S!TransitionTo) \/ UNCHANGED sVars
  BY <1>5 DEF RunGoroutine, ORun, OBroadcast, TellMDNS, TellGossip, AppStep
<1>6. ASSUME NEW g \in Gens, OWaiter(g) \/ OCallback(g) \/ (Reconcile(g) /\ UNCHANGED oVars)
      PROVE  UNCHANGED sVars
  BY <1>6 DEF OWaiter, OCallback, CallbackStep, SetRaftAddr, oVars
<1>7. CASE UNCHANGED allVars
  BY <1>7 DEF allVars, oVars
<1> QED BY <1>1, <1>2, <1>3, <1>4, <1>5, <1>6, <1>7 DEF ONext

\* A change is never mistaken for none.
LEMMA ChangeIsPair ==
  ASSUME NEW c \in Changes
  PROVE  c # <<>> /\ c[1] \in B!States /\ c[2] \in B!States /\ c = <<c[1], c[2]>>
  BY DEF Changes

LEMMA OutcomeIs ==
  ASSUME NEW s, NEW otherwise
  PROVE  \/ s = "Running" /\ S!Outcome(s, otherwise) = "ready"
         \/ s = "Failed" /\ S!Outcome(s, otherwise) = "failed"
         \/ s \notin {"Running", "Failed"} /\ S!Outcome(s, otherwise) = otherwise
  BY DEF S!Outcome

LEMMA AppType ==
  ASSUME S!STypeOK(B!States), state \in B!States, state' \in B!States, [ONext]_allVars
  PROVE  S!STypeOK(B!States)'
<1>0. /\ change \in {<<>>} \cup Changes /\ queue \in Seq(Changes) /\ base \in B!States
      /\ Len(queue) <= 2 * Capacity + 1 /\ Capacity \in Nat \ {0}
  BY ObserversAssumption DEF S!STypeOK, Changes
<1>1. CASE S!Broadcast
  <2>1. change \in Changes /\ change' = <<>>
    BY <1>0, <1>1 DEF S!Broadcast
  <2>2. CASE S!Overlook
    BY <1>0, <2>1, <2>2 DEF S!Overlook, S!STypeOK, Changes, B!States
  <2>3. CASE /\ Len(queue) < 2 * Capacity + 1
             /\ queue' = Append(queue, change) /\ UNCHANGED <<app, base>>
    <3>1. queue' \in Seq(Changes) /\ Len(queue') = Len(queue) + 1
      BY <1>0, <2>1, <2>3
    <3>2. Len(queue') <= 2 * Capacity + 1
      BY <1>0, <2>3, <3>1
    <3> QED BY <2>1, <2>3, <3>1, <3>2 DEF S!STypeOK, Changes
  <2>4. Len(queue) \in Nat /\ (Len(queue) < Capacity => Len(queue) < 2 * Capacity + 1)
    BY <1>0
  <2>5. PICK room \in S!Room :
             \/ room /\ queue' = Append(queue, change) /\ UNCHANGED <<app, base>>
             \/ ~room /\ S!Overlook
    BY <1>1 DEF S!Broadcast
  <2>6. room => Len(queue) < 2 * Capacity + 1
    <3>1. CASE app = "selecting"
      BY <2>4, <3>1 DEF S!Room
    <3>2. CASE app = "subscribed"
      BY <2>4, <3>2 DEF S!Room
    <3>3. CASE app # "selecting" /\ app # "subscribed"
      BY <3>3 DEF S!Room
    <3> QED BY <3>1, <3>2, <3>3
  <2> QED BY <2>2, <2>3, <2>5, <2>6
<1>2. CASE S!ReceiveChange \/ S!Consume
  <2>1. Tail(queue) \in Seq(Changes) /\ Len(Tail(queue)) = Len(queue) - 1
        /\ Head(queue) \in Changes
    BY <1>0, <1>2 DEF S!ReceiveChange, S!Consume
  <2>2. Head(queue)[2] \in B!States
    BY <2>1, ChangeIsPair
  <2>3. CASE S!Consume
    BY <1>0, <2>1, <2>2, <2>3 DEF S!Consume, S!STypeOK, Changes
  <2>4. CASE S!ReceiveChange
    <3>1. queue' \in {<<>>, Tail(queue)} /\ UNCHANGED <<change, base>>
      BY <2>4 DEF S!ReceiveChange
    <3>2. app' \in {"ready", "failed", "selecting"}
      BY <2>4, OutcomeIs DEF S!ReceiveChange
    <3>3. queue' \in Seq(Changes) /\ Len(queue') <= 2 * Capacity + 1
      <4>1. CASE queue' = <<>>
        BY <1>0, <4>1
      <4>2. CASE queue' = Tail(queue)
        BY <1>0, <2>1, <4>2
      <4> QED BY <3>1, <4>1, <4>2
    <3> QED BY <3>1, <3>2, <3>3 DEF S!STypeOK, Changes
  <2> QED BY <1>2, <2>3, <2>4
<1>3. CASE S!WaitForReady \/ S!SubscribeToWait
  BY <1>3 DEF S!WaitForReady, S!SubscribeToWait, S!Outcome, S!STypeOK
<1>4. CASE S!CancelWait
  BY <1>0, <1>4 DEF S!CancelWait, S!STypeOK
<1>5. CASE S!Subscribe
  <2>1. base' \in B!States
    BY <1>0, <1>5, ChangeIsPair DEF S!Subscribe
  <2> QED BY <1>5, <2>1 DEF S!Subscribe, S!STypeOK
<1>6. CASE S!TransitionTo
  BY <1>6 DEF S!TransitionTo, S!STypeOK
<1>7. CASE UNCHANGED sVars
  BY <1>7 DEF sVars, S!STypeOK
<1> QED BY <1>1, <1>2, <1>3, <1>4, <1>5, <1>6, <1>7, StepApp DEF AppStep

---------------------------------------------------------------------------
(* Who browses mDNS *)

\* The steps that reach the advertiser, and those that leave it alone.
LEMMA StepBrowser ==
  ASSUME [ONext]_allVars
  PROVE  \/ /\ \E g \in Gens : RunLoop(g)
            /\ follow = "browser" /\ state' = "MDNSAdvertiserUp" /\ state' # state
            /\ A!AStart /\ UNCHANGED <<told, follow>>
         \/ TellMDNS(1)
         \/ StopFinish /\ A!AStop /\ UNCHANGED <<told, follow>>
         \/ /\ UNCHANGED <<aVars, follow>>
            /\ told = "nobody" <=> told' = "nobody"
            /\ UNCHANGED <<stopClosed, caller>> \/ caller # "waiting"
            /\ stopClosed' # stopClosed => caller' = "waiting"
<1>1. CASE Environment \/ Poll \/ AppMetadataSet \/ Waiting
  BY <1>1 DEF Environment, CancelContext, B!Cancel, Persist, Application, SetAppMetadata, Poll,
     AppMetadataSet, Waiting, vars, bVars, nVars, oVars
<1>2. CASE OStart
  BY <1>2 DEF OStart, Start, B!BStart, bVars
<1>3. CASE OStopRaft \/ OStop
  BY <1>3 DEF OStopRaft, StopRaft, OStop, StopConsensus, B!BStopSignal, bVars, oVars
<1>4. CASE OStopFinish
  BY <1>4 DEF OStopFinish
<1>5. ASSUME NEW g \in Gens, ORun(g)
      PROVE  \/ /\ follow = "browser" /\ state' = "MDNSAdvertiserUp" /\ state' # state
                /\ A!AStart /\ UNCHANGED <<told, follow>>
             \/ UNCHANGED <<aVars, follow, told, stopClosed, caller>>
  BY <1>5, Frames DEF ORun, Servers, nVars
<1>6. ASSUME NEW g \in Gens, ORun(g)
      PROVE  RunLoop(g)
  BY <1>6 DEF ORun
<1>7. CASE OBroadcast
  BY <1>7 DEF OBroadcast, vars, bVars, nVars
<1>8. ASSUME NEW g \in Gens, TellGossip(g)
      PROVE  /\ UNCHANGED <<aVars, follow, stopClosed, caller>>
             /\ told # "nobody" /\ told' # "nobody"
  BY <1>8 DEF TellGossip, vars, bVars, nVars
<1>9. ASSUME NEW g \in Gens, OWaiter(g) \/ OCallback(g) \/ (Reconcile(g) /\ UNCHANGED oVars)
      PROVE  UNCHANGED <<aVars, follow, told, stopClosed, caller>>
  BY <1>9 DEF OWaiter, OCallback, CallbackStep, WaiterStops, WaiterTicks, AskDidBootstrap,
     OnBootstrapComplete, Callback, SetRaftAddr, Reconcile, vars, bVars, nVars, oVars
<1>10. CASE UNCHANGED allVars
  BY <1>10 DEF allVars, vars, bVars, nVars, oVars
<1> QED BY <1>1, <1>2, <1>3, <1>4, <1>5, <1>6, <1>7, <1>8, <1>9, <1>10, OnlyLife
        DEF ONext, RunGoroutine

\* The server comes up while the goroutine is at its first step.
LEMMA ServerComesFirst ==
  ASSUME NEW g \in Gens, RunLoop(g), state' = "MDNSAdvertiserUp", state' # state
  PROVE  at[g] = "mdns"
  BY DEF RunLoop, B!Run, B!Enter, B!StartMDNSAdvertiser, B!StartGossip, B!Head, B!TryJoin,
         B!Joined, B!FoundCluster, B!Retry, B!Backoff, B!Announce, B!Exit

LEMMA BrowserStep ==
  ASSUME Inv, LifeInv, RoleInv, BrowserInv, [ONext]_allVars
  PROVE  BrowserInv'
<1>0. role[1] # "none" => role'[1] # "none"
  BY RoleStep
<1>1. CASE /\ \E g \in Gens : RunLoop(g)
           /\ follow = "browser" /\ state' = "MDNSAdvertiserUp" /\ state' # state
           /\ A!AStart /\ UNCHANGED <<told, follow>>
  <2>1. RunLoop(1) /\ at[1] = "mdns" /\ UNCHANGED <<caller, stopClosed>>
    BY <1>1, OnlyLife, ServerComesFirst, Frames DEF nVars
  <2>2. told = "nobody" /\ ~bootstrapped /\ (1 \in stopClosed => caller = "waiting")
    BY <2>1 DEF RoleInv, BrowserInv, LifeInv
  <2>3. started' /\ bootstrapped' = bootstrapped /\ shown' = "bootstrapped=0"
    BY <1>1, <2>2 DEF A!AStart, A!StartServer, A!TXTRecord
  <2> QED BY <1>1, <2>1, <2>2, <2>3 DEF BrowserInv
<1>2. CASE TellMDNS(1)
  <2>1. /\ at[1] = "announce" /\ told = "nobody" /\ told' = "mdns"
        /\ UNCHANGED <<role, caller, stopClosed, follow>>
    BY <1>2 DEF TellMDNS, vars, bVars, nVars
  <2>2. role[1] # "none" /\ ~bootstrapped /\ (1 \in stopClosed => caller = "waiting")
    BY <2>1 DEF RoleInv, BrowserInv, LifeInv
  <2>3. CASE follow = "browser"
    <3>1. /\ started' = started
          /\ \/ ~started /\ shown' = shown
             \/ started /\ shown' \in {"bootstrapped=1", "nothing"}
      BY <1>2, <2>2, <2>3 DEF TellMDNS, A!SetBootstrapped, A!StartServer, A!TXTRecord
    <3>2. ~started' => shown' = "nothing"
      BY <3>1 DEF BrowserInv
    <3> QED BY <2>1, <2>2, <2>3, <3>1, <3>2 DEF BrowserInv
  <2>4. CASE follow # "browser"
    <3>1. UNCHANGED aVars
      BY <1>2, <2>4 DEF TellMDNS
    <3> QED BY <2>1, <2>2, <2>4, <3>1 DEF BrowserInv, aVars
  <2> QED BY <2>3, <2>4
<1>3. CASE StopFinish /\ A!AStop /\ UNCHANGED <<told, follow>>
  BY <1>3 DEF A!AStop, BrowserInv
<1>4. CASE /\ UNCHANGED <<aVars, follow>>
           /\ told = "nobody" <=> told' = "nobody"
           /\ UNCHANGED <<stopClosed, caller>> \/ caller # "waiting"
           /\ stopClosed' # stopClosed => caller' = "waiting"
  BY <1>0, <1>4 DEF aVars, BrowserInv
<1> QED BY <1>1, <1>2, <1>3, <1>4, StepBrowser

LEMMA BrowserType ==
  ASSUME A!ATypeOK, [ONext]_allVars
  PROVE  A!ATypeOK'
<1>1. CASE A!AStart \/ A!AStop
  BY <1>1 DEF A!AStart, A!AStop, A!StartServer, A!TXTRecord, A!ATypeOK
<1>2. CASE A!SetBootstrapped
  BY <1>2 DEF A!SetBootstrapped, A!StartServer, A!TXTRecord, A!ATypeOK
<1>3. CASE UNCHANGED aVars
  BY <1>3 DEF aVars, A!ATypeOK
<1> QED BY <1>1, <1>2, <1>3, StepBrowser DEF TellMDNS

---------------------------------------------------------------------------
(* Learning that the node is running *)

\* Once the node is ready it remains so.
LEMMA ReadyStays ==
  ASSUME Inv, RoleInv, [ONext]_allVars, Ready
  PROVE  Ready'
<1>1. role'[1] # "none"
  BY RoleStep DEF Ready
<1>2. told' = "all"
  BY StepTells DEF NodeStep, TellStep, Ready
<1> QED BY <1>1, <1>2 DEF Ready

\* The goroutine goes to Running from its announcement, and from nowhere else.
LEMMA RunsAfterAnnouncement ==
  ASSUME NEW g \in Gens, RunLoop(g), state' = "Running", state # "Running"
  PROVE  at[g] = "announce"
  BY DEF RunLoop, B!Run, B!Enter, B!StartMDNSAdvertiser, B!StartGossip, B!Head, B!TryJoin,
         B!Joined, B!FoundCluster, B!Retry, B!Backoff, B!Announce, B!Exit

LEMMA StepState ==
  ASSUME [ONext]_allVars
  PROVE  state' = state \/ state' = "Init" \/ \E g \in Gens : ORun(g)
<1>1. CASE Environment \/ Poll \/ AppMetadataSet \/ Waiting
  BY <1>1 DEF Environment, CancelContext, B!Cancel, Persist, Application, SetAppMetadata, Poll,
     AppMetadataSet, Waiting, vars, bVars
<1>2. CASE OStart
  BY <1>2 DEF OStart, Start, B!BStart, bVars
<1>3. CASE OStopRaft \/ OStop \/ OStopFinish
  BY <1>3 DEF OStopRaft, StopRaft, OStop, StopConsensus, B!BStopSignal, OStopFinish, StopFinish,
     B!BStopFinish, bVars
<1>4. ASSUME NEW g \in Gens, OBroadcast \/ TellMDNS(g) \/ TellGossip(g)
      PROVE  state' = state
  BY <1>4 DEF OBroadcast, TellMDNS, TellGossip, vars, bVars
<1>5. ASSUME NEW g \in Gens, OWaiter(g) \/ OCallback(g) \/ Reconcile(g)
      PROVE  state' = state
  BY <1>5 DEF OWaiter, OCallback, CallbackStep, WaiterStops, WaiterTicks, AskDidBootstrap,
     OnBootstrapComplete, Callback, SetRaftAddr, Reconcile, vars, bVars
<1>6. CASE UNCHANGED allVars
  BY <1>6 DEF allVars, vars, bVars
<1> QED BY <1>1, <1>2, <1>3, <1>4, <1>5, <1>6 DEF ONext, RunGoroutine

\* Nobody has been told, or everybody has: Running means Ready.
LEMMA RunningIsReady ==
  ASSUME Inv, RoleInv, state = "Running" => Ready, [ONext]_allVars
  PROVE  state' = "Running" => Ready'
<1> SUFFICES ASSUME state' = "Running"
             PROVE  Ready'
  OBVIOUS
<1>1. CASE state = "Running"
  BY <1>1, ReadyStays
<1>2. CASE state # "Running"
  <2>1. PICK g \in Gens : ORun(g)
    BY <1>2, StepState
  <2>2. at[1] = "announce" /\ Announced(1)
    BY <1>2, <2>1, OnlyLife, RunsAfterAnnouncement DEF ORun
  <2>3. Ready
    BY <2>2 DEF Announced, RoleInv, Ready
  <2> QED BY <2>3, ReadyStays
<1> QED BY <1>1, <1>2

\* waitForBootstrap goes on when it has seen StateRunning.
LEMMA WaiterIsReady ==
  ASSUME Inv, RoleInv, ReadyInv, [ONext]_allVars
  PROVE  waiter'[1] \in Decides \cup {"called"} => Ready'
<1>0. waiter \in [Gens -> WaiterStates] /\ 1 \in Gens
  BY OnlyLife DEF Inv, TypeOK
<1>1. waiter'[1] \in Decides \cup {"called"} =>
        waiter[1] \in Decides \cup {"called"} \/ state = "Running"
  <2>1. [Next]_vars
    BY StepProjects
  <2>2. CASE Start
    <3>1. waiter' = waiter \/ waiter' = [waiter EXCEPT ![gen + 1] = "ticking"]
      BY <2>2 DEF Start
    <3> QED BY <1>0, <3>1
  <2>3. CASE StopRaft \/ StopConsensus \/ StopFinish \/ CancelContext \/ Persist
    BY <2>3 DEF StopRaft, StopConsensus, StopFinish, CancelContext, Persist, nVars
  <2>4. ASSUME NEW g \in Gens, Waiter(g)
        PROVE  waiter'[1] \in Decides \cup {"called"} =>
                 waiter[1] \in Decides \cup {"called"} \/ state = "Running"
    BY <1>0, <2>4 DEF Waiter, WaiterStops, WaiterTicks, AskDidBootstrap, WaiterLeaves,
       OnBootstrapComplete
  <2>5. ASSUME NEW g \in Gens, RunLoop(g) \/ Callback(g) \/ Reconcile(g)
        PROVE  waiter' = waiter
    BY <2>5 DEF RunLoop, Callback, Reconcile, nVars
  <2>6. CASE UNCHANGED vars
    BY <2>6 DEF vars, nVars
  <2> QED BY <2>1, <2>2, <2>3, <2>4, <2>5, <2>6 DEF Next
<1> QED BY <1>1, ReadyStays DEF ReadyInv

LEMMA ReadyStep ==
  ASSUME Inv, RoleInv, ReadyInv, S!STypeOK(B!States), [ONext]_allVars
  PROVE  ReadyInv'
<1>1. CASE Ready
  BY <1>1, ReadyStays DEF ReadyInv
<1>2. CASE ~Ready
  <2>0. /\ change \in {<<>>} \cup Changes /\ queue \in Seq(Changes)
        /\ state # "Running" /\ app # "ready"
        /\ change # <<>> => change[2] # "Running"
        /\ \A i \in 1..Len(queue) : queue[i][2] # "Running"
    BY <1>2 DEF S!STypeOK, Changes, ReadyInv
  <2>1. state' = "Running" => Ready'
    BY RunningIsReady DEF ReadyInv
  <2>2. waiter'[1] \in Decides \cup {"called"} => Ready'
    BY WaiterIsReady
  <2>3. /\ app' = "ready" => Ready'
        /\ change' # <<>> /\ change'[2] = "Running" => Ready'
        /\ \A i \in 1..Len(queue') : queue'[i][2] = "Running" => Ready'
    <3>1. CASE S!Broadcast
      <4>1. change \in Changes /\ change' = <<>> /\ change[2] # "Running"
        BY <2>0, <3>1 DEF S!Broadcast
      <4>2. \/ queue' = Append(queue, change) /\ app' = app
            \/ queue' \in {queue, <<>>} /\ app' \in {app, "gap"}
        BY <3>1 DEF S!Broadcast, S!Overlook
      <4>3. \A i \in 1..Len(queue') : queue'[i][2] # "Running"
        <5>1. CASE queue' = Append(queue, change)
          BY <2>0, <4>1, <5>1
        <5>2. CASE queue' \in {queue, <<>>}
          BY <2>0, <5>2
        <5> QED BY <4>2, <5>1, <5>2
      <4> QED BY <2>0, <4>1, <4>2, <4>3
    <3>2. CASE S!ReceiveChange \/ S!Consume
      <4>1. queue # <<>> /\ Head(queue) = queue[1] /\ 1 \in 1..Len(queue)
        BY <2>0, <3>2 DEF S!ReceiveChange, S!Consume
      <4>2. \A i \in 1..Len(Tail(queue)) : i + 1 \in 1..Len(queue) /\ Tail(queue)[i] = queue[i + 1]
        BY <2>0, <4>1
      <4>3. queue' \in {Tail(queue), <<>>} /\ change' = change
        BY <3>2 DEF S!ReceiveChange, S!Consume
      <4>4. app' # "ready"
        <5>1. Head(queue)[2] # "Running"
          BY <2>0, <4>1
        <5> QED BY <2>0, <3>2, <5>1, OutcomeIs DEF S!ReceiveChange, S!Consume
      <4>5. \A i \in 1..Len(queue') : queue'[i][2] # "Running"
        <5>1. CASE queue' = Tail(queue)
          BY <2>0, <4>2, <5>1
        <5>2. CASE queue' = <<>>
          BY <5>2
        <5> QED BY <4>3, <5>1, <5>2
      <4> QED BY <2>0, <4>3, <4>4, <4>5
    <3>3. CASE S!WaitForReady
      <4>1. app' # "ready" /\ UNCHANGED <<change, queue>>
        BY <2>0, <3>3, OutcomeIs DEF S!WaitForReady
      <4> QED BY <2>0, <4>1
    <3>4. CASE S!SubscribeToWait \/ S!CancelWait \/ S!Subscribe
      <4>1. app' # "ready" /\ change' = change /\ queue' \in {queue, <<>>}
        BY <3>4 DEF S!SubscribeToWait, S!CancelWait, S!Subscribe
      <4> QED BY <2>0, <4>1
    <3>5. CASE S!TransitionTo
      <4>1. change' = <<>> \/ (change'[2] = state')
        BY <3>5 DEF S!TransitionTo
      <4> QED BY <2>0, <2>1, <3>5, <4>1 DEF S!TransitionTo
    <3>6. CASE UNCHANGED sVars
      BY <2>0, <3>6 DEF sVars
    <3> QED BY <3>1, <3>2, <3>3, <3>4, <3>5, <3>6, StepApp DEF AppStep
  <2> QED BY <2>1, <2>2, <2>3 DEF ReadyInv
<1> QED BY <1>1, <1>2

---------------------------------------------------------------------------
(* The metadata that peers read *)

\* A setter leaves the fields fields, and all but its own as they were.
LEMMA FieldsWith ==
  ASSUME NEW f \in M!Fields
  PROVE  /\ [f EXCEPT !.boot = TRUE] \in M!Fields /\ [f EXCEPT !.boot = TRUE].boot
         /\ [f EXCEPT !.grpc = TRUE] \in M!Fields
         /\ [f EXCEPT !.grpc = TRUE].boot = f.boot /\ [f EXCEPT !.grpc = TRUE].raft = f.raft
         /\ [f EXCEPT !.raft = "real"] \in M!Fields /\ [f EXCEPT !.raft = "real"].boot = f.boot
<1> USE DEF M!Fields
<1>1. [f EXCEPT !.boot = TRUE] \in M!Fields /\ [f EXCEPT !.boot = TRUE].boot
  OBVIOUS
<1>2. /\ [f EXCEPT !.grpc = TRUE] \in M!Fields
      /\ [f EXCEPT !.grpc = TRUE].boot = f.boot /\ [f EXCEPT !.grpc = TRUE].raft = f.raft
  OBVIOUS
<1>3. [f EXCEPT !.raft = "real"] \in M!Fields /\ [f EXCEPT !.raft = "real"].boot = f.boot
  OBVIOUS
<1> QED BY <1>1, <1>2, <1>3

LEMMA FieldsWithApp ==
  ASSUME NEW f \in M!Fields, NEW n \in Nat
  PROVE  /\ [f EXCEPT !.app = n] \in M!Fields
         /\ [f EXCEPT !.app = n].boot = f.boot /\ [f EXCEPT !.app = n].raft = f.raft
  BY DEF M!Fields

\* The steps that reach the delegate or memberlist: a setter of one goroutine, the
\* rest of a setter, memberlist coming up or going away, or none of them.
LoopSets ==
    /\ M!Set("loop", [fields EXCEPT !.boot = TRUE])
    /\ told' = "gossip" /\ follow = "peers"

OtherSets ==
    /\ \/ M!Set("grpc", [fields EXCEPT !.grpc = TRUE])
       \/ \E n \in AppSizes : M!Set("app", [fields EXCEPT !.app = n])
    /\ told' = told

CallbackSets ==
    /\ M!Set("callback", [fields EXCEPT !.raft = "real"])
    /\ waiter[1] \in Decides \cup {"called"} /\ told' = told /\ follow = "peers"

Publishes ==
    /\ \E u \in Updaters : M!Publish(u)
    /\ told' = told \/ (told = "gossip" /\ told' = "all")

MemberlistMoves ==
    /\ M!MStart \/ M!MStop
    /\ lists' # {} \/ M!MStop
    /\ told' = told

MetaRests ==
    /\ UNCHANGED mVars
    /\ \/ told' = told
       \/ told = "nobody" /\ told' = "mdns"
       \/ told' = "all" /\ follow # "peers"

LEMMA StepMeta ==
  ASSUME Inv, [ONext]_allVars
  PROVE  /\ LoopSets \/ OtherSets \/ CallbackSets \/ Publishes \/ MemberlistMoves \/ MetaRests
         /\ follow' = follow
         /\ lists' = lists \/ lists' # {} \/ M!MStop
<1> USE DEF Updaters
<1>1. CASE Environment
  <2>1. CASE SetAppMetadata
    BY <2>1 DEF SetAppMetadata, OtherSets, vars, bVars
  <2>2. CASE Environment /\ ~SetAppMetadata
    BY <2>2 DEF Environment, CancelContext, B!Cancel, Persist, Application, MetaRests, oVars,
       vars, bVars
  <2> QED BY <1>1, <2>1, <2>2
<1>2. CASE Poll
  BY <1>2 DEF Poll, OtherSets, Publishes, vars, bVars
<1>3. CASE AppMetadataSet
  BY <1>3 DEF AppMetadataSet, Publishes, vars, bVars
<1>4. CASE Waiting
  BY <1>4 DEF Waiting, MetaRests, vars, bVars
<1>5. CASE OStart
  BY <1>5 DEF OStart, Start, B!BStart, bVars, MetaRests
<1>6. CASE OStopRaft \/ OStop
  BY <1>6 DEF OStopRaft, StopRaft, OStop, StopConsensus, B!BStopSignal, bVars, oVars, MetaRests
<1>7. CASE OStopFinish
  BY <1>7 DEF OStopFinish, MemberlistMoves, MetaRests
<1>8. ASSUME NEW g \in Gens, ORun(g)
      PROVE  /\ MemberlistMoves \/ MetaRests
             /\ follow' = follow
             /\ lists' = lists \/ lists' # {}
  <2>1. lists' = lists \/ lists' = {g}
    BY <1>8, RunLoopLeaves DEF ORun
  <2>2. (M!MStart /\ lists' # lists) \/ UNCHANGED mVars
    BY <1>8 DEF ORun, Servers
  <2> QED BY <1>8, <2>1, <2>2 DEF ORun, MemberlistMoves, MetaRests
<1>9. ASSUME NEW g \in Gens, OBroadcast \/ TellMDNS(g)
      PROVE  MetaRests /\ follow' = follow /\ lists' = lists
  BY <1>9 DEF OBroadcast, TellMDNS, MetaRests, vars, bVars
<1>10. ASSUME NEW g \in Gens, TellGossip(g)
       PROVE  (LoopSets \/ Publishes \/ MetaRests) /\ follow' = follow /\ lists' = lists
  BY <1>10 DEF TellGossip, LoopSets, Publishes, MetaRests, vars, bVars
<1>11. ASSUME NEW g \in Gens, OWaiter(g) \/ OCallback(g)
       PROVE  (CallbackSets \/ Publishes \/ MetaRests) /\ follow' = follow /\ lists' = lists
  <2>1. CASE (WaiterStops(g) \/ WaiterTicks(g) \/ AskDidBootstrap(g)) /\ UNCHANGED oVars
    BY <2>1, <1>11 DEF WaiterStops, WaiterTicks, AskDidBootstrap, MetaRests, oVars, bVars
  <2>2. CASE SetRaftAddr
    BY <2>2 DEF SetRaftAddr, Publishes, vars, bVars
  <2>3. CASE CallbackStep(OnBootstrapComplete(g))
    <3>1. g = 1 /\ waiter[g] \in Decides /\ lists' = lists
      BY <2>3, OnlyLife DEF CallbackStep, OnBootstrapComplete, bVars
    <3> QED BY <2>3, <3>1 DEF CallbackStep, CallbackSets, MetaRests
  <2>4. CASE CallbackStep(Callback(g))
    <3>1. g = 1 /\ call[g] # "idle" /\ lists' = lists
      BY <2>4, OnlyLife, CallbackIn DEF CallbackStep, InCallback, bVars
    <3>2. waiter[1] = "called"
      BY <3>1 DEF Inv, CallerInv
    <3> QED BY <2>4, <3>1, <3>2 DEF CallbackStep, CallbackSets, MetaRests
  <2> QED BY <1>11, <2>1, <2>2, <2>3, <2>4 DEF OWaiter, OCallback
<1>12. ASSUME NEW g \in Gens, Reconcile(g) /\ UNCHANGED oVars
       PROVE  MetaRests /\ follow' = follow /\ lists' = lists
  BY <1>12 DEF Reconcile, MetaRests, oVars, bVars
<1>13. CASE UNCHANGED allVars
  BY <1>13 DEF allVars, vars, bVars, oVars, MetaRests
<1> QED BY <1>1, <1>2, <1>3, <1>4, <1>5, <1>6, <1>7, <1>8, <1>9, <1>10, <1>11, <1>12, <1>13
        DEF ONext, RunGoroutine

\* A flag that is set is not taken back, and the address of a Raft that runs is set
\* when the flag has been: the fields are consistent, whatever the order.
LEMMA MetaSet ==
  ASSUME M!MTypeOK, MetaInv, NEW u \in Updaters, NEW f \in M!Fields, M!Set(u, f),
         Consistent(f), told' \in {told, "gossip"}, told' = "gossip" => follow = "peers",
         follow' = follow, follow = "peers" /\ told' \in {"gossip", "all"} => f.boot
  PROVE  M!MTypeOK' /\ MetaInv' /\ published' = published
<1>1. /\ fields' = f /\ encoded' = [encoded EXCEPT ![u] = f] /\ published' = published
      /\ raced' = (raced \/ ~M!Idle)
  BY DEF M!Set
<1>2. DOMAIN encoded' = Updaters
  BY <1>1 DEF MetaInv
<1>3. \A v \in Updaters : encoded'[v] = IF v = u THEN f ELSE encoded[v]
  BY <1>1 DEF MetaInv
<1>4. raced' \in BOOLEAN
  BY <1>1
<1>5. M!MTypeOK'
  BY <1>1, <1>3, <1>4 DEF M!MTypeOK
<1>6. MetaInv'
  BY <1>1, <1>2, <1>3 DEF MetaInv
<1> QED BY <1>1, <1>5, <1>6

LEMMA MetaStep ==
  ASSUME Inv, ReadyInv, M!MTypeOK, MetaInv, published # <<>> => lists # {}, [ONext]_allVars
  PROVE  M!MTypeOK' /\ MetaInv' /\ (published' # <<>> => lists' # {})
<1>0. /\ fields \in M!Fields /\ follow' = follow /\ Consistent(fields)
      /\ lists' = lists \/ lists' # {} \/ M!MStop
      /\ told = "gossip" => follow = "peers"
      /\ told \in {"gossip", "all"} /\ follow = "peers" => fields.boot
  BY StepMeta DEF M!MTypeOK, MetaInv
<1> DEFINE WithBoot == [fields EXCEPT !.boot = TRUE]
           WithGRPC == [fields EXCEPT !.grpc = TRUE]
           WithRaft == [fields EXCEPT !.raft = "real"]
           WithApp(n) == [fields EXCEPT !.app = n]
<1>1. CASE LoopSets
  <2>1. WithBoot \in M!Fields /\ WithBoot.boot /\ Consistent(WithBoot)
    BY <1>0, FieldsWith DEF Consistent
  <2>2. M!Set("loop", WithBoot) /\ told' = "gossip" /\ follow = "peers" /\ "loop" \in Updaters
    BY <1>1 DEF LoopSets, Updaters
  <2> HIDE DEF WithBoot
  <2>3. M!MTypeOK' /\ MetaInv' /\ published' = published
    BY <1>0, <2>1, <2>2, MetaSet
  <2> QED BY <1>0, <2>2, <2>3 DEF M!Set, M!MStop
<1>2. CASE OtherSets /\ M!Set("grpc", WithGRPC)
  <2>1. WithGRPC \in M!Fields /\ WithGRPC.boot = fields.boot /\ Consistent(WithGRPC)
    BY <1>0, FieldsWith DEF Consistent
  <2>2. M!Set("grpc", WithGRPC) /\ told' = told /\ "grpc" \in Updaters
    BY <1>2 DEF OtherSets, Updaters
  <2> HIDE DEF WithGRPC
  <2>3. M!MTypeOK' /\ MetaInv' /\ published' = published
    BY <1>0, <2>1, <2>2, MetaSet
  <2> QED BY <1>0, <2>2, <2>3 DEF M!Set, M!MStop
<1>3. ASSUME NEW n \in AppSizes, M!Set("app", WithApp(n)), told' = told
      PROVE  M!MTypeOK' /\ MetaInv' /\ (published' # <<>> => lists' # {})
  <2>0. n \in Nat
    BY ObserversAssumption
  <2>1. WithApp(n) \in M!Fields /\ WithApp(n).boot = fields.boot /\ Consistent(WithApp(n))
    BY <1>0, <2>0, FieldsWithApp DEF Consistent
  <2>2. "app" \in Updaters
    BY DEF Updaters
  <2> HIDE DEF WithApp
  <2>3. M!MTypeOK' /\ MetaInv' /\ published' = published
    BY <1>0, <1>3, <2>1, <2>2, MetaSet
  <2> QED BY <1>0, <1>3, <2>3 DEF M!Set, M!MStop
<1>4. CASE CallbackSets
  <2>1. told = "all" /\ follow = "peers" /\ fields.boot
    BY <1>0, <1>4 DEF CallbackSets, ReadyInv, Ready
  <2>2. WithRaft \in M!Fields /\ WithRaft.boot = fields.boot /\ Consistent(WithRaft)
    BY <1>0, <2>1, FieldsWith DEF Consistent
  <2>3. M!Set("callback", WithRaft) /\ told' = told /\ "callback" \in Updaters
    BY <1>4 DEF CallbackSets, Updaters
  <2> HIDE DEF WithRaft
  <2>4. M!MTypeOK' /\ MetaInv' /\ published' = published
    BY <1>0, <2>1, <2>2, <2>3, MetaSet
  <2> QED BY <1>0, <2>3, <2>4 DEF M!Set, M!MStop
<1>5. CASE Publishes
  <2>1. PICK u \in Updaters : M!Publish(u)
    BY <1>5 DEF Publishes
  <2>2. /\ encoded[u] # <<>> /\ published' \in {<<>>, encoded[u]}
        /\ encoded' = [encoded EXCEPT ![u] = <<>>] /\ UNCHANGED <<fields, raced>>
        /\ published = <<>> => published' = <<>>
    BY <2>1 DEF M!Publish
  <2>3. DOMAIN encoded' = Updaters /\ \A v \in Updaters : encoded'[v] \in {<<>>, encoded[v]}
    BY <2>2 DEF MetaInv
  <2>4. M!MTypeOK'
    BY <2>2, <2>3 DEF M!MTypeOK
  <2>5. told' = told \/ (told = "gossip" /\ told' = "all")
    BY <1>5 DEF Publishes
  <2>6. MetaInv'
    BY <1>0, <2>2, <2>3, <2>5 DEF MetaInv
  <2> QED BY <1>0, <2>2, <2>4, <2>6 DEF M!MStop
<1>6. CASE MemberlistMoves
  <2>1. /\ published' \in {<<>>, fields} /\ UNCHANGED <<fields, encoded, raced>>
        /\ published' # <<>> => lists' # {}
        /\ told' = told
    BY <1>6 DEF MemberlistMoves, M!MStart, M!MStop
  <2> QED BY <1>0, <2>1 DEF M!MTypeOK, MetaInv
<1>7. CASE MetaRests
  <2>1. UNCHANGED mVars
    BY <1>7 DEF MetaRests
  <2>2. MetaInv'
    BY <1>0, <1>7, <2>1 DEF MetaRests, mVars, MetaInv
  <2> QED BY <1>0, <2>1, <2>2 DEF M!MTypeOK, mVars, M!MStop
<1> QED BY <1>1, <1>2, <1>3, <1>4, <1>5, <1>6, <1>7, StepMeta DEF OtherSets

---------------------------------------------------------------------------
(* The account a subscriber gets *)

\* What a step does to the state, as far as a subscriber is concerned.
LEMMA StepAccount ==
  ASSUME Inv, LifeInv, [ONext]_allVars, up' \/ cGen' = 0
  PROVE  /\ up \/ cGen = 0
         /\ \/ AppStep
            \/ S!TransitionTo
            \/ UNCHANGED <<sVars, state>>
            \/ UNCHANGED sVars /\ follow # "application"
<1>1. CASE Environment
  BY <1>1 DEF Environment, CancelContext, B!Cancel, Persist, Application, SetAppMetadata, oVars,
     S!Application, AppStep, vars, bVars, nVars
<1>2. CASE Poll \/ AppMetadataSet
  BY <1>2 DEF Poll, AppMetadataSet, vars, bVars, nVars
<1>3. CASE Waiting
  BY <1>3 DEF Waiting, S!Waiting, AppStep, vars, nVars
<1>4. CASE OStart
  <2>1. cGen = 0 /\ state = "Init"
    BY <1>4, ObserversAssumption DEF OStart, Start, LifeInv, Inv, TypeOK
  <2>2. state' = state
    BY <1>4, <2>1 DEF OStart, Start, B!BStart, bVars
  <2> QED BY <1>4, <2>1, <2>2 DEF OStart
<1>5. CASE OStopRaft
  BY <1>5 DEF OStopRaft, StopRaft, oVars, bVars
<1>6. CASE OStop
  <2>1. up' => up
    BY <1>6 DEF OStop, StopConsensus
  <2> QED BY <1>6, <2>1 DEF OStop, StopConsensus, B!BStopSignal, oVars, bVars
<1>7. CASE OStopFinish
  <2>1. ~up' /\ cGen' = cGen /\ cGen > 0
    BY <1>7, ObserversAssumption
       DEF OStopFinish, StopFinish, Inv, TypeOK, CallerInv, LifeInv
  <2> QED BY <2>1
<1>8. ASSUME NEW g \in Gens, RunGoroutine(g)
      PROVE  /\ up \/ cGen = 0
             /\ \/ AppStep \/ S!TransitionTo \/ UNCHANGED <<sVars, state>>
                \/ UNCHANGED sVars /\ follow # "application"
  <2>1. UNCHANGED nVars
    BY <1>8, Frames DEF RunGoroutine, ORun, OBroadcast, TellMDNS, TellGossip, vars
  <2>2. \/ AppStep \/ S!TransitionTo \/ UNCHANGED <<sVars, state>>
        \/ UNCHANGED sVars /\ follow # "application"
    BY <1>8 DEF RunGoroutine, ORun, OBroadcast, TellMDNS, TellGossip, AppStep, vars, bVars
  <2> QED BY <2>1, <2>2 DEF nVars
<1>9. ASSUME NEW g \in Gens, OWaiter(g) \/ OCallback(g) \/ (Reconcile(g) /\ UNCHANGED oVars)
      PROVE  UNCHANGED <<sVars, state, up, cGen>>
  BY <1>9 DEF OWaiter, OCallback, CallbackStep, WaiterStops, WaiterTicks, AskDidBootstrap,
     OnBootstrapComplete, Callback, SetRaftAddr, Reconcile, vars, bVars, nVars, oVars
<1>10. CASE UNCHANGED allVars
  BY <1>10 DEF allVars, vars, bVars, nVars, oVars
<1> QED BY <1>1, <1>2, <1>3, <1>4, <1>5, <1>6, <1>7, <1>8, <1>9, <1>10 DEF ONext

\* One more link at the end of the account.
LEMMA LinkedAppend ==
  ASSUME queue \in Seq(Changes), change \in Changes, Linked, change[2] = state,
         queue' = Append(queue, change), change' = <<>>, UNCHANGED <<base, state>>
  PROVE  Linked'
<1>1. /\ Len(queue) \in Nat /\ Len(queue') = Len(queue) + 1 /\ queue' # <<>>
      /\ \A i \in 1..Len(queue) : queue'[i] = queue[i]
      /\ queue'[Len(queue) + 1] = change
  OBVIOUS
<1>2. change # <<>>
  BY ChangeIsPair
<1>3. CASE queue = <<>>
  <2>1. Len(queue) = 0 /\ base = change[1]
    BY <1>2, <1>3 DEF Linked
  <2> QED BY <1>1, <2>1 DEF Linked
<1>4. CASE queue # <<>>
  <2>1. /\ Len(queue) \in 1..Len(queue) /\ 1 \in 1..Len(queue)
        /\ queue[1][1] = base /\ queue[Len(queue)][2] = change[1]
        /\ \A i \in 1..(Len(queue) - 1) : queue[i][2] = queue[i + 1][1]
    BY <1>2, <1>4 DEF Linked
  <2>2. queue'[1][1] = base'
    BY <1>1, <2>1
  <2>3. \A i \in 1..(Len(queue') - 1) : queue'[i][2] = queue'[i + 1][1]
    <3> SUFFICES ASSUME NEW i \in 1..Len(queue)
                 PROVE  queue'[i][2] = queue'[i + 1][1]
      BY <1>1
    <3>1. CASE i = Len(queue)
      BY <1>1, <2>1, <3>1
    <3>2. CASE i # Len(queue)
      <4>1. i \in 1..(Len(queue) - 1) /\ i + 1 \in 1..Len(queue)
        BY <1>1, <3>2
      <4> QED BY <1>1, <2>1, <4>1
    <3> QED BY <3>1, <3>2
  <2>4. queue'[Len(queue')][2] = state'
    BY <1>1
  <2> QED BY <1>1, <2>2, <2>3, <2>4 DEF Linked
<1> QED BY <1>3, <1>4

\* One link less at its beginning.
LEMMA LinkedTail ==
  ASSUME queue \in Seq(Changes), queue # <<>>, Linked, base' = Head(queue)[2],
         queue' = Tail(queue), UNCHANGED <<change, state>>
  PROVE  Linked'
<1>1. /\ Len(queue) \in Nat /\ Len(queue) >= 1 /\ Len(queue') = Len(queue) - 1
      /\ \A i \in 1..Len(queue') : queue'[i] = queue[i + 1]
      /\ base' = queue[1][2] /\ queue' \in Seq(Changes)
  OBVIOUS
<1>2. /\ \A i \in 1..(Len(queue) - 1) : queue[i][2] = queue[i + 1][1]
      /\ queue[Len(queue)][2] = IF change = <<>> THEN state ELSE change[1]
  BY DEF Linked
<1>3. CASE Len(queue) = 1
  <2>1. queue' = <<>>
    BY <1>1, <1>3
  <2>2. Len(queue') = 0 /\ ~(\E i \in 1..(Len(queue') - 1) : TRUE)
    BY <1>1, <1>3
  <2>3. base' = IF change' = <<>> THEN state' ELSE change'[1]
    BY <1>1, <1>2, <1>3
  <2> QED BY <2>1, <2>2, <2>3 DEF Linked
<1>4. CASE Len(queue) # 1
  <2>0. Len(queue') >= 1 /\ Len(<<>>) = 0
    BY <1>1, <1>4
  <2>1. queue' # <<>> /\ Len(queue') >= 1
    BY <2>0
  <2>2. queue'[1][1] = base'
    BY <1>1, <1>2, <2>1
  <2>3. ASSUME NEW i \in 1..(Len(queue') - 1)
        PROVE  queue'[i][2] = queue'[i + 1][1]
    <3>1. i \in 1..Len(queue') /\ i + 1 \in 1..Len(queue') /\ i + 1 \in 1..(Len(queue) - 1)
      BY <1>1
    <3> QED BY <1>1, <1>2, <3>1
  <2>4. queue'[Len(queue')] = queue[Len(queue)]
    BY <1>1, <2>1
  <2> QED BY <1>2, <2>1, <2>2, <2>3, <2>4 DEF Linked
<1> QED BY <1>3, <1>4

\* An application that does not follow the node has not called.
LEMMA AtRest ==
  ASSUME Inv, AccountInv, S!STypeOK(B!States), [ONext]_allVars
  PROVE  /\ follow' # "application" => app' = "idle" /\ change' = <<>>
         /\ app' \in {"idle", "read"} => queue' = <<>>
<1>0. follow' = follow
  BY StepMeta
<1>1. follow # "application" => UNCHANGED <<app, change, queue>>
  <2> SUFFICES ASSUME follow # "application"
               PROVE  UNCHANGED sVars
    BY DEF sVars
  <2>0. app = "idle" /\ change = <<>>
    BY DEF AccountInv
  <2>1. CASE Environment \/ Poll \/ AppMetadataSet
    BY <2>1 DEF Environment, Application, SetAppMetadata, Poll, AppMetadataSet, oVars
  <2>2. CASE Waiting
    BY <2>0, <2>2 DEF Waiting, S!Waiting, S!SubscribeToWait, S!ReceiveChange
  <2>3. CASE OStart \/ OStopRaft \/ OStop \/ OStopFinish
    BY <2>3 DEF OStart, OStopRaft, OStop, OStopFinish, oVars
  <2>4. ASSUME NEW g \in Gens, RunGoroutine(g)
        PROVE  UNCHANGED sVars
    BY <2>0, <2>4 DEF RunGoroutine, ORun, OBroadcast, S!Broadcast, TellMDNS, TellGossip
  <2>5. ASSUME NEW g \in Gens, OWaiter(g) \/ OCallback(g) \/ (Reconcile(g) /\ UNCHANGED oVars)
        PROVE  UNCHANGED sVars
    BY <2>5 DEF OWaiter, OCallback, CallbackStep, SetRaftAddr, oVars
  <2>6. CASE UNCHANGED allVars
    BY <2>6 DEF allVars, oVars
  <2> QED BY <2>1, <2>2, <2>3, <2>4, <2>5, <2>6 DEF ONext
<1>2. app' \in {"idle", "read"} => queue' = <<>>
  <2>1. CASE S!Broadcast
    <3>1. CASE app \in {"selecting", "subscribed"}
      <4>1. app' \in {app, "gap"}
        BY <2>1 DEF S!Broadcast, S!Overlook
      <4> QED BY <3>1, <4>1
    <3>2. CASE app \notin {"selecting", "subscribed"}
      <4>1. S!Room = {FALSE}
        BY <3>2 DEF S!Room
      <4>2. S!Overlook
        BY <2>1, <4>1 DEF S!Broadcast
      <4> QED BY <3>2, <4>2 DEF S!Overlook, AccountInv
    <3> QED BY <3>1, <3>2
  <2>2. CASE S!ReceiveChange \/ S!Consume
    BY <2>2, OutcomeIs DEF S!ReceiveChange, S!Consume
  <2>3. CASE S!WaitForReady \/ S!SubscribeToWait \/ S!CancelWait \/ S!Subscribe
    BY <2>3 DEF S!WaitForReady, S!SubscribeToWait, S!CancelWait, S!Subscribe, AccountInv
  <2>4. CASE S!TransitionTo \/ UNCHANGED sVars
    BY <2>4 DEF S!TransitionTo, sVars, AccountInv
  <2> QED BY <2>1, <2>2, <2>3, <2>4, StepApp DEF AppStep
<1> QED BY <1>0, <1>1, <1>2 DEF AccountInv

LEMMA AccountStep ==
  ASSUME Inv, LifeInv, AccountInv, S!STypeOK(B!States), [ONext]_allVars
  PROVE  AccountInv'
<1> SUFFICES ASSUME up' \/ cGen' = 0
             PROVE  /\ change' # <<>> => change'[2] = state'
                    /\ app' = "subscribed" => Linked'
  BY AtRest DEF AccountInv
<1>0. /\ change # <<>> => change[2] = state
      /\ app = "subscribed" => Linked
      /\ change \in {<<>>} \cup Changes /\ queue \in Seq(Changes)
  BY StepAccount DEF AccountInv, S!STypeOK, Changes
<1>1. CASE AppStep /\ S!Broadcast
  <2>1. /\ change \in Changes /\ change' = <<>> /\ state' = state
    BY <1>0, <1>1 DEF S!Broadcast
  <2>2. CASE app' = "subscribed"
    <3>1. app = "subscribed" /\ queue' = Append(queue, change) /\ base' = base
      BY <1>1, <2>2 DEF S!Broadcast, S!Overlook
    <3>2. change # <<>>
      BY <2>1, ChangeIsPair
    <3> QED BY <1>0, <2>1, <3>1, <3>2, LinkedAppend
  <2> QED BY <2>1, <2>2
<1>2. CASE AppStep /\ S!Consume
  <2>1. /\ app = "subscribed" /\ queue # <<>> /\ base' = Head(queue)[2]
        /\ queue' = Tail(queue) /\ UNCHANGED <<change, state>>
    BY <1>2 DEF S!Consume
  <2> QED BY <1>0, <2>1, LinkedTail
<1>3. CASE AppStep /\ S!Subscribe
  <2>1. queue = <<>> /\ queue' = <<>> /\ UNCHANGED <<change, state>>
    BY <1>3 DEF S!Subscribe, AccountInv
  <2>2. base' = IF change = <<>> THEN state ELSE change[1]
    BY <1>3 DEF S!Subscribe
  <2>3. Len(<<>>) = 0 /\ ~(\E i \in 1..(0 - 1) : TRUE)
    OBVIOUS
  <2> QED BY <1>0, <2>1, <2>2, <2>3 DEF Linked
<1>4. CASE AppStep /\ (S!WaitForReady \/ S!SubscribeToWait \/ S!ReceiveChange \/ S!CancelWait)
  <2>1. app' # "subscribed" /\ UNCHANGED <<change, state>>
    BY <1>4, OutcomeIs DEF S!WaitForReady, S!SubscribeToWait, S!ReceiveChange, S!CancelWait
  <2> QED BY <1>0, <2>1
<1>5. CASE S!TransitionTo
  <2>1. /\ change = <<>> /\ UNCHANGED <<app, queue, base>>
        /\ IF state' = state THEN change' = <<>> ELSE change' = <<state, state'>>
    BY <1>5 DEF S!TransitionTo
  <2>2. <<state, state'>> # <<>>
    OBVIOUS
  <2> QED BY <1>0, <2>1, <2>2 DEF Linked
<1>6. CASE UNCHANGED <<sVars, state>>
  BY <1>0, <1>6 DEF sVars, Linked
<1>7. CASE UNCHANGED sVars /\ follow # "application"
  BY <1>7 DEF sVars, AccountInv
<1> QED BY <1>1, <1>2, <1>3, <1>4, <1>5, <1>6, <1>7, StepAccount DEF AppStep

---------------------------------------------------------------------------
(* Together *)

LEMMA PollType ==
  ASSUME poll \in {"none", "polling", "setting", "done"}, [ONext]_allVars
  PROVE  poll' \in {"none", "polling", "setting", "done"}
<1>1. CASE Environment \/ Poll \/ AppMetadataSet \/ Waiting
  BY <1>1 DEF Environment, Application, SetAppMetadata, Poll, AppMetadataSet, Waiting, oVars
<1>2. CASE OStart \/ OStopRaft \/ OStop \/ OStopFinish
  BY <1>2 DEF OStart, OStopRaft, OStop, OStopFinish, oVars
<1>3. ASSUME NEW g \in Gens, RunGoroutine(g)
      PROVE  poll' = poll
  BY <1>3 DEF RunGoroutine, ORun, OBroadcast, TellMDNS, TellGossip
<1>4. ASSUME NEW g \in Gens, OWaiter(g) \/ OCallback(g) \/ (Reconcile(g) /\ UNCHANGED oVars)
      PROVE  poll' = poll
  BY <1>4 DEF OWaiter, OCallback, CallbackStep, SetRaftAddr, oVars
<1>5. CASE UNCHANGED allVars
  BY <1>5 DEF allVars, oVars
<1> QED BY <1>1, <1>2, <1>3, <1>4, <1>5 DEF ONext

LEMMA OInvInit ==
  ASSUME OInit
  PROVE  Inv /\ OTypeOK /\ OInv
<1>1. Inv
  BY InvInit DEF OInit
<1>2. /\ state = "Init" /\ gen = 0 /\ cGen = 0 /\ stoppedClosed = {} /\ stopClosed = {}
      /\ at[1] = "none" /\ role[1] = "none" /\ waiter[1] = "none" /\ told = "nobody"
      /\ lists = {}
  BY OnlyLife DEF OInit, Init, B!BInit, B!Gens, Gens
<1>3. /\ change = <<>> /\ app = "idle" /\ queue = <<>> /\ base = "Init"
      /\ Len(queue) = 0 /\ queue \in Seq(Changes)
  BY <1>2 DEF OInit, S!SInit
<1>4. S!STypeOK(B!States)
  <2>1. base \in B!States /\ 0 <= 2 * Capacity + 1
    BY <1>3, ObserversAssumption DEF B!States
  <2> QED BY <1>3, <2>1 DEF S!STypeOK, Changes
<1>5. started = FALSE /\ bootstrapped = FALSE /\ shown = "nothing"
  BY DEF OInit, A!AInit
<1>6. /\ fields = [raft |-> "placeholder", grpc |-> FALSE, boot |-> FALSE, app |-> 0]
      /\ encoded = [u \in Updaters |-> <<>>] /\ published = <<>> /\ raced = FALSE
  BY DEF OInit, M!MInit
<1>7. fields \in M!Fields /\ fields.raft = "placeholder"
  BY <1>6 DEF M!Fields
<1>8. DOMAIN encoded = Updaters /\ \A u \in Updaters : encoded[u] = <<>>
  BY <1>6
<1>9. M!MTypeOK /\ A!ATypeOK
  BY <1>5, <1>6, <1>7, <1>8 DEF M!MTypeOK, A!ATypeOK
<1>10. OTypeOK
  BY <1>1, <1>4, <1>6, <1>9 DEF OInit, OTypeOK, Inv
<1>11. LifeInv /\ RoleInv /\ BrowserInv
  BY <1>2, <1>5 DEF LifeInv, RoleInv, BrowserInv
<1>12. MetaInv
  BY <1>2, <1>6, <1>7, <1>8 DEF MetaInv, Consistent
<1>13. ReadyInv
  BY <1>2, <1>3 DEF ReadyInv
<1>14. AccountInv
  BY <1>3 DEF AccountInv
<1> QED BY <1>1, <1>10, <1>11, <1>12, <1>13, <1>14 DEF OInv

LEMMA OInvStep ==
  ASSUME Inv, OTypeOK, OInv, [ONext]_allVars
  PROVE  Inv' /\ OTypeOK' /\ OInv'
<1>0. /\ LifeInv /\ RoleInv /\ ReadyInv /\ BrowserInv /\ MetaInv /\ AccountInv
      /\ S!STypeOK(B!States) /\ A!ATypeOK /\ M!MTypeOK /\ (published # <<>> => lists # {})
      /\ [Next]_vars
  BY StepProjects DEF OInv, OTypeOK
<1>1. Inv' /\ TypeOK' /\ state \in B!States /\ state' \in B!States
  <2>1. Inv'
    BY <1>0, InvStep
  <2> QED BY <2>1 DEF Inv, TypeOK, B!BTypeOK
<1>2. M!MTypeOK' /\ MetaInv' /\ (published' # <<>> => lists' # {})
  BY <1>0, MetaStep
<1>3. told' \in {"nobody", "mdns", "gossip", "all"}
  BY StepTells DEF NodeStep, TellStep, OTypeOK
<1>4. follow' = follow /\ poll' \in {"none", "polling", "setting", "done"}
  BY StepMeta, PollType DEF OTypeOK
<1>5. OTypeOK'
  BY <1>0, <1>1, <1>2, <1>3, <1>4, AppType, BrowserType DEF OTypeOK
<1>6. OInv'
  BY <1>0, <1>2, LifeStep, RoleStep, ReadyStep, BrowserStep, AccountStep DEF OInv
<1> QED BY <1>1, <1>5, <1>6

LEMMA OInvariance == OSpec => [](Inv /\ OTypeOK /\ OInv)
<1>1. OInit => Inv /\ OTypeOK /\ OInv
  BY OInvInit
<1>2. (Inv /\ OTypeOK /\ OInv) /\ [ONext]_allVars => (Inv /\ OTypeOK /\ OInv)'
  BY OInvStep
<1> QED BY <1>1, <1>2, PTL DEF OSpec

\* Type correctness, buffers included: no change is queued beyond the two channels
\* and the goroutine between them, and nothing is shown to peers without a
\* memberlist.
THEOREM OTypeCorrect == OSpec => []OTypeOK
<1> QED BY OInvariance, PTL

\* WaitForReady never returns nil too early, however the change it receives, the
\* announcement and Stop overtake one another.
THEOREM ReadyComesAfterAnnouncement == OSpec => []ReadyIsAnnounced
<1>1. OInv => ReadyIsAnnounced
  BY DEF OInv, ReadyInv, Ready, ReadyIsAnnounced
<1> QED BY <1>1, OInvariance, PTL

\* Whoever browses mDNS is never told what is not so, whenever the server is
\* replaced and the node is stopped.
THEOREM MDNSTellsTheTruth == OSpec => []MDNSIsTruthful
<1>1. OInv => MDNSIsTruthful
  BY DEF OInv, BrowserInv, Stopped, MDNSIsTruthful
<1> QED BY <1>1, OInvariance, PTL

\* As long as nothing was dropped a subscriber can follow the node from change to
\* change into its present state, for channels of any capacity.
THEOREM SubscriberCanFollow == OSpec => []SubscriberIsInformed
<1>1. OTypeOK /\ OInv => SubscriberIsInformed
  <2> SUFFICES ASSUME OTypeOK, OInv, app = "subscribed", up \/ cGen = 0
               PROVE  LET path == <<<<base, base>>>> \o Underway IN
                      /\ \A i \in 1..(Len(path) - 1) : path[i][2] = path[i + 1][1]
                      /\ path[Len(path)][2] = state
    BY DEF SubscriberIsInformed
  <2>0. /\ change \in {<<>>} \cup Changes /\ queue \in Seq(Changes) /\ base \in B!States
        /\ Linked /\ (change # <<>> => change[2] = state)
    BY DEF OTypeOK, S!STypeOK, OInv, AccountInv, Changes
  <2>1. /\ Underway \in Seq(Changes)
        /\ Underway # <<>> => Underway[1][1] = base
        /\ \A i \in 1..(Len(Underway) - 1) : Underway[i][2] = Underway[i + 1][1]
        /\ state = IF Underway = <<>> THEN base ELSE Underway[Len(Underway)][2]
    <3>1. CASE change = <<>>
      BY <2>0, <3>1 DEF Underway, Linked
    <3>2. CASE change # <<>>
      <4>1. change \in Changes /\ Underway = Append(queue, change)
        BY <2>0, <3>2 DEF Underway
      <4>2. /\ Len(queue) \in Nat /\ Len(Underway) = Len(queue) + 1
            /\ Underway \in Seq(Changes) /\ Underway # <<>>
            /\ \A i \in 1..Len(queue) : Underway[i] = queue[i]
            /\ Underway[Len(queue) + 1] = change
        BY <2>0, <4>1
      <4>3. CASE queue = <<>>
        <5>1. Len(queue) = 0 /\ base = change[1]
          BY <2>0, <3>2, <4>3 DEF Linked
        <5> QED BY <2>0, <3>2, <4>2, <5>1
      <4>4. CASE queue # <<>>
        <5>1. /\ Len(queue) \in 1..Len(queue) /\ 1 \in 1..Len(queue)
              /\ queue[1][1] = base /\ queue[Len(queue)][2] = change[1]
              /\ \A i \in 1..(Len(queue) - 1) : queue[i][2] = queue[i + 1][1]
          BY <2>0, <3>2, <4>4 DEF Linked
        <5>2. ASSUME NEW i \in 1..(Len(Underway) - 1)
              PROVE  Underway[i][2] = Underway[i + 1][1]
          <6>1. CASE i = Len(queue)
            BY <4>2, <5>1, <6>1
          <6>2. CASE i # Len(queue)
            <7>1. i \in 1..(Len(queue) - 1) /\ i + 1 \in 1..Len(queue) /\ i \in 1..Len(queue)
              BY <4>2, <6>2
            <7> QED BY <4>2, <5>1, <7>1
          <6> QED BY <6>1, <6>2
        <5> QED BY <2>0, <3>2, <4>2, <5>1, <5>2
      <4> QED BY <4>3, <4>4
    <3> QED BY <3>1, <3>2
  <2> DEFINE path == <<<<base, base>>>> \o Underway
  <2>2. /\ Len(Underway) \in Nat /\ Len(path) = Len(Underway) + 1
        /\ path[1] = <<base, base>>
        /\ \A i \in 1..Len(Underway) : path[i + 1] = Underway[i]
    <3>1. <<<<base, base>>>> \in Seq(Changes) /\ Len(<<<<base, base>>>>) = 1
      BY <2>0 DEF Changes
    <3>2. \A s, t \in Seq(Changes) :
             /\ Len(s \o t) = Len(s) + Len(t)
             /\ \A i \in 1..(Len(s) + Len(t)) :
                   (s \o t)[i] = IF i <= Len(s) THEN s[i] ELSE t[i - Len(s)]
      OBVIOUS
    <3> QED BY <2>1, <3>1, <3>2
  <2> HIDE DEF path
  <2>3. ASSUME NEW i \in 1..(Len(path) - 1)
        PROVE  path[i][2] = path[i + 1][1]
    <3>0. i \in 1..Len(Underway) /\ Underway # <<>>
      BY <2>1, <2>2
    <3>1. CASE i = 1
      BY <2>1, <2>2, <3>0, <3>1
    <3>2. CASE i # 1
      <4>1. /\ i - 1 \in 1..(Len(Underway) - 1) /\ i - 1 \in 1..Len(Underway)
            /\ (i - 1) + 1 = i
        BY <2>2, <3>0, <3>2
      <4>2. path[i] = Underway[i - 1] /\ path[i + 1] = Underway[i]
        BY <2>2, <3>0, <4>1
      <4> QED BY <2>1, <4>1, <4>2
    <3> QED BY <3>1, <3>2
  <2>4. path[Len(path)][2] = state
    <3>1. CASE Underway = <<>>
      BY <2>1, <2>2, <3>1
    <3>2. CASE Underway # <<>>
      <4>1. Len(Underway) \in 1..Len(Underway)
        BY <2>1, <3>2
      <4> QED BY <2>1, <2>2, <3>2, <4>1
    <3> QED BY <3>1, <3>2
  <2> QED BY <2>3, <2>4 DEF path
<1> QED BY <1>1, OInvariance, PTL

---------------------------------------------------------------------------
(* Reading the metadata *)

\* A Raft address, a gRPC address, the node's own one and the flag fit.
AddressesFit == 3 * AddrSize + 25 <= MetaMaxSize

LEMMA PartSizes ==
  ASSUME NEW f \in M!Fields
  PROVE  /\ M!Size(f, 1) = AddrSize
         /\ M!Size(f, 2) = 6 + AddrSize
         /\ M!Size(f, 3) = IF f.grpc THEN 6 + AddrSize ELSE 0
         /\ M!Size(f, 4) = IF f.boot THEN 13 ELSE 0
         /\ M!Size(f, 5) = IF f.app > 0 THEN 5 + M!EncodedSize(f.app) ELSE 0
<1>1. AddrSize \in Nat /\ M!EncodedSize(f.app) \in Nat
  <2>1. f.app \in Nat
    BY DEF M!Fields
  <2> QED BY <2>1, ObserversAssumption DEF M!EncodedSize
<1>2. M!Order[1] = "addr" /\ M!Order[2] = "raft" /\ M!Order[3] = "grpc"
      /\ M!Order[4] = "boot" /\ M!Order[5] = "app"
  BY DEF M!Order
<1> USE <1>1, <1>2 DEF M!Size, M!Appears, M!KeySize, M!ValueSize
<1>3. M!Size(f, 1) = AddrSize
  OBVIOUS
<1>4. M!Size(f, 2) = 6 + AddrSize
  OBVIOUS
<1>5. M!Size(f, 3) = IF f.grpc THEN 6 + AddrSize ELSE 0
  OBVIOUS
<1>6. M!Size(f, 4) = IF f.boot THEN 13 ELSE 0
  OBVIOUS
<1>7. M!Size(f, 5) = IF f.app > 0 THEN 5 + M!EncodedSize(f.app) ELSE 0
  OBVIOUS
<1> QED BY <1>3, <1>4, <1>5, <1>6, <1>7

LEMMA PartIndices ==
  /\ M!Index("raft") = 2 /\ M!Index("grpc") = 3 /\ M!Index("boot") = 4 /\ M!Index("app") = 5
<1>1. /\ M!Order = <<"addr", "raft", "grpc", "boot", "app">> /\ Len(M!Order) = 5
  BY DEF M!Order
<1>2. ASSUME NEW k \in 2..5
      PROVE  M!Index(M!Order[k]) = k
  <2>1. k \in 1..Len(M!Order) /\ \A i \in 1..Len(M!Order) : M!Order[i] = M!Order[k] => i = k
    BY <1>1
  <2> QED BY <2>1 DEF M!Index
<1>3. /\ M!Order[2] = "raft" /\ M!Order[3] = "grpc" /\ M!Order[4] = "boot"
      /\ M!Order[5] = "app"
  BY <1>1
<1>4. /\ M!Index(M!Order[2]) = 2 /\ M!Index(M!Order[3]) = 3 /\ M!Index(M!Order[4]) = 4
      /\ M!Index(M!Order[5]) = 5
  BY <1>2
<1> QED BY <1>3, <1>4

\* Whatever the application's part, the parts before it are kept whole.
LEMMA PartsAreKept ==
  ASSUME NEW f \in M!Fields, AddressesFit
  PROVE  /\ M!Kept(f, 2) = M!Size(f, 2)
         /\ M!Kept(f, 3) = M!Size(f, 3)
         /\ M!Kept(f, 4) = M!Size(f, 4)
         /\ M!Offset(f, 6) <= MetaMaxSize => M!Kept(f, 5) = M!Size(f, 5)
<1>0. /\ AddrSize \in Nat \ {0} /\ MetaMaxSize \in Nat
      /\ 3 * AddrSize + 25 <= MetaMaxSize
      /\ f.grpc \in BOOLEAN /\ f.boot \in BOOLEAN /\ f.app \in Nat
  BY ObserversAssumption DEF AddressesFit, M!Fields
<1>1. /\ M!Size(f, 1) = AddrSize /\ M!Size(f, 2) = 6 + AddrSize
      /\ M!Size(f, 3) \in Nat /\ M!Size(f, 3) <= 6 + AddrSize
      /\ M!Size(f, 4) \in Nat /\ M!Size(f, 4) <= 13
      /\ M!Size(f, 5) \in Nat
  <2>1. M!EncodedSize(f.app) \in Nat
    BY <1>0 DEF M!EncodedSize
  <2> QED BY <1>0, <2>1, PartSizes
<1>2. /\ M!Offset(f, 2) = M!Size(f, 1)
      /\ M!Offset(f, 3) = M!Size(f, 1) + M!Size(f, 2)
      /\ M!Offset(f, 4) = M!Size(f, 1) + M!Size(f, 2) + M!Size(f, 3)
      /\ M!Offset(f, 5) = M!Size(f, 1) + M!Size(f, 2) + M!Size(f, 3) + M!Size(f, 4)
      /\ M!Offset(f, 6) = M!Offset(f, 5) + M!Size(f, 5)
  BY <1>0, <1>1 DEF M!Offset
<1>3. /\ M!Offset(f, 2) + M!Size(f, 2) <= MetaMaxSize
      /\ M!Offset(f, 3) + M!Size(f, 3) <= MetaMaxSize
      /\ M!Offset(f, 4) + M!Size(f, 4) <= MetaMaxSize
  BY <1>0, <1>1, <1>2
<1> QED BY <1>2, <1>3 DEF M!Kept

\* The flag is read whenever it was set when the metadata was encoded.
LEMMA FlagIsRead ==
  ASSUME NEW f \in M!Fields, AddressesFit, f.boot
  PROVE  M!ReadBoot(f)
<1>1. M!Kept(f, 4) = 13
  BY PartsAreKept, PartSizes
<1>2. M!KeySize("boot") = 13
  BY DEF M!KeySize
<1> QED BY <1>1, <1>2, PartIndices DEF M!ReadBoot

\* The leader never reads the address of a Raft that runs without the flag, in
\* whichever order the setters of four goroutines encode and publish.
THEOREM FlagComesWithAddress ==
  ASSUME AddressesFit
  PROVE  OSpec => []AddressComesWithFlag
<1>1. OTypeOK /\ OInv => AddressComesWithFlag
  <2> SUFFICES ASSUME OTypeOK, OInv, published # <<>>, published.raft = "real"
               PROVE  M!ReadBoot(published)
    BY DEF AddressComesWithFlag
  <2>1. published \in M!Fields /\ published.boot
    BY DEF OTypeOK, M!MTypeOK, OInv, MetaInv, Consistent
  <2> QED BY <2>1, FlagIsRead
<1> QED BY <1>1, OInvariance, PTL

\* Metadata of the application, however long, costs a peer nothing else, and if all
\* of it fits it arrives whole.
THEOREM PeersRead ==
  ASSUME AddressesFit
  PROVE  OSpec => []PeersReadWhatWasMeant
<1>1. OTypeOK => PeersReadWhatWasMeant
  <2> SUFFICES ASSUME OTypeOK, published # <<>>
               PROVE  /\ M!ReadAddr(published, "raft") = "whole"
                      /\ published.grpc => M!ReadAddr(published, "grpc") = "whole"
                      /\ published.boot => M!ReadBoot(published)
                      /\ M!Offset(published, 6) <= MetaMaxSize /\ published.app > 0 =>
                            M!ReadApp(published) = "whole"
    BY DEF PeersReadWhatWasMeant
  <2>0. /\ published \in M!Fields /\ published.app \in Nat /\ AddrSize \in Nat \ {0}
        /\ 6 + AddrSize > 6 /\ ~(6 + AddrSize <= 6)
    BY ObserversAssumption DEF OTypeOK, M!MTypeOK, M!Fields
  <2>1. M!KeySize("raft") = 6 /\ M!KeySize("grpc") = 6 /\ M!KeySize("app") = 5
    BY DEF M!KeySize
  <2>2. M!ReadAddr(published, "raft") = "whole"
    <3>1. M!Kept(published, 2) = 6 + AddrSize /\ M!Size(published, 2) = 6 + AddrSize
      BY <2>0, PartsAreKept, PartSizes
    <3> QED BY <2>0, <2>1, <3>1, PartIndices DEF M!ReadAddr
  <2>3. ASSUME published.grpc
        PROVE  M!ReadAddr(published, "grpc") = "whole"
    <3>1. M!Kept(published, 3) = 6 + AddrSize /\ M!Size(published, 3) = 6 + AddrSize
      BY <2>0, <2>3, PartsAreKept, PartSizes
    <3> QED BY <2>0, <2>1, <3>1, PartIndices DEF M!ReadAddr
  <2>4. ASSUME published.boot
        PROVE  M!ReadBoot(published)
    BY <2>0, <2>4, FlagIsRead
  <2>5. ASSUME M!Offset(published, 6) <= MetaMaxSize, published.app > 0
        PROVE  M!ReadApp(published) = "whole"
    <3>1. M!EncodedSize(published.app) \in Nat /\ M!EncodedSize(published.app) > 0
      BY <2>0, <2>5 DEF M!EncodedSize
    <3>2. M!Kept(published, 5) = 5 + M!EncodedSize(published.app)
      BY <2>0, <2>5, PartsAreKept, PartSizes
    <3>3. /\ M!Kept(published, 5) - 5 = M!EncodedSize(published.app)
          /\ ~(M!Kept(published, 5) <= 5) /\ published.app # 0
      BY <2>0, <2>5, <3>1, <3>2
    <3> QED BY <2>1, <3>3, PartIndices DEF M!ReadApp
  <2> QED BY <2>2, <2>3, <2>4, <2>5
<1> QED BY <1>1, OInvariance, PTL
===========================================================================
