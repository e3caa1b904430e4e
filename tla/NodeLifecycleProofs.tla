------------------------ MODULE NodeLifecycleProofs ------------------------
(***************************************************************************)
(* Proofs about NodeLifecycle for any number of Starts.                    *)
(*                                                                         *)
(* Two groups of facts.  Some hold whenever Stop is called: they are about *)
(* channels that are made, read and closed by different goroutines.  The   *)
(* others hold as long as every Stop finds the node at rest: then no       *)
(* goroutine of one life is left when the next begins, and each of the     *)
(* promises of Stop follows from what the one life at hand does.           *)
(***************************************************************************)
EXTENDS NodeLifecycle, FiniteSetTheorems, TLAPS

\* Where waitForBootstrap may be: anywhere, before its callback, past its poll.
WaiterStates == {"none", "called", "done", "ticking", "complete", "bootstrap", "join"}
Awake == {"ticking", "complete", "bootstrap", "join"}
Decides == {"complete", "bootstrap", "join"}

USE DEF WaiterStates, Awake, Decides

---------------------------------------------------------------------------
(* Whenever Stop is called *)

\* Somebody has closed or is going to close the present stoppedCh.
Awaited ==
    \/ gen \in stoppedClosed
    \/ \E g \in Gens : at[g] \notin {"none", "spawned", "done"} /\ deferred[g] = gen
    \/ at[gen] = "spawned"

\* The run goroutines, their channels and what they leave behind.
LoopInv ==
    /\ \A g \in Gens : at[g] = "none" <=> g > gen
    /\ \A g \in Gens : at[g] \notin {"none", "spawned", "done"} => deferred[g] \in g..gen
    /\ stoppedClosed \subseteq 1..gen
    /\ gen > 0 => Awaited
    /\ lists \subseteq {gossip}
    /\ did => \E g \in Gens : role[g] = "founder"
    /\ \A g \in Gens : role[g] = "founder" => at[g] \in {"announce", "exit", "done"}

\* The caller, and the goroutines that wait for the bootstrap.
CallerInv ==
    /\ up => gen > 0
    /\ caller = "waiting" => up
    /\ \A g \in Gens :
          /\ waiter[g] = "none" <=> g > gen
          /\ call[g] # "idle" => waiter[g] = "called"
          /\ loop[g] => call[g] = "returned"

\* A reset that began because of a Shutdown does not get past its close.
ChannelInv ==
    /\ \A k \in Nat : k < stopCh => k \in closed
    /\ \A g \in Gens :
          /\ watches[g] <= stopCh
          /\ call[g] \in {"rejected", "jitter"} => verdict[g] # "none"
          /\ verdict[g] = "shutdown" =>
                rPanic \/ (call[g] = "rejected" /\ stopCh \in closed)
    /\ seeded # {} => did

\* OnBootstrap is due only if DidBootstrap has said yes, and it never takes it back.
FounderInv == \A g \in Gens : waiter[g] = "bootstrap" => did

Inv == TypeOK /\ LoopInv /\ CallerInv /\ ChannelInv /\ FounderInv

---------------------------------------------------------------------------
(* As long as every Stop is a quiet one *)

InCallback(g) == call[g] \in {"joined", "accepting", "rejected", "jitter"}

\* Only the goroutines of the present life are under way, and only while it lasts.
OneLife ==
    /\ \A g \in Gens : at[g] \notin {"none", "done"} => g = gen /\ up
    /\ \A g \in Gens : waiter[g] \in Awake \/ InCallback(g) =>
          g = gen /\ up /\ caller = "idle"
    /\ up /\ state \in {"Running", "Failed"} => at[gen] \in {"exit", "done"}
    /\ caller # "idle" /\ up => state \in {"Running", "Failed"}
    /\ gen \in stoppedClosed => at[gen] = "done"
    /\ ~bPanic

\* Raft runs for the present life only, and once.
OneRaft ==
    /\ live \subseteq {raft}
    /\ running <=> raft # 0
    /\ ~up \/ caller # "idle" => raft = 0
    /\ ~up => LeaveMayFail \/ lists = {}
    /\ \A g \in Gens :
          /\ waiter[g] \in Awake => raft = 0
          /\ call[g] = "jitter" => raft = 0
          /\ call[g] \in {"joined", "accepting", "rejected"} => raft # 0

\* A reconciliation goroutine of an earlier life watches a closed channel.
OneLoop ==
    \A g \in Gens : loop[g] =>
        /\ g # gen => watches[g] \in closed
        /\ rPanic \/ stopCh \in closed \/ (g = gen /\ running)

\* A node that founds a cluster wipes its storages no more.
OneCluster ==
    /\ \A g \in Gens : waiter[g] \in Decides \/ InCallback(g) =>
          at[gen] \in {"exit", "done"}
    /\ \A g \in Gens : waiter[g] \in Decides => state = "Running"
    /\ \A g \in Gens : waiter[g] = "join" \/ InCallback(g) => ~did
    /\ seeded # {} => disk
    /\ \A g, h \in seeded : g = h

\* The first Stop finds its channel open.
FirstStop ==
    /\ cGen = 0 => stopCh \notin closed /\ ~up
    /\ cGen <= 1 => ~rPanic
    /\ cGen <= 1 /\ up /\ caller = "idle" => stopCh \notin closed

QuietInv == quiet => OneLife /\ OneRaft /\ OneLoop /\ OneCluster /\ FirstStop

---------------------------------------------------------------------------
(* The steps *)

\* What the goroutines of Raft's side and of the run loop leave alone.
LEMMA Frames ==
  /\ \A g : RunLoop(g) => UNCHANGED <<rVars, nVars, gen, stopClosed, cancelled>>
  /\ CancelContext => UNCHANGED <<rVars, nVars, state, gen, stopClosed, stoppedClosed, at,
                                  deferred, did, gossip, lists, role, bPanic>>
  /\ \A g : Callback(g) \/ Reconcile(g) => UNCHANGED <<bVars, nVars>>
  /\ Persist => UNCHANGED <<bVars, nVars>>
  /\ \A g : WaiterStops(g) \/ WaiterTicks(g) \/ AskDidBootstrap(g) =>
        UNCHANGED <<bVars, rVars, up, cGen, cClosed, caller, quiet>>
  BY DEF RunLoop, CancelContext, Callback, Reconcile, Persist, WaiterStops, WaiterTicks,
     AskDidBootstrap,
         B!Run, B!Enter, B!StartMDNSAdvertiser, B!StartGossip, B!Head, B!TryJoin, B!Joined,
         B!FoundCluster, B!Retry, B!Backoff, B!Announce, B!Exit, B!Cancel

---------------------------------------------------------------------------
(* Type correctness *)

\* A flag that says whether a channel was closed already.
LEMMA ClosedFlag ==
  ASSUME NEW flag, NEW ch, NEW chans, flag = (ch \in chans)
  PROVE  flag \in BOOLEAN
  OBVIOUS

LEMMA RunLoopType ==
  ASSUME TypeOK, LoopInv, NEW g \in Gens, RunLoop(g)
  PROVE  B!BTypeOK'
<1> USE LifecycleAssumption
    DEF TypeOK, B!BTypeOK, B!Gens, Gens, B!States, B!Locations, B!Goto, B!Run, RunLoop
<1>1. CASE B!Enter(g)
  BY <1>1 DEF B!Enter
<1>2. CASE B!StartMDNSAdvertiser(g)
  BY <1>2 DEF B!StartMDNSAdvertiser
<1>3. CASE B!StartGossip(g)
  <2>1. CASE lists' = {g} /\ gossip' = g /\ state' = "GossipUp" /\ B!Goto(g, "head")
    BY <1>3, <2>1 DEF B!StartGossip
  <2>2. CASE state' = "Failed" /\ B!Goto(g, "exit") /\ UNCHANGED <<lists, gossip>>
    BY <1>3, <2>2 DEF B!StartGossip
  <2> QED BY <1>3, <2>1, <2>2 DEF B!StartGossip
<1>4. CASE B!Head(g)
  BY <1>4 DEF B!Head
<1>5. CASE B!TryJoin(g)
  BY <1>5 DEF B!TryJoin
<1>6. CASE B!Joined(g)
  BY <1>6 DEF B!Joined
<1>7. CASE B!FoundCluster(g)
  BY <1>7 DEF B!FoundCluster
<1>8. CASE B!Retry(g)
  BY <1>8 DEF B!Retry
<1>9. CASE B!Backoff(g)
  BY <1>9 DEF B!Backoff
<1>10. CASE B!Announce(g)
  BY <1>10 DEF B!Announce
<1>11. CASE B!Exit(g)
  <2>1. deferred[g] \in g..gen
    BY <1>11 DEF B!Exit, LoopInv
  <2>2. deferred[g] \in 1..MaxStarts
    BY <2>1
  <2>3. bPanic' = (deferred[g] \in stoppedClosed)
    BY <1>11 DEF B!Exit
  <2>4. bPanic' \in BOOLEAN
    BY ONLY <2>3, ClosedFlag
  <2>5. UNCHANGED <<state, gen, stopClosed, did, gossip, lists, cancelled, role>>
    BY <1>11 DEF B!Exit
  <2>6. /\ stoppedClosed' \subseteq Gens
        /\ at' \in [Gens -> B!Locations]
        /\ deferred' \in [Gens -> 0..MaxStarts]
    <3>1. /\ stoppedClosed' = stoppedClosed \cup {deferred[g]}
          /\ at' = [at EXCEPT ![g] = "done"]
          /\ deferred' = [deferred EXCEPT ![g] = 0]
      BY <1>11 DEF B!Exit
    <3>2. stoppedClosed' \subseteq Gens
      BY <2>2, <3>1
    <3>3. at' \in [Gens -> B!Locations]
      BY <3>1
    <3>4. deferred' \in [Gens -> 0..MaxStarts]
      BY <3>1
    <3> QED BY <3>2, <3>3, <3>4
  <2> QED BY <2>4, <2>5, <2>6
<1> QED BY <1>1, <1>2, <1>3, <1>4, <1>5, <1>6, <1>7, <1>8, <1>9, <1>10, <1>11

\* The numbers, the flags and the goroutines of raft.Node.
RNumbers ==
    /\ raft \in Nat /\ made \in Nat /\ stopCh \in Nat
    /\ live \subseteq 1..made
    /\ raft # 0 => raft \in live
    /\ closed \subseteq 0..stopCh

RFlags == running \in BOOLEAN /\ disk \in BOOLEAN /\ rPanic \in BOOLEAN

RThreads ==
    /\ call \in [Gens -> R!Calls]
    /\ verdict \in [Gens -> R!Verdicts]
    /\ seeded \subseteq Gens
    /\ loop \in [Gens -> BOOLEAN]
    /\ watches \in [Gens -> Nat]

RaftStep(t) ==
    \/ R!OnBootstrap(t) \/ R!OnJoin(t) \/ R!Callback(t) \/ R!ReconcileLoop(t)
    \/ R!Persist \/ R!Shutdown

LEMMA RaftNumbers ==
  ASSUME RNumbers, NEW t \in Gens, RaftStep(t)
  PROVE  RNumbers'
<1> USE DEF RNumbers, R!StartRaft, R!StartFails
<1>1. CASE R!OnBootstrap(t) \/ R!OnJoin(t) \/ R!EndReset(t)
  <2>1. UNCHANGED <<stopCh, closed>> /\ (R!StartRaft \/ R!StartFails)
    BY <1>1 DEF R!OnBootstrap, R!OnJoin, R!EndReset
  <2>2. CASE R!StartRaft
    BY <2>1, <2>2
  <2>3. CASE R!StartFails
    BY <2>1, <2>3
  <2> QED BY <2>1, <2>2, <2>3
<1>2. CASE R!CheckState(t) \/ R!WaitForAcceptance(t) \/ R!ReconcileLoop(t) \/ R!Persist
  BY <1>2 DEF R!CheckState, R!WaitForAcceptance, R!ReconcileLoop, R!Persist
<1>3. CASE R!BeginReset(t)
  BY <1>3 DEF R!BeginReset
<1>4. CASE R!Shutdown
  <2>1. CASE UNCHANGED <<raft, live, made, stopCh, closed>>
    BY <2>1
  <2>2. CASE /\ raft' = 0 /\ live' = live \ {raft} /\ closed' = closed \cup {stopCh}
             /\ UNCHANGED <<made, stopCh>>
    BY <2>2
  <2> QED BY <1>4, <2>1, <2>2 DEF R!Shutdown, R!rVars
<1> QED BY <1>1, <1>2, <1>3, <1>4 DEF RaftStep, R!Callback

LEMMA RaftFlags ==
  ASSUME RFlags, NEW t \in Gens, RaftStep(t)
  PROVE  RFlags'
<1> USE DEF RFlags, R!StartRaft, R!StartFails
<1>1. CASE R!OnBootstrap(t) \/ R!OnJoin(t)
  BY <1>1, Zenon DEF R!OnBootstrap, R!OnJoin, R!BootstrapCluster
<1>5. CASE R!EndReset(t)
  BY <1>5, Zenon DEF R!EndReset
<1>2. CASE R!CheckState(t) \/ R!WaitForAcceptance(t) \/ R!ReconcileLoop(t) \/ R!Persist
  BY <1>2, Zenon DEF R!CheckState, R!WaitForAcceptance, R!ReconcileLoop, R!Persist
<1>3. CASE R!BeginReset(t)
  <2>1. running' = FALSE /\ disk' = disk /\ rPanic' = (stopCh \in closed)
    BY <1>3 DEF R!BeginReset
  <2>2. rPanic' \in BOOLEAN
    BY <2>1, ClosedFlag
  <2> QED BY <2>1, <2>2
<1>4. CASE R!Shutdown
  <2>1. CASE running' = FALSE /\ disk' = disk /\ rPanic' = (stopCh \in closed)
    <3>1. rPanic' \in BOOLEAN
      BY <2>1, ClosedFlag
    <3> QED BY <2>1, <3>1
  <2>2. CASE UNCHANGED <<running, disk, rPanic>>
    BY <2>2
  <2> QED BY <1>4, <2>1, <2>2 DEF R!Shutdown, R!rVars
<1> QED BY <1>1, <1>2, <1>3, <1>4, <1>5 DEF RaftStep, R!Callback

LEMMA RaftThreads ==
  ASSUME RThreads, stopCh \in Nat, NEW t \in Gens, RaftStep(t)
  PROVE  RThreads'
<1> USE DEF RThreads, R!Goto, R!SpawnLoop, R!Calls, R!Verdicts
<1>1. CASE R!OnBootstrap(t)
  BY <1>1 DEF R!OnBootstrap, R!BootstrapCluster
<1>2. CASE R!OnJoin(t)
  BY <1>2 DEF R!OnJoin
<1>3. CASE R!CheckState(t)
  BY <1>3 DEF R!CheckState
<1>4. CASE R!WaitForAcceptance(t)
  BY <1>4 DEF R!WaitForAcceptance, R!Refusals
<1>5. CASE R!BeginReset(t)
  BY <1>5 DEF R!BeginReset
<1>6. CASE R!EndReset(t)
  BY <1>6 DEF R!EndReset
<1>7. CASE R!ReconcileLoop(t)
  <2>1. UNCHANGED <<call, verdict, seeded>>
    BY <1>7 DEF R!ReconcileLoop
  <2>2. loop' \in [Gens -> BOOLEAN] /\ watches' \in [Gens -> Nat]
    <3>1. CASE loop' = [loop EXCEPT ![t] = FALSE] /\ watches' = [watches EXCEPT ![t] = 0]
      BY <3>1
    <3>2. CASE loop' = loop /\ watches' = [watches EXCEPT ![t] = stopCh]
      BY <3>2
    <3> QED BY <1>7, <3>1, <3>2 DEF R!ReconcileLoop
  <2> QED BY <2>1, <2>2
<1>8. CASE R!Persist
  BY <1>8 DEF R!Persist
<1>9. CASE R!Shutdown
  BY <1>9 DEF R!Shutdown, R!rVars
<1> QED BY <1>1, <1>2, <1>3, <1>4, <1>5, <1>6, <1>7, <1>8, <1>9 DEF RaftStep, R!Callback

\* The object raft.Node keeps its types whoever calls it.
LEMMA RaftType ==
  ASSUME R!RTypeOK, NEW t \in Gens, RaftStep(t)
  PROVE  R!RTypeOK'
<1>1. RNumbers /\ RFlags /\ RThreads
  BY DEF R!RTypeOK, RNumbers, RFlags, RThreads, Gens
<1>2. RNumbers' /\ RFlags' /\ RThreads'
  BY <1>1, RaftNumbers, RaftFlags, RaftThreads DEF RNumbers
<1> QED BY <1>2 DEF R!RTypeOK, RNumbers, RFlags, RThreads, Gens

\* The variables of consensus.Node.
NTypeOK ==
    /\ up \in BOOLEAN
    /\ cGen \in 0..MaxStarts
    /\ cClosed \subseteq 0..MaxStarts
    /\ waiter \in [Gens -> WaiterStates]
    /\ selects \in [Gens -> 0..MaxStarts]
    /\ caller \in {"idle", "raftDown", "waiting"}
    /\ quiet \in BOOLEAN

LEMMA StartType ==
  ASSUME TypeOK, Start
  PROVE  TypeOK'
<1> USE LifecycleAssumption DEF Gens, B!Gens
<1>1. R!RTypeOK'
  BY DEF TypeOK, Start, rVars, R!RTypeOK
<1>2. CASE B!BStart /\ up' = TRUE /\ waiter' = [waiter EXCEPT ![gen + 1] = "ticking"]
           /\ selects' = [selects EXCEPT ![gen + 1] = cGen + 1]
  <2>1. B!BTypeOK'
    <3>1. gen + 1 \in Gens /\ gen' = gen + 1 /\ state' = "Init"
      BY <1>2 DEF TypeOK, B!BTypeOK, B!BStart
    <3>2. at' \in [Gens -> B!Locations]
      BY <1>2, <3>1 DEF TypeOK, B!BTypeOK, B!BStart, B!Locations
    <3>3. UNCHANGED <<stopClosed, stoppedClosed, deferred, did, gossip, lists, cancelled,
                      role, bPanic>>
      BY <1>2 DEF B!BStart
    <3> QED BY <3>1, <3>2, <3>3 DEF TypeOK, B!BTypeOK, B!States
  <2>2. NTypeOK'
    <3>1. gen + 1 \in Gens
      BY <1>2 DEF TypeOK, B!BTypeOK, B!BStart
    <3>2. cGen' \in 0..MaxStarts /\ selects' \in [Gens -> 0..MaxStarts]
      BY <1>2, <3>1 DEF TypeOK, Start
    <3>3. waiter' \in [Gens -> WaiterStates]
      BY <1>2, <3>1 DEF TypeOK
    <3> QED BY <1>2, <3>2, <3>3 DEF TypeOK, NTypeOK, Start
  <2> QED BY <1>1, <2>1, <2>2 DEF TypeOK, NTypeOK
<1>3. CASE UNCHANGED <<bVars, up, waiter, selects>>
  <2>1. B!BTypeOK'
    BY <1>3 DEF TypeOK, B!BTypeOK, bVars
  <2>2. NTypeOK'
    BY <1>3 DEF TypeOK, NTypeOK, Start
  <2> QED BY <1>1, <2>1, <2>2 DEF TypeOK, NTypeOK
<1> QED BY <1>2, <1>3 DEF Start

LEMMA StopType ==
  ASSUME TypeOK, CallerInv, StopRaft \/ StopConsensus \/ StopFinish
  PROVE  TypeOK'
<1> USE LifecycleAssumption DEF Gens, B!Gens
<1>1. CASE StopRaft
  <2>1. R!RTypeOK'
    BY <1>1, RaftType DEF TypeOK, StopRaft, RaftStep
  <2>2. B!BTypeOK'
    BY <1>1 DEF TypeOK, B!BTypeOK, StopRaft, bVars
  <2>3. quiet' = (quiet /\ (up => Quiet))
    BY <1>1 DEF StopRaft
  <2>4. quiet' \in BOOLEAN
    BY ONLY <2>3
  <2>5. NTypeOK'
    BY <1>1, <2>4 DEF TypeOK, NTypeOK, StopRaft
  <2> QED BY <2>1, <2>2, <2>5 DEF TypeOK, NTypeOK
<1>2. CASE StopConsensus
  <2>1. R!RTypeOK'
    BY <1>2 DEF TypeOK, StopConsensus, rVars, R!RTypeOK
  <2>2. CASE UNCHANGED bVars
    <3>1. B!BTypeOK'
      BY <2>2 DEF TypeOK, B!BTypeOK, bVars
    <3>2. NTypeOK'
      BY <1>2 DEF TypeOK, NTypeOK, StopConsensus
    <3> QED BY <2>1, <3>1, <3>2 DEF TypeOK, NTypeOK
  <2>3. CASE up /\ B!BStopSignal
    <3>1. B!BTypeOK'
      <4>1. gen \in Gens
        BY <1>2, <2>3 DEF CallerInv, StopConsensus, TypeOK, B!BTypeOK
      <4> QED BY <2>3, <4>1 DEF TypeOK, B!BTypeOK, B!BStopSignal
    <3>2. NTypeOK'
      BY <1>2 DEF TypeOK, NTypeOK, StopConsensus
    <3> QED BY <2>1, <3>1, <3>2 DEF TypeOK, NTypeOK
  <2> QED BY <1>2, <2>2, <2>3 DEF StopConsensus
<1>3. CASE StopFinish
  <2>1. R!RTypeOK'
    BY <1>3 DEF TypeOK, StopFinish, rVars, R!RTypeOK
  <2>2. B!BTypeOK'
    BY <1>3 DEF TypeOK, B!BTypeOK, StopFinish, B!BStopFinish, B!StopGossip, B!States
  <2>3. NTypeOK'
    BY <1>3 DEF TypeOK, NTypeOK, StopFinish
  <2> QED BY <2>1, <2>2, <2>3 DEF TypeOK, NTypeOK
<1> QED BY <1>1, <1>2, <1>3

LEMMA WaiterType ==
  ASSUME TypeOK, NEW g \in Gens, Waiter(g)
  PROVE  TypeOK'
<1> USE LifecycleAssumption
<1>1. CASE WaiterStops(g) \/ WaiterTicks(g) \/ AskDidBootstrap(g)
  <2>1. UNCHANGED <<bVars, rVars, up, cGen, cClosed, caller, quiet>>
    BY <1>1 DEF WaiterStops, WaiterTicks, AskDidBootstrap
  <2>2. B!BTypeOK' /\ R!RTypeOK'
    BY <2>1 DEF TypeOK, B!BTypeOK, R!RTypeOK, bVars, rVars
  <2>3. waiter' \in [Gens -> WaiterStates]
    BY <1>1 DEF TypeOK, WaiterStops, WaiterTicks, AskDidBootstrap, WaiterLeaves
  <2>4. selects' \in [Gens -> 0..MaxStarts]
    BY <1>1 DEF TypeOK, WaiterStops, WaiterTicks, AskDidBootstrap, WaiterLeaves
  <2> QED BY <2>1, <2>2, <2>3, <2>4 DEF TypeOK
<1>2. CASE OnBootstrapComplete(g)
  <2>1. R!RTypeOK'
    BY <1>2, RaftType DEF TypeOK, OnBootstrapComplete, RaftStep
  <2>2. B!BTypeOK'
    BY <1>2 DEF TypeOK, B!BTypeOK, OnBootstrapComplete, bVars
  <2>3. waiter' = [waiter EXCEPT ![g] = "called"]
        /\ UNCHANGED <<up, cGen, cClosed, selects, caller, quiet>>
    BY <1>2 DEF OnBootstrapComplete
  <2> QED BY <2>1, <2>2, <2>3 DEF TypeOK
<1> QED BY <1>1, <1>2 DEF Waiter

LEMMA TypeStep ==
  ASSUME TypeOK, LoopInv, CallerInv, [Next]_vars
  PROVE  TypeOK'
<1>1. CASE UNCHANGED vars
  BY <1>1 DEF TypeOK, B!BTypeOK, R!RTypeOK, vars, bVars, rVars, nVars
<1>2. CASE Start
  BY <1>2, StartType
<1>3. CASE StopRaft \/ StopConsensus \/ StopFinish
  BY <1>3, StopType
<1>4. CASE CancelContext
  <2>1. B!BTypeOK'
    BY <1>4, LifecycleAssumption DEF TypeOK, B!BTypeOK, CancelContext, B!Cancel, B!Gens
  <2>2. UNCHANGED <<rVars, nVars>>
    BY <1>4 DEF CancelContext
  <2> QED BY <2>1, <2>2 DEF TypeOK, R!RTypeOK, rVars, nVars
<1>5. ASSUME NEW g \in Gens, RunLoop(g)
      PROVE  TypeOK'
  <2>1. B!BTypeOK'
    BY <1>5, RunLoopType
  <2>2. UNCHANGED <<rVars, nVars>>
    BY <1>5, Frames
  <2> QED BY <2>1, <2>2 DEF TypeOK, R!RTypeOK, rVars, nVars
<1>6. ASSUME NEW g \in Gens, Waiter(g)
      PROVE  TypeOK'
  BY <1>6, WaiterType
<1>7. ASSUME NEW g \in Gens, Callback(g) \/ Reconcile(g) \/ Persist
      PROVE  TypeOK'
  <2>1. R!RTypeOK'
    BY <1>7, RaftType DEF TypeOK, Callback, Reconcile, Persist, RaftStep
  <2>2. UNCHANGED <<bVars, nVars>>
    BY <1>7, Frames
  <2> QED BY <2>1, <2>2 DEF TypeOK, B!BTypeOK, bVars, nVars
<1>8. CASE Persist
  <2>1. 1 \in Gens
    BY LifecycleAssumption DEF Gens
  <2> QED BY <1>7, <1>8, <2>1
<1> QED BY <1>1, <1>2, <1>3, <1>4, <1>5, <1>6, <1>7, <1>8 DEF Next

---------------------------------------------------------------------------
(* The run goroutines *)

\* Between the evaluation of its defer and its close.
Midway == B!Locations \ {"none", "spawned", "done"}

Moves(g) ==
    /\ at[g] \in Midway
    /\ \E l \in Midway : at' = [at EXCEPT ![g] = l]
    /\ UNCHANGED <<deferred, stoppedClosed, bPanic>>

\* Only its first step and its last touch the channels.
LEMMA RunLoopMoves ==
  ASSUME NEW g \in Gens, RunLoop(g)
  PROVE  B!Enter(g) \/ B!Exit(g) \/ Moves(g)
<1> USE DEF Moves, Midway, B!Locations, B!Goto, B!Run, RunLoop
<1>1. CASE B!StartMDNSAdvertiser(g) \/ B!StartGossip(g)
  BY <1>1 DEF B!StartMDNSAdvertiser, B!StartGossip
<1>2. CASE B!Head(g) \/ B!TryJoin(g) \/ B!Joined(g) \/ B!FoundCluster(g)
  BY <1>2 DEF B!Head, B!TryJoin, B!Joined, B!FoundCluster
<1>3. CASE B!Retry(g) \/ B!Backoff(g) \/ B!Announce(g)
  BY <1>3 DEF B!Retry, B!Backoff, B!Announce
<1> QED BY <1>1, <1>2, <1>3

\* What becomes of the memberlist, of didBootstrap and of the role.
LEMMA RunLoopLeaves ==
  ASSUME NEW g \in Gens, RunLoop(g)
  PROVE  /\ UNCHANGED <<gossip, lists>> \/ (lists' = {g} /\ gossip' = g)
         /\ \/ UNCHANGED <<did, role>>
            \/ /\ at[g] = "round" /\ at' = [at EXCEPT ![g] = "announce"]
               /\ did' = TRUE /\ role' = [role EXCEPT ![g] = "founder"]
            \/ /\ at[g] = "join" /\ at' = [at EXCEPT ![g] = "announce"]
               /\ did' = did /\ role' = [role EXCEPT ![g] = "member"]
  BY DEF RunLoop, B!Run, B!Enter, B!StartMDNSAdvertiser, B!StartGossip, B!Head, B!TryJoin,
         B!Joined, B!FoundCluster, B!Retry, B!Backoff, B!Announce, B!Exit, B!Goto

\* A goroutine that has announced itself goes on to its end, and moves nobody else.
LEMMA RunLoopStays ==
  ASSUME NEW g \in Gens, RunLoop(g), at \in [Gens -> B!Locations]
  PROVE  /\ at[g] \in {"announce", "exit", "done"} => at'[g] \in {"exit", "done"}
         /\ \A h \in Gens : h # g => at'[h] = at[h]
  BY DEF RunLoop, B!Run, B!Enter, B!StartMDNSAdvertiser, B!StartGossip, B!Head, B!TryJoin,
         B!Joined, B!FoundCluster, B!Retry, B!Backoff, B!Announce, B!Exit, B!Goto

\* It reports its end, or leaves the state as it was, before it gets there.
LEMMA RunLoopState ==
  ASSUME NEW g \in Gens, RunLoop(g), at \in [Gens -> B!Locations]
  PROVE  /\ at[g] \notin {"none", "done"}
         /\ at[g] = "exit" => UNCHANGED <<state, did>>
         /\ at[g] = "announce" => UNCHANGED did
         /\ state' \in {"Running", "Failed"} => state' = state \/ at'[g] = "exit"
  BY DEF RunLoop, B!Run, B!Enter, B!StartMDNSAdvertiser, B!StartGossip, B!Head, B!TryJoin,
         B!Joined, B!FoundCluster, B!Retry, B!Backoff, B!Announce, B!Exit, B!Goto

\* The parts of LoopInv: the channels, and what the goroutines leave behind.
LoopChannels ==
    /\ \A g \in Gens : at[g] = "none" <=> g > gen
    /\ \A g \in Gens : at[g] \notin {"none", "spawned", "done"} => deferred[g] \in g..gen
    /\ stoppedClosed \subseteq 1..gen
    /\ gen > 0 => Awaited

LEMMA RunLoopChannels ==
  ASSUME TypeOK, LoopChannels, NEW g \in Gens, RunLoop(g)
  PROVE  LoopChannels'
<1>1. gen' = gen /\ gen \in Nat /\ at \in [Gens -> B!Locations] /\ g \in Nat
      /\ deferred \in [Gens -> 0..MaxStarts]
  BY Frames, LifecycleAssumption DEF TypeOK, B!BTypeOK, B!Gens, Gens
<1>2. CASE B!Enter(g)
  <2>1. at[g] = "spawned" /\ at' = [at EXCEPT ![g] = "mdns"]
        /\ deferred' = [deferred EXCEPT ![g] = gen] /\ stoppedClosed' = stoppedClosed
    BY <1>2 DEF B!Enter, B!Goto
  <2>2. g \in 1..gen
    BY <1>1, <2>1, LifecycleAssumption DEF LoopChannels, Gens
  <2> QED BY <1>1, <2>1, <2>2 DEF LoopChannels, Awaited
<1>3. CASE B!Exit(g)
  <2>1. at[g] = "exit" /\ at' = [at EXCEPT ![g] = "done"]
        /\ deferred' = [deferred EXCEPT ![g] = 0]
        /\ stoppedClosed' = stoppedClosed \cup {deferred[g]}
    BY <1>3 DEF B!Exit, B!Goto
  <2>2. deferred[g] \in g..gen /\ g \in 1..gen
    BY <1>1, <2>1, LifecycleAssumption DEF LoopChannels, Gens
  <2>3. \A h \in Gens : at'[h] = "none" <=> h > gen'
    BY <1>1, <2>1 DEF LoopChannels
  <2>4. \A h \in Gens : at'[h] \notin {"none", "spawned", "done"} => deferred'[h] \in h..gen'
    BY <1>1, <2>1 DEF LoopChannels
  <2>5. stoppedClosed' \subseteq 1..gen'
    <3>1. deferred[g] \in 1..gen
      BY <1>1, <2>2
    <3>2. stoppedClosed \subseteq 1..gen
      BY DEF LoopChannels
    <3> QED BY <1>1, <2>1, <3>1, <3>2
  <2>6. gen > 0 => Awaited'
    BY <1>1, <2>1 DEF LoopChannels, Awaited
  <2> QED BY <1>1, <2>3, <2>4, <2>5, <2>6 DEF LoopChannels
<1>4. CASE Moves(g)
  <2>1. PICK l \in Midway : at' = [at EXCEPT ![g] = l]
    BY <1>4 DEF Moves
  <2>2. at[g] \in Midway /\ UNCHANGED <<deferred, stoppedClosed>>
    BY <1>4 DEF Moves
  <2> QED BY <1>1, <2>1, <2>2 DEF LoopChannels, Awaited, Midway, B!Locations
<1> QED BY <1>2, <1>3, <1>4, RunLoopMoves

LEMMA RunLoopInv ==
  ASSUME TypeOK, LoopInv, NEW g \in Gens, RunLoop(g)
  PROVE  LoopInv'
<1>1. LoopChannels'
  BY RunLoopChannels DEF LoopInv, LoopChannels
<1>2. at \in [Gens -> B!Locations]
      /\ role \in [Gens -> {"none", "founder", "member"}]
  BY DEF TypeOK, B!BTypeOK, B!Gens, Gens
<1>3. lists' \subseteq {gossip'}
  BY RunLoopLeaves DEF LoopInv
<1>4. /\ did' => \E h \in Gens : role'[h] = "founder"
      /\ \A h \in Gens : role'[h] = "founder" => at'[h] \in {"announce", "exit", "done"}
  <2>1. CASE /\ at[g] = "round" /\ at' = [at EXCEPT ![g] = "announce"]
             /\ role' = [role EXCEPT ![g] = "founder"]
    BY <1>2, <2>1 DEF LoopInv
  <2>2. CASE /\ at[g] = "join" /\ at' = [at EXCEPT ![g] = "announce"]
             /\ did' = did /\ role' = [role EXCEPT ![g] = "member"]
    BY <1>2, <2>2 DEF LoopInv
  <2>3. CASE UNCHANGED <<did, role>>
    <3>1. role[g] = "founder" => at'[g] \in {"announce", "exit", "done"}
      BY <1>2, RunLoopStays DEF LoopInv
    <3>2. \A h \in Gens : h # g => at'[h] = at[h]
      BY <1>2, RunLoopStays
    <3> QED BY <2>3, <3>1, <3>2 DEF LoopInv
  <2> QED BY <2>1, <2>2, <2>3, RunLoopLeaves
<1> QED BY <1>1, <1>3, <1>4 DEF LoopInv, LoopChannels

\* A new life.
LEMMA BStartInv ==
  ASSUME TypeOK, LoopInv, B!BStart
  PROVE  LoopInv'
<1>1. /\ gen \in Nat /\ gen + 1 \in Gens /\ gen' = gen + 1
      /\ at \in [Gens -> B!Locations] /\ at' = [at EXCEPT ![gen + 1] = "spawned"]
      /\ \A g \in Gens : g \in Nat
      /\ UNCHANGED <<stoppedClosed, deferred, did, gossip, lists, role>>
  BY LifecycleAssumption DEF TypeOK, B!BTypeOK, B!BStart, B!Gens, Gens
<1>2. at[gen + 1] = "none"
  BY <1>1 DEF LoopInv
<1>3. \A h \in Gens : at'[h] = "none" <=> h > gen'
  BY <1>1 DEF LoopInv
<1>4. \A h \in Gens : at'[h] \notin {"none", "spawned", "done"} => deferred'[h] \in h..gen'
  BY <1>1 DEF LoopInv
<1>5. stoppedClosed' \subseteq 1..gen'
  BY <1>1 DEF LoopInv
<1>6. Awaited'
  BY <1>1 DEF Awaited
<1>7. \A h \in Gens : role'[h] = "founder" => at'[h] \in {"announce", "exit", "done"}
  BY <1>1, <1>2 DEF LoopInv
<1>8. lists' \subseteq {gossip'} /\ (did' => \E h \in Gens : role'[h] = "founder")
  BY <1>1 DEF LoopInv
<1> QED BY <1>3, <1>4, <1>5, <1>6, <1>7, <1>8 DEF LoopInv

LEMMA LoopFrame ==
  ASSUME LoopInv, lists' \subseteq lists,
         UNCHANGED <<gen, stoppedClosed, at, deferred, did, gossip, role>>
  PROVE  LoopInv'
  BY DEF LoopInv, Awaited

LEMMA LoopStep ==
  ASSUME TypeOK, LoopInv, [Next]_vars
  PROVE  LoopInv'
<1>1. CASE Start
  <2>1. CASE B!BStart
    BY <2>1, BStartInv
  <2>2. CASE UNCHANGED bVars
    BY <2>2, LoopFrame DEF bVars
  <2> QED BY <1>1, <2>1, <2>2 DEF Start
<1>2. CASE StopFinish
  BY <1>2, LoopFrame DEF StopFinish, B!BStopFinish, B!StopGossip
<1>3. CASE StopConsensus \/ StopRaft \/ CancelContext \/ Persist
  BY <1>3, LoopFrame DEF StopConsensus, B!BStopSignal, StopRaft, CancelContext, B!Cancel,
     Persist, bVars
<1>4. ASSUME NEW g \in Gens, RunLoop(g)
      PROVE  LoopInv'
  BY <1>4, RunLoopInv
<1>5. ASSUME NEW g \in Gens, Waiter(g) \/ Callback(g) \/ Reconcile(g)
      PROVE  LoopInv'
  BY <1>5, LoopFrame DEF Waiter, WaiterStops, WaiterTicks, AskDidBootstrap, OnBootstrapComplete,
     Callback, Reconcile, bVars
<1>6. CASE UNCHANGED vars
  BY <1>6, LoopFrame DEF vars, bVars
<1> QED BY <1>1, <1>2, <1>3, <1>4, <1>5, <1>6 DEF Next

---------------------------------------------------------------------------
(* The caller and the callbacks *)

LEMMA CallerStep ==
  ASSUME TypeOK, LoopInv, CallerInv, [Next]_vars
  PROVE  CallerInv'
<1>0. /\ waiter \in [Gens -> WaiterStates]
      /\ call \in [Gens -> R!Calls] /\ loop \in [Gens -> BOOLEAN]
      /\ gen \in Nat /\ \A g \in Gens : g \in Nat
  BY LifecycleAssumption DEF TypeOK, R!RTypeOK, B!BTypeOK, Gens
<1>1. CASE Start
  <2>1. CASE UNCHANGED <<bVars, up, waiter, selects>>
    BY <1>1, <2>1 DEF Start, bVars, rVars, CallerInv
  <2>2. CASE /\ B!BStart /\ up' = TRUE
             /\ waiter' = [waiter EXCEPT ![gen + 1] = "ticking"]
    <3>1. /\ gen' = gen + 1 /\ gen + 1 \in Gens
          /\ UNCHANGED <<caller, call, loop>> /\ caller = "idle"
      BY <1>0, <1>1, <2>2, LifecycleAssumption DEF Start, B!BStart, rVars, Gens
    <3>2. waiter[gen + 1] = "none"
      BY <1>0, <3>1 DEF CallerInv
    <3> QED BY <1>0, <2>2, <3>1, <3>2 DEF CallerInv
  <2> QED BY <1>1, <2>1, <2>2 DEF Start
<1>2. CASE StopRaft
  <2>1. UNCHANGED <<up, gen, waiter, call, loop>> /\ caller' = "raftDown"
    BY <1>2 DEF StopRaft, R!Shutdown, R!rVars, bVars
  <2> QED BY <2>1 DEF CallerInv
<1>3. CASE StopConsensus
  <2>1. UNCHANGED <<gen, waiter, call, loop>>
    BY <1>3 DEF StopConsensus, B!BStopSignal, rVars, bVars
  <2>2. (up' => up) /\ (caller' = "waiting" => up')
    BY <1>3 DEF StopConsensus
  <2> QED BY <2>1, <2>2 DEF CallerInv
<1>4. CASE StopFinish
  <2>1. UNCHANGED <<gen, waiter, call, loop>> /\ up' = FALSE /\ caller' = "idle"
    BY <1>4 DEF StopFinish, B!BStopFinish, rVars
  <2> QED BY <2>1 DEF CallerInv
<1>5. CASE CancelContext \/ Persist
  BY <1>5 DEF CancelContext, B!Cancel, Persist, R!Persist, bVars, rVars, nVars, CallerInv
<1>6. ASSUME NEW g \in Gens, RunLoop(g)
      PROVE  CallerInv'
  <2>1. UNCHANGED <<up, gen, caller, waiter, call, loop>>
    BY <1>6, Frames DEF rVars, nVars
  <2> QED BY <2>1 DEF CallerInv
<1>7. ASSUME NEW g \in Gens, WaiterStops(g) \/ WaiterTicks(g) \/ AskDidBootstrap(g)
      PROVE  CallerInv'
  <2>1. UNCHANGED <<up, gen, caller, call, loop>>
    BY <1>7 DEF WaiterStops, WaiterTicks, AskDidBootstrap, bVars, rVars
  <2>2. /\ waiter[g] \in Awake
        /\ waiter' = waiter \/ \E l \in {"done"} \cup Decides : waiter' = [waiter EXCEPT ![g] = l]
    BY <1>7 DEF WaiterStops, WaiterTicks, AskDidBootstrap, WaiterLeaves
  <2> QED BY <1>0, <2>1, <2>2 DEF CallerInv
<1>8. ASSUME NEW g \in Gens, OnBootstrapComplete(g)
      PROVE  CallerInv'
  <2>1. UNCHANGED <<up, gen, caller>> /\ waiter[g] \in {"bootstrap", "join"}
        /\ waiter' = [waiter EXCEPT ![g] = "called"]
    BY <1>8 DEF OnBootstrapComplete, bVars
  <2>2. \/ call' = [call EXCEPT ![g] = "returned"]
           /\ (loop' = loop \/ loop' = [loop EXCEPT ![g] = TRUE])
        \/ call' = [call EXCEPT ![g] = "joined"] /\ loop' = loop
    BY <1>8 DEF OnBootstrapComplete, R!OnBootstrap, R!OnJoin, R!Goto, R!SpawnLoop
  <2>3. ~loop[g]
    BY <2>1 DEF CallerInv
  <2> QED BY <1>0, <2>1, <2>2, <2>3 DEF CallerInv
<1>9. ASSUME NEW g \in Gens, Callback(g)
      PROVE  CallerInv'
  <2>1. UNCHANGED <<up, gen, caller, waiter>>
    BY <1>9 DEF Callback, bVars, nVars
  <2>2. call[g] \notin {"idle", "returned"}
    BY <1>9 DEF Callback, R!Callback, R!CheckState, R!WaitForAcceptance, R!BeginReset, R!EndReset
  <2>3. \/ call' = [call EXCEPT ![g] = "returned"]
           /\ (loop' = loop \/ loop' = [loop EXCEPT ![g] = TRUE])
        \/ loop' = loop /\ \E l \in {"accepting", "rejected", "jitter"} : call' = [call EXCEPT ![g] = l]
    BY <1>9 DEF Callback, R!Callback, R!CheckState, R!WaitForAcceptance, R!BeginReset,
       R!EndReset, R!Goto, R!SpawnLoop
  <2>4. ~loop[g] /\ waiter[g] = "called"
    BY <2>2 DEF CallerInv
  <2> QED BY <1>0, <2>1, <2>2, <2>3, <2>4 DEF CallerInv
<1>10. ASSUME NEW g \in Gens, Reconcile(g)
       PROVE  CallerInv'
  <2>1. UNCHANGED <<up, gen, caller, waiter, call>>
    BY <1>10 DEF Reconcile, R!ReconcileLoop, bVars, nVars
  <2>2. loop' = loop \/ loop' = [loop EXCEPT ![g] = FALSE]
    BY <1>10 DEF Reconcile, R!ReconcileLoop
  <2> QED BY <1>0, <2>1, <2>2 DEF CallerInv
<1>11. CASE UNCHANGED vars
  BY <1>11 DEF vars, bVars, rVars, nVars, CallerInv
<1> QED BY <1>1, <1>2, <1>3, <1>4, <1>5, <1>6, <1>7, <1>8, <1>9, <1>10, <1>11
        DEF Next, Waiter

---------------------------------------------------------------------------
(* The channels of raft.Node *)

LEMMA ChannelFrame ==
  ASSUME ChannelInv,
         UNCHANGED <<stopCh, closed, call, verdict, rPanic, watches, seeded>>, did => did'
  PROVE  ChannelInv'
  BY DEF ChannelInv

LEMMA CallbackChannels ==
  ASSUME TypeOK, ChannelInv, NEW g \in Gens, Callback(g)
  PROVE  ChannelInv'
<1>0. /\ call \in [Gens -> R!Calls] /\ verdict \in [Gens -> R!Verdicts]
      /\ watches \in [Gens -> Nat] /\ stopCh \in Nat /\ closed \subseteq Nat
      /\ ~rPanic /\ did' = did
  BY DEF TypeOK, R!RTypeOK, Gens, Callback, Panicked, bVars
<1>1. CASE R!CheckState(g)
  <2>1. /\ call[g] = "joined" /\ UNCHANGED <<stopCh, closed, verdict, seeded, rPanic>>
        /\ \E l \in {"accepting", "returned"} : call' = [call EXCEPT ![g] = l]
        /\ watches' = watches \/ watches' = [watches EXCEPT ![g] = stopCh]
    BY <1>1 DEF R!CheckState, R!Goto, R!SpawnLoop
  <2> QED BY <1>0, <2>1 DEF ChannelInv
<1>2. CASE R!WaitForAcceptance(g)
  <2>1. call[g] = "accepting" /\ UNCHANGED <<stopCh, closed, seeded, rPanic>>
    BY <1>2 DEF R!WaitForAcceptance
  <2>2. CASE /\ call' = [call EXCEPT ![g] = "returned"] /\ verdict' = verdict
             /\ watches' = [watches EXCEPT ![g] = stopCh]
    BY <1>0, <2>1, <2>2 DEF ChannelInv
  <2>3. CASE /\ call' = [call EXCEPT ![g] = "rejected"] /\ watches' = watches
             /\ \E v \in R!Refusals : verdict' = [verdict EXCEPT ![g] = v]
    <3>1. PICK v \in R!Refusals : verdict' = [verdict EXCEPT ![g] = v]
      BY <2>3
    <3>2. v # "none" /\ (v = "shutdown" => stopCh \in closed)
      BY <3>1 DEF R!Refusals
    <3> QED BY <1>0, <2>1, <2>3, <3>1, <3>2 DEF ChannelInv
  <2> QED BY <1>2, <2>2, <2>3 DEF R!WaitForAcceptance, R!Goto, R!SpawnLoop
<1>3. CASE R!BeginReset(g)
  <2>1. /\ call[g] = "rejected" /\ call' = [call EXCEPT ![g] = "jitter"]
        /\ stopCh' = stopCh + 1 /\ closed' = closed \cup {stopCh}
        /\ UNCHANGED <<verdict, seeded, watches>>
    BY <1>3 DEF R!BeginReset, R!Goto
  <2>2. rPanic' <=> stopCh \in closed
    BY <1>3 DEF R!BeginReset
  <2>3. \A k \in Nat : k < stopCh' => k \in closed'
    BY <1>0, <2>1 DEF ChannelInv
  <2>4. \A h \in Gens : watches'[h] <= stopCh'
    BY <1>0, <2>1 DEF ChannelInv
  <2>5. \A h \in Gens : call'[h] \in {"rejected", "jitter"} => verdict'[h] # "none"
    BY <1>0, <2>1 DEF ChannelInv
  <2>6. \A h \in Gens : verdict'[h] = "shutdown" => rPanic'
    BY <1>0, <2>1, <2>2 DEF ChannelInv
  <2>7. seeded' # {} => did'
    BY <1>0, <2>1 DEF ChannelInv
  <2> QED BY <2>3, <2>4, <2>5, <2>6, <2>7 DEF ChannelInv
<1>4. CASE R!EndReset(g)
  <2>1. /\ call[g] = "jitter" /\ call' = [call EXCEPT ![g] = "returned"]
        /\ verdict' = [verdict EXCEPT ![g] = "none"]
        /\ UNCHANGED <<stopCh, closed, seeded, rPanic>>
        /\ watches' = watches \/ watches' = [watches EXCEPT ![g] = stopCh]
    BY <1>4 DEF R!EndReset, R!Goto, R!SpawnLoop
  <2> QED BY <1>0, <2>1 DEF ChannelInv
<1> QED BY <1>1, <1>2, <1>3, <1>4 DEF Callback, R!Callback

LEMMA ChannelStep ==
  ASSUME TypeOK, CallerInv, ChannelInv, FounderInv, [Next]_vars
  PROVE  ChannelInv'
<1>0. /\ call \in [Gens -> R!Calls] /\ verdict \in [Gens -> R!Verdicts]
      /\ watches \in [Gens -> Nat] /\ stopCh \in Nat
  BY DEF TypeOK, R!RTypeOK, Gens
<1>1. CASE Start \/ StopConsensus \/ StopFinish \/ CancelContext
  BY <1>1, ChannelFrame DEF Start, B!BStart, StopConsensus, B!BStopSignal, StopFinish,
     B!BStopFinish, CancelContext, B!Cancel, bVars, rVars
<1>2. CASE StopRaft
  <2>1. CASE UNCHANGED rVars
    BY <1>2, <2>1, ChannelFrame DEF StopRaft, bVars, rVars
  <2>2. CASE /\ closed' = closed \cup {stopCh}
             /\ UNCHANGED <<stopCh, call, verdict, seeded, watches>>
    <3>1. ~rPanic /\ did' = did
      BY <1>2 DEF StopRaft, Panicked, bVars
    <3> QED BY <1>0, <2>2, <3>1 DEF ChannelInv
  <2> QED BY <1>2, <2>1, <2>2 DEF StopRaft, R!Shutdown, R!rVars, rVars
<1>3. CASE Persist
  BY <1>3, ChannelFrame DEF Persist, R!Persist, bVars
<1>4. ASSUME NEW g \in Gens, RunLoop(g)
      PROVE  ChannelInv'
  <2>1. did => did'
    BY <1>4, RunLoopLeaves
  <2> QED BY <1>4, <2>1, Frames, ChannelFrame DEF rVars
<1>5. ASSUME NEW g \in Gens, WaiterStops(g) \/ WaiterTicks(g) \/ AskDidBootstrap(g)
      PROVE  ChannelInv'
  BY <1>5, Frames, ChannelFrame DEF rVars, bVars
<1>6. ASSUME NEW g \in Gens, OnBootstrapComplete(g)
      PROVE  ChannelInv'
  <2>1. /\ call[g] = "idle" /\ UNCHANGED <<stopCh, closed, verdict, rPanic, did>>
        /\ \E l \in {"joined", "returned"} : call' = [call EXCEPT ![g] = l]
        /\ watches' = watches \/ watches' = [watches EXCEPT ![g] = stopCh]
        /\ ~rPanic
    BY <1>6 DEF OnBootstrapComplete, R!OnBootstrap, R!OnJoin, R!Goto, R!SpawnLoop, bVars, Panicked
  <2>2. seeded' = seeded \/ did
    BY <1>6 DEF OnBootstrapComplete, R!OnJoin, FounderInv
  <2> QED BY <1>0, <2>1, <2>2 DEF ChannelInv
<1>7. ASSUME NEW g \in Gens, Callback(g)
      PROVE  ChannelInv'
  BY <1>7, CallbackChannels
<1>8. ASSUME NEW g \in Gens, Reconcile(g)
      PROVE  ChannelInv'
  <2>1. /\ UNCHANGED <<stopCh, closed, call, verdict, seeded, rPanic, did>>
        /\ \E k \in {0, stopCh} : watches' = [watches EXCEPT ![g] = k]
    BY <1>8 DEF Reconcile, R!ReconcileLoop, bVars
  <2> QED BY <1>0, <2>1 DEF ChannelInv
<1>9. CASE UNCHANGED vars
  BY <1>9, ChannelFrame DEF vars, bVars, rVars
<1> QED BY <1>1, <1>2, <1>3, <1>4, <1>5, <1>6, <1>7, <1>8, <1>9 DEF Next, Waiter

LEMMA FounderStep ==
  ASSUME TypeOK, FounderInv, [Next]_vars
  PROVE  FounderInv'
<1>0. waiter \in [Gens -> WaiterStates]
  BY DEF TypeOK
<1>1. did => did'
  <2>1. ASSUME NEW g \in Gens, RunLoop(g)
        PROVE  did => did'
    BY <2>1, RunLoopLeaves
  <2>2. ASSUME NEW g \in Gens, Waiter(g) \/ Callback(g) \/ Reconcile(g)
        PROVE  did' = did
    BY <2>2 DEF Waiter, WaiterStops, WaiterTicks, AskDidBootstrap, OnBootstrapComplete,
       Callback, Reconcile, bVars
  <2>3. CASE Start \/ CancelContext \/ Persist \/ StopRaft \/ StopConsensus \/ StopFinish
    BY <2>3 DEF Start, B!BStart, CancelContext, B!Cancel, Persist, StopRaft, StopConsensus,
       B!BStopSignal, StopFinish, B!BStopFinish, bVars
  <2>4. CASE UNCHANGED vars
    BY <2>4 DEF vars, bVars
  <2> QED BY <2>1, <2>2, <2>3, <2>4 DEF Next
<1>2. ASSUME NEW h \in Gens, waiter'[h] = "bootstrap", waiter[h] # "bootstrap"
      PROVE  did
  <2>1. ASSUME NEW g \in Gens, RunLoop(g) \/ Callback(g) \/ Reconcile(g)
        PROVE  waiter' = waiter
    BY <2>1 DEF RunLoop, Callback, Reconcile, nVars
  <2>2. ASSUME NEW g \in Gens, WaiterStops(g) \/ WaiterTicks(g) \/ OnBootstrapComplete(g)
        PROVE  waiter'[h] # "bootstrap"
    BY <1>0, <1>2, <2>2 DEF WaiterStops, WaiterTicks, WaiterLeaves, OnBootstrapComplete
  <2>3. ASSUME NEW g \in Gens, AskDidBootstrap(g)
        PROVE  did
    BY <1>0, <1>2, <2>3 DEF AskDidBootstrap, B!DidBootstrap
  <2>4. CASE Start
    BY <1>0, <1>2, <2>4 DEF Start
  <2>5. CASE CancelContext \/ Persist \/ StopRaft \/ StopConsensus \/ StopFinish
             \/ UNCHANGED vars
    BY <1>2, <2>5 DEF CancelContext, Persist, StopRaft, StopConsensus, StopFinish, vars, nVars
  <2> QED BY <1>2, <2>1, <2>2, <2>3, <2>4, <2>5 DEF Next, Waiter
<1> QED BY <1>1, <1>2 DEF FounderInv

---------------------------------------------------------------------------
(* Quiet Stops: one life at a time *)

\* No goroutine of this node wakes up any more, and none is in a callback.
Resting == \A g \in Gens : waiter[g] \notin Awake /\ ~InCallback(g)

\* Stop is quiet only if it finds the node resting.
LEMMA QuietRests ==
  ASSUME Inv, OneLife, StopRaft, quiet'
  PROVE  Resting /\ (up => state \in {"Running", "Failed"})
<1>1. up => Quiet
  BY DEF StopRaft
<1>2. CASE up
  BY <1>1, <1>2 DEF Quiet, Inv, CallerInv, InCallback, Resting
<1>3. CASE ~up
  BY <1>3 DEF OneLife, Resting
<1> QED BY <1>2, <1>3

\* The callbacks that a goroutine of the present life is in.
LEMMA CallbackIn ==
  ASSUME NEW g \in Gens, Callback(g)
  PROVE  /\ InCallback(g) /\ ~Panicked
         /\ UNCHANGED <<bVars, nVars>>
         /\ \E l \in R!Calls \ {"idle"} : call' = [call EXCEPT ![g] = l]
  BY DEF Callback, R!Callback, R!CheckState, R!WaitForAcceptance, R!BeginReset, R!EndReset,
         R!Goto, R!Calls, InCallback

LEMMA OneLifeStep ==
  ASSUME Inv, OneLife, [Next]_vars, quiet'
  PROVE  OneLife'
<1>0. /\ at \in [Gens -> B!Locations] /\ gen \in Nat /\ \A g \in Gens : g \in Nat
      /\ waiter \in [Gens -> WaiterStates]
      /\ call \in [Gens -> R!Calls]
      /\ stoppedClosed \subseteq 1..gen
  BY LifecycleAssumption DEF Inv, TypeOK, B!BTypeOK, B!Gens, Gens, R!RTypeOK, LoopInv
<1>1. CASE Start
  <2>1. CASE UNCHANGED <<bVars, up, waiter, selects>>
    BY <1>1, <2>1 DEF Start, bVars, rVars, OneLife, InCallback
  <2>2. CASE /\ B!BStart /\ up' = TRUE
             /\ waiter' = [waiter EXCEPT ![gen + 1] = "ticking"]
    <3>1. /\ gen' = gen + 1 /\ gen + 1 \in Gens /\ state' = "Init"
          /\ at' = [at EXCEPT ![gen + 1] = "spawned"]
          /\ UNCHANGED <<caller, call, stoppedClosed, bPanic>> /\ caller = "idle" /\ ~up
      BY <1>0, <1>1, <2>2, LifecycleAssumption DEF Start, B!BStart, rVars, Gens
    <3>2. \A h \in Gens : at'[h] \notin {"none", "done"} => h = gen'
      BY <1>0, <3>1 DEF OneLife
    <3>3. \A h \in Gens : waiter'[h] \in Awake \/ InCallback(h)' => h = gen'
      BY <1>0, <2>2, <3>1 DEF OneLife, InCallback
    <3>4. gen' \notin stoppedClosed'
      BY <1>0, <3>1
    <3> QED BY <2>2, <3>1, <3>2, <3>3, <3>4 DEF OneLife
  <2> QED BY <1>1, <2>1, <2>2 DEF Start
<1>2. CASE StopRaft
  <2>1. Resting /\ (up => state \in {"Running", "Failed"})
    BY <1>2, QuietRests
  <2>2. UNCHANGED <<state, gen, at, stoppedClosed, bPanic, up, waiter, call>>
    BY <1>2 DEF StopRaft, R!Shutdown, R!rVars, bVars
  <2> QED BY <2>1, <2>2 DEF OneLife, Resting, InCallback
<1>3. CASE StopConsensus
  <2>1. UNCHANGED <<state, gen, at, stoppedClosed, bPanic, waiter, call>>
    BY <1>3 DEF StopConsensus, B!BStopSignal, rVars, bVars
  <2>2. up' = up /\ caller = "raftDown" /\ (~up => caller' = "idle")
    BY <1>3 DEF StopConsensus, OneLife, B!MayStop
  <2> QED BY <2>1, <2>2 DEF OneLife, InCallback
<1>4. CASE StopFinish
  <2>1. /\ UNCHANGED <<gen, at, stoppedClosed, bPanic, waiter, call>>
        /\ up' = FALSE /\ caller' = "idle" /\ caller = "waiting" /\ gen \in stoppedClosed
    BY <1>4 DEF StopFinish, B!BStopFinish, rVars
  <2>2. \A g \in Gens : at[g] \in {"none", "done"}
    BY <2>1 DEF OneLife
  <2> QED BY <2>1, <2>2 DEF OneLife, InCallback
<1>5. CASE CancelContext \/ Persist
  <2>1. UNCHANGED <<state, gen, at, stoppedClosed, bPanic, up, caller, waiter, call>>
    BY <1>5 DEF CancelContext, B!Cancel, Persist, R!Persist, bVars, rVars, nVars
  <2> QED BY <2>1 DEF OneLife, InCallback
<1>6. ASSUME NEW g \in Gens, RunLoop(g)
      PROVE  OneLife'
  <2>1. UNCHANGED <<gen, up, caller, waiter, call>>
    BY <1>6, Frames DEF rVars, nVars
  <2>2. g = gen /\ up
    BY <1>0, <1>6, RunLoopState DEF OneLife
  <2>3. \A h \in Gens : at'[h] \notin {"none", "done"} => h = gen
    BY <1>0, <1>6, <2>2, RunLoopStays DEF OneLife
  <2>4. state' \in {"Running", "Failed"} => at'[gen] \in {"exit", "done"}
    BY <1>0, <1>6, <2>2, RunLoopState, RunLoopStays DEF OneLife
  <2>5. caller # "idle" => state' \in {"Running", "Failed"}
    BY <1>0, <1>6, <2>2, RunLoopState DEF OneLife
  <2>6. (gen \in stoppedClosed' => at'[gen] = "done") /\ ~bPanic'
    <3>1. gen \notin stoppedClosed
      BY <1>0, <1>6, <2>2, RunLoopState DEF OneLife
    <3>2. CASE B!Exit(g)
      <4>1. at[g] = "exit" /\ at' = [at EXCEPT ![g] = "done"]
            /\ (bPanic' <=> deferred[g] \in stoppedClosed)
        BY <3>2 DEF B!Exit, B!Goto
      <4>2. deferred[g] = gen
        BY <1>0, <2>2, <4>1 DEF Inv, LoopInv
      <4> QED BY <1>0, <2>2, <3>1, <4>1, <4>2
    <3>3. CASE B!Enter(g) \/ Moves(g)
      BY <3>1, <3>3 DEF B!Enter, Moves, OneLife
    <3> QED BY <1>6, <3>2, <3>3, RunLoopMoves
  <2> QED BY <2>1, <2>2, <2>3, <2>4, <2>5, <2>6 DEF OneLife, InCallback
<1>7. ASSUME NEW g \in Gens, WaiterStops(g) \/ WaiterTicks(g) \/ AskDidBootstrap(g)
      PROVE  OneLife'
  <2>1. UNCHANGED <<state, gen, at, stoppedClosed, bPanic, up, caller, call>>
    BY <1>7 DEF WaiterStops, WaiterTicks, AskDidBootstrap, bVars, rVars
  <2>2. /\ waiter[g] \in Awake
        /\ waiter' = waiter \/ \E l \in {"done"} \cup Decides : waiter' = [waiter EXCEPT ![g] = l]
    BY <1>7 DEF WaiterStops, WaiterTicks, AskDidBootstrap, WaiterLeaves
  <2>3. \A h \in Gens : waiter'[h] \in Awake => waiter[h] \in Awake
    BY <1>0, <2>2
  <2> QED BY <2>1, <2>3 DEF OneLife, InCallback
<1>8. ASSUME NEW g \in Gens, OnBootstrapComplete(g)
      PROVE  OneLife'
  <2>1. /\ UNCHANGED <<state, gen, at, stoppedClosed, bPanic, up, caller>>
        /\ waiter[g] \in {"bootstrap", "join"}
        /\ waiter' = [waiter EXCEPT ![g] = "called"]
        /\ \E l \in {"joined", "returned"} : call' = [call EXCEPT ![g] = l]
    BY <1>8 DEF OnBootstrapComplete, bVars, R!OnBootstrap, R!OnJoin, R!Goto
  <2>2. \A h \in Gens : waiter'[h] \in Awake \/ InCallback(h)'
                          => waiter[h] \in Awake \/ InCallback(h)
    BY <1>0, <2>1 DEF InCallback
  <2> QED BY <2>1, <2>2 DEF OneLife
<1>9. ASSUME NEW g \in Gens, Callback(g)
      PROVE  OneLife'
  <2>1. UNCHANGED <<state, gen, at, stoppedClosed, bPanic, up, caller, waiter>>
        /\ InCallback(g) /\ \E l \in R!Calls : call' = [call EXCEPT ![g] = l]
    BY <1>9, CallbackIn DEF bVars, nVars
  <2>2. \A h \in Gens : InCallback(h)' => InCallback(h)
    BY <1>0, <2>1 DEF InCallback
  <2> QED BY <2>1, <2>2 DEF OneLife
<1>10. ASSUME NEW g \in Gens, Reconcile(g)
       PROVE  OneLife'
  BY <1>10 DEF Reconcile, R!ReconcileLoop, bVars, nVars, OneLife, InCallback
<1>11. CASE UNCHANGED vars
  BY <1>11 DEF vars, bVars, rVars, nVars, OneLife, InCallback
<1> QED BY <1>1, <1>2, <1>3, <1>4, <1>5, <1>6, <1>7, <1>8, <1>9, <1>10, <1>11
        DEF Next, Waiter

---------------------------------------------------------------------------
(* Quiet Stops: one Raft instance *)

LEMMA OneRaftFrame ==
  ASSUME OneRaft, UNCHANGED <<raft, live, running, up, caller, waiter, call>>,
         up \/ lists' \subseteq lists
  PROVE  OneRaft'
  BY DEF OneRaft

\* Only one goroutine can be in a callback or about to make one.
LEMMA OnlyOne ==
  ASSUME Inv, OneLife, NEW g \in Gens, NEW h \in Gens,
         waiter[g] \in Decides \/ InCallback(g),
         waiter[h] \in Awake \/ InCallback(h)
  PROVE  g = h /\ up /\ caller = "idle" /\ g = gen
  BY DEF OneLife

LEMMA OneRaftStep ==
  ASSUME Inv, OneLife, OneRaft, [Next]_vars, quiet'
  PROVE  OneRaft'
<1>0. /\ waiter \in [Gens -> WaiterStates]
      /\ call \in [Gens -> R!Calls] /\ made \in Nat
      /\ gen \in Nat /\ 0 \notin live
  BY LifecycleAssumption DEF Inv, TypeOK, B!BTypeOK, Gens, R!RTypeOK
<1>1. CASE Start
  <2>1. CASE UNCHANGED <<bVars, up, waiter, selects>>
    BY <1>1, <2>1, OneRaftFrame DEF Start, bVars, rVars
  <2>2. CASE /\ B!BStart /\ up' = TRUE
             /\ waiter' = [waiter EXCEPT ![gen + 1] = "ticking"]
    <3>1. /\ UNCHANGED <<raft, live, running, caller, call>> /\ caller = "idle" /\ ~up
      BY <1>1 DEF Start, rVars
    <3>2. raft = 0
      BY <3>1 DEF OneRaft
    <3> QED BY <1>0, <2>2, <3>1, <3>2 DEF OneRaft
  <2> QED BY <1>1, <2>1, <2>2 DEF Start
<1>2. CASE StopRaft
  <2>1. Resting
    BY <1>2, QuietRests
  <2>2. UNCHANGED <<up, lists, waiter, call>>
    BY <1>2 DEF StopRaft, R!Shutdown, R!rVars, bVars
  <2>3. raft' = 0 /\ live' = {} /\ ~running'
    BY <1>0, <1>2 DEF StopRaft, R!Shutdown, R!rVars, OneRaft
  <2> QED BY <2>1, <2>2, <2>3 DEF OneRaft, Resting, InCallback
<1>3. CASE StopConsensus
  <2>1. UNCHANGED <<raft, live, running, lists, waiter, call>>
    BY <1>3 DEF StopConsensus, B!BStopSignal, rVars, bVars
  <2>2. up' = up /\ caller = "raftDown"
    BY <1>3 DEF StopConsensus, OneLife, B!MayStop
  <2> QED BY <2>1, <2>2 DEF OneRaft
<1>4. CASE StopFinish
  <2>1. /\ UNCHANGED <<raft, live, running, waiter, call>> /\ caller = "waiting"
        /\ (LeaveMayFail \/ lists' = lists \ {gossip})
    BY <1>4 DEF StopFinish, B!BStopFinish, B!StopGossip, rVars
  <2>2. LeaveMayFail \/ lists' = {}
    BY <2>1 DEF Inv, LoopInv
  <2> QED BY <2>1, <2>2 DEF OneRaft
<1>5. CASE CancelContext \/ Persist
  BY <1>5, OneRaftFrame DEF CancelContext, B!Cancel, Persist, R!Persist, bVars, rVars, nVars
<1>6. ASSUME NEW g \in Gens, RunLoop(g)
      PROVE  OneRaft'
  <2>1. UNCHANGED <<raft, live, running, up, caller, waiter, call>>
    BY <1>6, Frames DEF rVars, nVars
  <2>2. at \in [Gens -> B!Locations]
    BY DEF Inv, TypeOK, B!BTypeOK, B!Gens, Gens
  <2>3. up
    BY <1>6, <2>2, RunLoopState DEF OneLife
  <2> QED BY <2>1, <2>3, OneRaftFrame
<1>7. ASSUME NEW g \in Gens, WaiterStops(g) \/ WaiterTicks(g) \/ AskDidBootstrap(g)
      PROVE  OneRaft'
  <2>1. UNCHANGED <<raft, live, running, lists, up, caller, call>>
    BY <1>7 DEF WaiterStops, WaiterTicks, AskDidBootstrap, bVars, rVars
  <2>2. /\ waiter[g] \in Awake
        /\ waiter' = waiter \/ \E l \in {"done"} \cup Decides : waiter' = [waiter EXCEPT ![g] = l]
    BY <1>7 DEF WaiterStops, WaiterTicks, AskDidBootstrap, WaiterLeaves
  <2>3. \A h \in Gens : waiter'[h] \in Awake => waiter[h] \in Awake
    BY <1>0, <2>2
  <2> QED BY <2>1, <2>3 DEF OneRaft
<1>8. ASSUME NEW g \in Gens, OnBootstrapComplete(g)
      PROVE  OneRaft'
  <2>1. UNCHANGED <<lists, up, caller>> /\ waiter[g] \in {"bootstrap", "join"}
        /\ waiter' = [waiter EXCEPT ![g] = "called"] /\ call[g] = "idle"
    BY <1>8 DEF OnBootstrapComplete, bVars, R!OnBootstrap, R!OnJoin
  <2>2. up /\ caller = "idle" /\ raft = 0 /\ live = {}
    BY <1>0, <2>1 DEF OneLife, OneRaft
  <2>3. \A h \in Gens : waiter'[h] \notin Awake
    BY <1>0, <2>1, OnlyOne
  <2>4. \A h \in Gens : h # g => ~InCallback(h)
    BY <2>1, OnlyOne
  <2>5. CASE R!StartRaft /\ \E l \in {"joined", "returned"} : call' = [call EXCEPT ![g] = l]
    <3>1. raft' # 0 /\ live' = {raft'} /\ running'
      BY <1>0, <2>2, <2>5 DEF R!StartRaft
    <3>2. \A h \in Gens : call'[h] # "jitter"
      BY <1>0, <2>4, <2>5 DEF InCallback
    <3> QED BY <2>1, <2>2, <2>3, <3>1, <3>2 DEF OneRaft
  <2>6. CASE R!StartFails /\ call' = [call EXCEPT ![g] = "returned"]
    <3>1. \A h \in Gens : ~InCallback(h)'
      BY <1>0, <2>4, <2>6 DEF InCallback
    <3> QED BY <2>1, <2>2, <2>3, <2>6, <3>1 DEF OneRaft, R!StartFails, InCallback
  <2> QED BY <1>8, <2>5, <2>6 DEF OnBootstrapComplete, R!OnBootstrap, R!OnJoin, R!Goto
<1>9. ASSUME NEW g \in Gens, Callback(g)
      PROVE  OneRaft'
  <2>1. UNCHANGED <<up, lists, caller, waiter>> /\ InCallback(g)
    BY <1>9, CallbackIn DEF bVars, nVars
  <2>2. up /\ caller = "idle"
    BY <2>1 DEF OneLife
  <2>3. \A h \in Gens : waiter[h] \notin Awake /\ (h # g => ~InCallback(h))
    BY <2>1, OnlyOne DEF Inv, CallerInv, InCallback
  <2>4. CASE R!CheckState(g) \/ R!WaitForAcceptance(g)
    <3>1. /\ UNCHANGED <<raft, live, running>> /\ raft # 0
          /\ \E l \in {"accepting", "rejected", "returned"} : call' = [call EXCEPT ![g] = l]
      BY <2>4 DEF R!CheckState, R!WaitForAcceptance, R!Goto, OneRaft
    <3> QED BY <1>0, <2>1, <2>2, <2>3, <3>1 DEF OneRaft, InCallback
  <2>5. CASE R!BeginReset(g)
    <3>1. raft' = 0 /\ live' = {} /\ ~running' /\ call' = [call EXCEPT ![g] = "jitter"]
      BY <2>5 DEF R!BeginReset, R!Goto, OneRaft
    <3>2. \A h \in Gens : call'[h] \notin {"joined", "accepting", "rejected"}
      BY <1>0, <2>3, <3>1 DEF InCallback
    <3> QED BY <2>1, <2>2, <3>1, <3>2 DEF OneRaft
  <2>6. CASE R!EndReset(g)
    <3>1. call' = [call EXCEPT ![g] = "returned"] /\ raft = 0 /\ live = {}
      BY <1>0, <2>6 DEF R!EndReset, R!Goto, OneRaft
    <3>2. \A h \in Gens : ~InCallback(h)'
      BY <1>0, <2>3, <3>1 DEF InCallback
    <3>3. CASE R!StartRaft
      BY <1>0, <2>1, <2>2, <2>3, <3>1, <3>2, <3>3 DEF R!StartRaft, OneRaft, InCallback
    <3>4. CASE R!StartFails
      BY <2>1, <2>2, <2>3, <3>1, <3>2, <3>4 DEF R!StartFails, OneRaft, InCallback
    <3> QED BY <2>6, <3>3, <3>4 DEF R!EndReset
  <2> QED BY <1>9, <2>4, <2>5, <2>6 DEF Callback, R!Callback
<1>10. ASSUME NEW g \in Gens, Reconcile(g)
       PROVE  OneRaft'
  BY <1>10, OneRaftFrame DEF Reconcile, R!ReconcileLoop, bVars, nVars
<1>11. CASE UNCHANGED vars
  BY <1>11, OneRaftFrame DEF vars, bVars, rVars, nVars
<1> QED BY <1>1, <1>2, <1>3, <1>4, <1>5, <1>6, <1>7, <1>8, <1>9, <1>10, <1>11
        DEF Next, Waiter

---------------------------------------------------------------------------
(* Quiet Stops: one reconciliation goroutine *)

LEMMA OneLoopFrame ==
  ASSUME OneLoop, UNCHANGED <<gen, loop, watches, closed, stopCh, running, rPanic>>
  PROVE  OneLoop'
  BY DEF OneLoop

\* A goroutine that has not returned from its callback has no reconciliation loop.
LEMMA SpawnOneLoop ==
  ASSUME Inv, OneLoop, NEW g \in Gens, g = gen, ~loop[g], ~rPanic,
         UNCHANGED <<gen, closed, stopCh, rPanic>>,
         \/ UNCHANGED <<loop, watches>>
         \/ running' /\ R!SpawnLoop(g)
  PROVE  OneLoop'
<1>0. loop \in [Gens -> BOOLEAN] /\ watches \in [Gens -> Nat]
  BY DEF Inv, TypeOK, R!RTypeOK, Gens
<1>1. \A h \in Gens : h # g /\ loop[h] => watches[h] \in closed /\ stopCh \in closed
  BY DEF OneLoop
<1>2. CASE UNCHANGED <<loop, watches>>
  BY <1>1, <1>2 DEF OneLoop
<1>3. CASE running' /\ R!SpawnLoop(g)
  BY <1>0, <1>1, <1>3 DEF OneLoop, R!SpawnLoop
<1> QED BY <1>2, <1>3

LEMMA OneLoopStep ==
  ASSUME Inv, OneLife, OneRaft, OneLoop, [Next]_vars, quiet'
  PROVE  OneLoop'
<1>0. /\ loop \in [Gens -> BOOLEAN] /\ watches \in [Gens -> Nat] /\ stopCh \in Nat
      /\ gen \in Nat /\ call \in [Gens -> R!Calls]
  BY LifecycleAssumption DEF Inv, TypeOK, B!BTypeOK, Gens, R!RTypeOK
<1>1. CASE Start
  <2>1. ~up /\ ~rPanic /\ UNCHANGED <<loop, watches, closed, stopCh, running, rPanic>>
    BY <1>1 DEF Start, Panicked, rVars
  <2>2. \A g \in Gens : loop[g] => stopCh \in closed
    BY <2>1 DEF OneLoop, OneRaft
  <2>3. \A g \in Gens : loop[g] => watches[g] \in closed
    BY <1>0, <2>2 DEF Inv, ChannelInv
  <2> QED BY <2>1, <2>2, <2>3 DEF OneLoop
<1>2. CASE StopRaft
  <2>1. CASE UNCHANGED rVars
    BY <1>2, <2>1, OneLoopFrame DEF StopRaft, rVars, bVars
  <2>2. CASE closed' = closed \cup {stopCh} /\ UNCHANGED <<loop, watches, stopCh>>
    BY <1>2, <2>2 DEF StopRaft, bVars, OneLoop
  <2> QED BY <1>2, <2>1, <2>2 DEF StopRaft, R!Shutdown, R!rVars, rVars
<1>3. CASE StopConsensus \/ StopFinish \/ CancelContext \/ Persist
  BY <1>3, OneLoopFrame DEF StopConsensus, B!BStopSignal, StopFinish, B!BStopFinish,
     CancelContext, B!Cancel, Persist, R!Persist, rVars, bVars
<1>4. ASSUME NEW g \in Gens, RunLoop(g) \/ WaiterStops(g) \/ WaiterTicks(g) \/ AskDidBootstrap(g)
      PROVE  OneLoop'
  BY <1>4, Frames, OneLoopFrame DEF rVars, bVars
<1>5. ASSUME NEW g \in Gens, OnBootstrapComplete(g)
      PROVE  OneLoop'
  <2>1. /\ waiter[g] \in Decides /\ ~rPanic /\ UNCHANGED <<gen, closed, stopCh, rPanic>>
    BY <1>5 DEF OnBootstrapComplete, Panicked, bVars, R!OnBootstrap, R!OnJoin
  <2>2. g = gen /\ ~loop[g]
    BY <2>1 DEF OneLife, Inv, CallerInv
  <2>3. UNCHANGED <<loop, watches>> \/ (running' /\ R!SpawnLoop(g))
    BY <1>5 DEF OnBootstrapComplete, R!OnBootstrap, R!OnJoin, R!StartRaft
  <2> QED BY <2>1, <2>2, <2>3, SpawnOneLoop
<1>6. ASSUME NEW g \in Gens, Callback(g)
      PROVE  OneLoop'
  <2>1. InCallback(g) /\ ~rPanic /\ gen' = gen
    BY <1>6, CallbackIn DEF Panicked, bVars
  <2>2. g = gen /\ ~loop[g]
    BY <2>1 DEF OneLife, Inv, CallerInv, InCallback
  <2>3. CASE R!CheckState(g) \/ R!WaitForAcceptance(g) \/ R!EndReset(g)
    <3>1. UNCHANGED <<closed, stopCh, rPanic>>
      BY <2>3 DEF R!CheckState, R!WaitForAcceptance, R!EndReset
    <3>2. CASE R!CheckState(g) \/ R!WaitForAcceptance(g)
      <4>1. running' = running /\ running
        BY <3>2 DEF R!CheckState, R!WaitForAcceptance, OneRaft
      <4>2. UNCHANGED <<loop, watches>> \/ R!SpawnLoop(g)
        BY <3>2 DEF R!CheckState, R!WaitForAcceptance
      <4> QED BY <2>1, <2>2, <3>1, <4>1, <4>2, SpawnOneLoop
    <3>3. CASE R!EndReset(g)
      <4>1. UNCHANGED <<loop, watches>> \/ (running' /\ R!SpawnLoop(g))
        BY <3>3 DEF R!EndReset, R!StartRaft
      <4> QED BY <2>1, <2>2, <3>1, <4>1, SpawnOneLoop
    <3> QED BY <2>3, <3>2, <3>3
  <2>4. CASE R!BeginReset(g)
    <3>1. /\ closed' = closed \cup {stopCh} /\ UNCHANGED <<loop, watches>>
          /\ (rPanic' <=> stopCh \in closed)
      BY <2>4 DEF R!BeginReset
    <3> QED BY <2>1, <2>2, <3>1 DEF OneLoop
  <2> QED BY <1>6, <2>3, <2>4 DEF Callback, R!Callback
<1>7. ASSUME NEW g \in Gens, Reconcile(g)
      PROVE  OneLoop'
  <2>1. ~rPanic /\ loop[g] /\ UNCHANGED <<gen, closed, stopCh, running, rPanic>>
    BY <1>7 DEF Reconcile, R!ReconcileLoop, Panicked, bVars
  <2>2. CASE loop' = [loop EXCEPT ![g] = FALSE] /\ watches' = [watches EXCEPT ![g] = 0]
    BY <1>0, <2>1, <2>2 DEF OneLoop
  <2>3. CASE loop' = loop /\ watches' = [watches EXCEPT ![g] = stopCh]
    BY <1>0, <2>1, <2>3 DEF OneLoop
  <2> QED BY <1>7, <2>2, <2>3 DEF Reconcile, R!ReconcileLoop
<1>8. CASE UNCHANGED vars
  BY <1>8, OneLoopFrame DEF vars, bVars, rVars
<1> QED BY <1>1, <1>2, <1>3, <1>4, <1>5, <1>6, <1>7, <1>8 DEF Next, Waiter

---------------------------------------------------------------------------
(* Quiet Stops: one cluster *)

LEMMA OneClusterFrame ==
  ASSUME OneCluster, UNCHANGED <<state, gen, at, did, waiter, call, disk, seeded>>
  PROVE  OneCluster'
  BY DEF OneCluster, InCallback

LEMMA OneClusterStep ==
  ASSUME Inv, OneLife, OneCluster, [Next]_vars, quiet'
  PROVE  OneCluster'
<1>0. /\ waiter \in [Gens -> WaiterStates]
      /\ call \in [Gens -> R!Calls] /\ at \in [Gens -> B!Locations]
      /\ gen \in Nat
  BY LifecycleAssumption DEF Inv, TypeOK, B!BTypeOK, Gens, B!Gens, R!RTypeOK
<1>1. CASE Start
  <2>1. CASE UNCHANGED <<bVars, up, waiter, selects>>
    BY <1>1, <2>1, OneClusterFrame DEF Start, bVars, rVars
  <2>2. CASE B!BStart /\ waiter' = [waiter EXCEPT ![gen + 1] = "ticking"]
    <3>1. ~up /\ UNCHANGED <<did, call, disk, seeded>>
      BY <1>1, <2>2 DEF Start, B!BStart, rVars
    <3>2. \A h \in Gens : waiter'[h] \notin Decides /\ ~InCallback(h)'
      BY <1>0, <2>2, <3>1 DEF OneLife, InCallback
    <3> QED BY <3>1, <3>2 DEF OneCluster
  <2> QED BY <1>1, <2>1, <2>2 DEF Start
<1>2. CASE StopRaft
  <2>1. UNCHANGED <<state, gen, at, did, waiter, call, disk, seeded>>
    BY <1>2 DEF StopRaft, R!Shutdown, R!rVars, bVars
  <2> QED BY <2>1, OneClusterFrame
<1>3. CASE StopConsensus \/ CancelContext
  BY <1>3, OneClusterFrame DEF StopConsensus, B!BStopSignal, CancelContext, B!Cancel,
     rVars, bVars, nVars
<1>4. CASE StopFinish
  <2>1. caller = "waiting" /\ UNCHANGED <<gen, at, did, waiter, call, disk, seeded>>
    BY <1>4 DEF StopFinish, B!BStopFinish, rVars
  <2>2. \A h \in Gens : waiter[h] \notin Decides /\ ~InCallback(h)
    BY <2>1 DEF OneLife
  <2> QED BY <2>1, <2>2 DEF OneCluster, InCallback
<1>5. CASE Persist
  BY <1>5 DEF Persist, R!Persist, bVars, nVars, OneCluster, InCallback
<1>6. ASSUME NEW g \in Gens, RunLoop(g)
      PROVE  OneCluster'
  <2>1. UNCHANGED <<gen, waiter, call, disk, seeded>>
    BY <1>6, Frames DEF rVars, nVars
  <2>2. g = gen
    BY <1>0, <1>6, RunLoopState DEF OneLife
  <2>3. CASE \E h \in Gens : waiter[h] \in Decides \/ InCallback(h)
    <3>1. at[g] = "exit"
      BY <1>0, <1>6, <2>2, <2>3, RunLoopState DEF OneCluster
    <3>2. UNCHANGED <<state, did>> /\ at'[gen] \in {"exit", "done"}
      BY <1>0, <1>6, <2>2, <3>1, RunLoopState, RunLoopStays
    <3> QED BY <2>1, <3>2 DEF OneCluster, InCallback
  <2>4. CASE ~ \E h \in Gens : waiter[h] \in Decides \/ InCallback(h)
    BY <2>1, <2>4 DEF OneCluster, InCallback
  <2> QED BY <2>3, <2>4
<1>7. ASSUME NEW g \in Gens, WaiterStops(g) \/ WaiterTicks(g) \/ AskDidBootstrap(g)
      PROVE  OneCluster'
  <2>1. UNCHANGED <<state, gen, at, did, call, disk, seeded>>
    BY <1>7 DEF WaiterStops, WaiterTicks, AskDidBootstrap, bVars, rVars
  <2>2. CASE /\ waiter[g] = "ticking"
             /\ \/ waiter' = waiter \/ waiter' = [waiter EXCEPT ![g] = "done"]
                \/ waiter' = [waiter EXCEPT ![g] = "complete"] /\ state = "Running"
    <3>1. state = "Running" => at[gen] \in {"exit", "done"}
      BY <2>2 DEF OneLife
    <3>2. \A h \in Gens : /\ waiter'[h] \in Decides => waiter[h] \in Decides \/ state = "Running"
                          /\ waiter'[h] = "join" => waiter[h] = "join"
      BY <1>0, <2>2
    <3> QED BY <2>1, <3>1, <3>2 DEF OneCluster, InCallback
  <2>3. CASE AskDidBootstrap(g)
    <3>1. waiter[g] = "complete"
          /\ waiter' = [waiter EXCEPT ![g] = IF B!DidBootstrap THEN "bootstrap" ELSE "join"]
      BY <2>3 DEF AskDidBootstrap
    <3>2. state = "Running" /\ at[gen] \in {"exit", "done"}
      BY <3>1 DEF OneCluster
    <3>3. \A h \in Gens : waiter'[h] \in Decides => waiter[h] \in Decides
      BY <1>0, <3>1
    <3>4. \A h \in Gens : waiter'[h] = "join" => waiter[h] = "join" \/ ~did
      BY <1>0, <3>1, <3>2 DEF B!DidBootstrap
    <3> QED BY <2>1, <3>2, <3>3, <3>4 DEF OneCluster, InCallback
  <2> QED BY <1>7, <2>2, <2>3 DEF WaiterStops, WaiterTicks, WaiterLeaves
<1>8. ASSUME NEW g \in Gens, OnBootstrapComplete(g)
      PROVE  OneCluster'
  <2>1. UNCHANGED <<state, gen, at, did>> /\ waiter[g] \in {"bootstrap", "join"}
        /\ waiter' = [waiter EXCEPT ![g] = "called"]
    BY <1>8 DEF OnBootstrapComplete, bVars
  <2>2. state = "Running" /\ at[gen] \in {"exit", "done"}
    BY <2>1 DEF OneCluster
  <2>3. \A h \in Gens : /\ waiter'[h] \in Decides => waiter[h] \in Decides
                        /\ waiter'[h] = "join" => waiter[h] = "join"
    BY <1>0, <2>1
  <2>4. CASE R!OnBootstrap(g)
    <3>1. call' = [call EXCEPT ![g] = "returned"]
          /\ \/ UNCHANGED <<disk, seeded>>
             \/ seeded' = (IF disk THEN seeded ELSE seeded \cup {g}) /\ disk' = TRUE
      BY <2>4 DEF R!OnBootstrap, R!Goto, R!BootstrapCluster
    <3>2. \A h \in Gens : InCallback(h)' => InCallback(h)
      BY <1>0, <3>1 DEF InCallback
    <3>3. (seeded' # {} => disk') /\ \A h, k \in seeded' : h = k
      BY <3>1 DEF OneCluster
    <3> QED BY <2>1, <2>2, <2>3, <3>2, <3>3 DEF OneCluster
  <2>5. CASE waiter[g] = "join" /\ R!OnJoin(g)
    <3>1. UNCHANGED <<disk, seeded>> /\ ~did
      BY <2>5 DEF R!OnJoin, OneCluster
    <3> QED BY <2>1, <2>2, <2>3, <3>1 DEF OneCluster
  <2> QED BY <1>8, <2>4, <2>5 DEF OnBootstrapComplete
<1>9. ASSUME NEW g \in Gens, Callback(g)
      PROVE  OneCluster'
  <2>1. UNCHANGED <<state, gen, at, did, waiter>> /\ InCallback(g)
        /\ \E l \in R!Calls : call' = [call EXCEPT ![g] = l]
    BY <1>9, CallbackIn DEF bVars, nVars
  <2>2. seeded = {} /\ seeded' = seeded
    BY <1>9, <2>1 DEF OneCluster, Inv, ChannelInv, Callback, R!Callback, R!CheckState,
       R!WaitForAcceptance, R!BeginReset, R!EndReset
  <2>3. \A h \in Gens : InCallback(h)' => InCallback(h)
    BY <1>0, <2>1 DEF InCallback
  <2> QED BY <2>1, <2>2, <2>3 DEF OneCluster
<1>10. ASSUME NEW g \in Gens, Reconcile(g)
       PROVE  OneCluster'
  BY <1>10, OneClusterFrame DEF Reconcile, R!ReconcileLoop, bVars, nVars
<1>11. CASE UNCHANGED vars
  BY <1>11, OneClusterFrame DEF vars, bVars, rVars, nVars
<1> QED BY <1>1, <1>2, <1>3, <1>4, <1>5, <1>6, <1>7, <1>8, <1>9, <1>10, <1>11
        DEF Next, Waiter

---------------------------------------------------------------------------
(* Quiet Stops: the first one *)

LEMMA FirstStopFrame ==
  ASSUME FirstStop, UNCHANGED <<cGen, closed, stopCh, rPanic>>,
         up' => up /\ (caller' = "idle" => caller = "idle")
  PROVE  FirstStop'
  BY DEF FirstStop

LEMMA FirstStopStep ==
  ASSUME Inv, OneLife, OneRaft, FirstStop, [Next]_vars, quiet'
  PROVE  FirstStop'
<1>0. cGen \in Nat /\ stopCh \in Nat /\ closed \subseteq 0..stopCh
  BY LifecycleAssumption DEF Inv, TypeOK, R!RTypeOK
<1>1. CASE Start
  <2>1. /\ cGen' = cGen + 1 /\ UNCHANGED <<closed, stopCh, rPanic>>
        /\ ~rPanic
    BY <1>1 DEF Start, rVars, Panicked
  <2> QED BY <1>0, <2>1 DEF FirstStop
<1>2. CASE StopRaft
  <2>1. cGen' = cGen /\ cGen > 0 /\ caller' = "raftDown" /\ ~rPanic
    BY <1>2 DEF StopRaft, Panicked
  <2>2. CASE ~running /\ UNCHANGED rVars
    BY <1>0, <2>1, <2>2 DEF FirstStop, rVars
  <2>3. CASE running /\ (rPanic' <=> stopCh \in closed)
    <3>1. up /\ caller = "idle"
      BY <2>3 DEF OneRaft
    <3>2. cGen <= 1 => ~rPanic'
      BY <2>3, <3>1 DEF FirstStop
    <3> QED BY <1>0, <2>1, <3>2 DEF FirstStop
  <2> QED BY <1>2, <2>2, <2>3 DEF StopRaft, R!Shutdown, R!rVars, rVars
<1>3. CASE StopConsensus
  <2>1. up' = up /\ (caller' = "idle" => ~up)
    BY <1>3 DEF StopConsensus, OneLife, B!MayStop
  <2> QED BY <1>3, <2>1, FirstStopFrame DEF StopConsensus, rVars
<1>4. CASE StopFinish \/ CancelContext \/ Persist
  <2>1. UNCHANGED <<cGen, closed, stopCh, rPanic>>
    BY <1>4 DEF StopFinish, CancelContext, Persist, R!Persist, rVars, nVars
  <2>2. ~up' \/ UNCHANGED <<up, caller>>
    BY <1>4 DEF StopFinish, CancelContext, Persist, nVars
  <2> QED BY <2>1, <2>2, FirstStopFrame
<1>5. ASSUME NEW g \in Gens, RunLoop(g) \/ WaiterStops(g) \/ WaiterTicks(g) \/ AskDidBootstrap(g)
      PROVE  FirstStop'
  <2>1. UNCHANGED <<cGen, closed, stopCh, rPanic, up, caller>>
    BY <1>5, Frames DEF rVars, nVars
  <2> QED BY <2>1, FirstStopFrame
<1>6. ASSUME NEW g \in Gens, OnBootstrapComplete(g)
      PROVE  FirstStop'
  BY <1>6, FirstStopFrame DEF OnBootstrapComplete, R!OnBootstrap, R!OnJoin
<1>7. ASSUME NEW g \in Gens, Callback(g)
      PROVE  FirstStop'
  <2>1. InCallback(g) /\ UNCHANGED <<up, caller, cGen>>
    BY <1>7, CallbackIn DEF nVars
  <2>2. CASE R!CheckState(g) \/ R!WaitForAcceptance(g) \/ R!EndReset(g)
    BY <2>1, <2>2, FirstStopFrame DEF R!CheckState, R!WaitForAcceptance, R!EndReset
  <2>3. CASE R!BeginReset(g)
    <3>1. up /\ caller = "idle"
      BY <2>1 DEF OneLife
    <3>2. stopCh' = stopCh + 1 /\ closed' = closed \cup {stopCh} /\ (rPanic' <=> stopCh \in closed)
      BY <2>3 DEF R!BeginReset
    <3>3. stopCh' \notin closed'
      BY <1>0, <3>2
    <3> QED BY <1>0, <2>1, <3>1, <3>2, <3>3 DEF FirstStop
  <2> QED BY <1>7, <2>2, <2>3 DEF Callback, R!Callback
<1>8. ASSUME NEW g \in Gens, Reconcile(g)
      PROVE  FirstStop'
  BY <1>8, FirstStopFrame DEF Reconcile, R!ReconcileLoop, nVars
<1>9. CASE UNCHANGED vars
  BY <1>9, FirstStopFrame DEF vars, rVars, nVars
<1> QED BY <1>1, <1>2, <1>3, <1>4, <1>5, <1>6, <1>7, <1>8, <1>9 DEF Next, Waiter

---------------------------------------------------------------------------
(* The theorems *)

LEMMA InvInit ==
  ASSUME Init
  PROVE  Inv /\ QuietInv
<1> USE LifecycleAssumption
<1>1. TypeOK
  <2>1. B!BTypeOK
    <3>0. gen \in 0..MaxStarts /\ gossip \in 0..MaxStarts
      BY DEF Init, B!BInit
    <3>1. state \in B!States /\ did \in BOOLEAN /\ bPanic \in BOOLEAN
      <4>1. state = "Init" /\ did = FALSE /\ bPanic = FALSE
        BY DEF Init, B!BInit
      <4> QED BY <4>1 DEF B!States
    <3>2. /\ stopClosed \subseteq B!Gens /\ stoppedClosed \subseteq B!Gens
          /\ lists \subseteq B!Gens /\ cancelled \subseteq B!Gens
      BY DEF Init, B!BInit
    <3>3. at \in [B!Gens -> B!Locations] /\ deferred \in [B!Gens -> 0..MaxStarts]
      BY DEF Init, B!BInit, B!Locations
    <3>4. role \in [B!Gens -> {"none", "founder", "member"}]
      BY DEF Init, B!BInit
    <3> QED BY <3>0, <3>1, <3>2, <3>3, <3>4 DEF B!BTypeOK
  <2>2. R!RTypeOK
    BY DEF Init, R!RInit, R!RTypeOK, R!Calls, R!Verdicts
  <2>3. /\ cGen \in 0..MaxStarts /\ cClosed \subseteq 0..MaxStarts
        /\ selects \in [Gens -> 0..MaxStarts]
    BY DEF Init
  <2>4. waiter \in [Gens -> WaiterStates]
    BY DEF Init
  <2>5. up \in BOOLEAN /\ quiet \in BOOLEAN /\ caller \in {"idle", "raftDown", "waiting"}
    BY DEF Init
  <2> QED BY <2>1, <2>2, <2>3, <2>4, <2>5 DEF TypeOK
<1>2. LoopInv
  BY DEF Init, B!BInit, LoopInv, B!Gens, Gens
<1>3. CallerInv /\ ChannelInv /\ FounderInv
  BY DEF Init, B!BInit, R!RInit, CallerInv, ChannelInv, FounderInv, Gens
<1>4. OneLife /\ OneRaft
  BY DEF Init, B!BInit, R!RInit, OneLife, OneRaft, InCallback, Gens, B!Gens
<1>5. OneLoop /\ OneCluster /\ FirstStop
  BY DEF Init, B!BInit, R!RInit, OneLoop, OneCluster, FirstStop, InCallback, Gens, B!Gens
<1> QED BY <1>1, <1>2, <1>3, <1>4, <1>5 DEF Inv, QuietInv

LEMMA InvStep ==
  ASSUME Inv, [Next]_vars
  PROVE  Inv'
  BY TypeStep, LoopStep, CallerStep, ChannelStep, FounderStep DEF Inv

\* A Stop that is not quiet is remembered.
LEMMA QuietBefore ==
  ASSUME [Next]_vars, quiet'
  PROVE  quiet
<1>1. quiet' = quiet \/ (quiet' <=> quiet /\ (up => Quiet))
  BY DEF Next, Start, CancelContext, Persist, StopRaft, StopConsensus, StopFinish, RunLoop,
         Waiter, WaiterStops, WaiterTicks, AskDidBootstrap, OnBootstrapComplete, Callback,
            Reconcile, nVars, vars
<1> QED BY <1>1

LEMMA QuietStep ==
  ASSUME Inv, QuietInv, [Next]_vars
  PROVE  QuietInv'
<1> SUFFICES ASSUME quiet'
             PROVE  OneLife' /\ OneRaft' /\ OneLoop' /\ OneCluster' /\ FirstStop'
  BY DEF QuietInv
<1>1. OneLife /\ OneRaft /\ OneLoop /\ OneCluster /\ FirstStop
  BY QuietBefore DEF QuietInv
<1> QED BY <1>1, OneLifeStep, OneRaftStep, OneLoopStep, OneClusterStep, FirstStopStep

LEMMA Invariance == Spec => [](Inv /\ QuietInv)
<1>1. Init => Inv /\ QuietInv
  BY InvInit
<1>2. (Inv /\ QuietInv) /\ [Next]_vars => (Inv /\ QuietInv)'
  BY InvStep, QuietStep
<1> QED BY <1>1, <1>2, PTL DEF Spec

\* For any number of lives every variable keeps its type: in particular n.raft,
\* when it is set, is an instance that lives (raft/node.go:100-135).
THEOREM TypeCorrect == Spec => []TypeOK
<1>1. Inv => TypeOK
  BY DEF Inv
<1> QED BY <1>1, Invariance, PTL

\* While Stop waits for stoppedCh (bootstrapper.go:174), somebody has closed it
\* or is left to close it, although a goroutine that starts late reads the field
\* of a later life.
THEOREM StopAwaited == Spec => []StopIsAwaited
<1>1. Inv => StopIsAwaited
  <2> SUFFICES ASSUME Inv, caller = "waiting"
               PROVE  Awaited
    BY DEF StopIsAwaited, Awaited
  <2> QED BY DEF Inv, CallerInv, LoopInv
<1> QED BY <1>1, Invariance, PTL

\* resetAndRestart wipes the storages only after the cluster turned the node
\* down: a wait that a Shutdown ended closes a closed channel, and the process
\* ends before the wipe (raft/callbacks.go:88-97, 262).
THEOREM WipeIsDeserved == Spec => WipedOnlyWhenUnaccepted
<1>1. Inv /\ [Next]_vars =>
        (disk /\ ~disk' => \E g \in Gens : call[g] = "jitter" /\ verdict[g] = "unaccepted")
  <2> SUFFICES ASSUME Inv, [Next]_vars, disk, ~disk'
               PROVE  \E g \in Gens : call[g] = "jitter" /\ verdict[g] = "unaccepted"
    OBVIOUS
  <2>1. \E g \in Gens : Callback(g) /\ R!EndReset(g)
    <3>1. disk' # disk
      OBVIOUS
    <3>2. ~ UNCHANGED vars /\ ~ Start /\ ~ StopConsensus /\ ~ StopFinish /\ ~ CancelContext
      BY <3>1 DEF vars, rVars, Start, StopConsensus, StopFinish, CancelContext
    <3>3. ~ StopRaft
      BY <3>1 DEF StopRaft, R!Shutdown, R!rVars
    <3>4. ~ Persist
      BY DEF Persist, R!Persist
    <3>5. ASSUME NEW g \in Gens
          PROVE  ~ RunLoop(g) /\ ~ Reconcile(g)
      BY <3>1 DEF RunLoop, rVars, Reconcile, R!ReconcileLoop
    <3>6. ASSUME NEW g \in Gens, Waiter(g)
          PROVE  FALSE
      <4>1. ~ WaiterStops(g) /\ ~ WaiterTicks(g) /\ ~ AskDidBootstrap(g)
        BY <3>1 DEF WaiterStops, WaiterTicks, AskDidBootstrap, rVars
      <4>2. ~ OnBootstrapComplete(g)
        BY <3>1 DEF OnBootstrapComplete, R!OnBootstrap, R!BootstrapCluster, R!OnJoin
      <4> QED BY <3>6, <4>1, <4>2 DEF Waiter
    <3>7. ASSUME NEW g \in Gens, Callback(g)
          PROVE  R!EndReset(g)
      BY <3>1, <3>7 DEF Callback, R!Callback, R!CheckState, R!WaitForAcceptance, R!BeginReset
    <3> QED BY <3>2, <3>3, <3>4, <3>5, <3>6, <3>7 DEF Next
  <2>2. PICK g \in Gens : Callback(g) /\ R!EndReset(g)
    BY <2>1
  <2>3. call[g] = "jitter" /\ ~rPanic
    BY <2>2 DEF R!EndReset, Callback, Panicked
  <2>4. verdict[g] # "none" /\ verdict[g] # "shutdown"
    BY <2>3 DEF Inv, ChannelInv
  <2>5. verdict[g] \in {"none", "unaccepted", "shutdown"}
    BY DEF Inv, TypeOK, R!RTypeOK, R!Verdicts, Gens
  <2> QED BY <2>3, <2>4, <2>5
<1> QED BY <1>1, Invariance, PTL DEF Spec, WipedOnlyWhenUnaccepted

\* Every cluster this node makes was founded by a run loop of its, however late a
\* callback comes; and quiet Stops keep a node from making a second cluster,
\* although didBootstrap survives a restart (bootstrapper.go:137).
THEOREM ClustersFounded == Spec => []ClustersAreFounded
<1>1. Inv /\ QuietInv => ClustersAreFounded
  <2> SUFFICES ASSUME Inv, QuietInv
               PROVE  ClustersAreFounded
    OBVIOUS
  <2>1. seeded # {} => \E g \in Gens : role[g] = "founder"
    BY DEF Inv, ChannelInv, LoopInv
  <2>2. ASSUME quiet
        PROVE  Cardinality(seeded) <= 1
    <3>1. CASE seeded = {}
      BY <3>1, FS_EmptySet
    <3>2. CASE seeded # {}
      <4>1. PICK g : g \in seeded
        BY <3>2
      <4>2. seeded = {g}
        BY <2>2, <4>1 DEF QuietInv, OneCluster
      <4>3. Cardinality(seeded) = 1
        BY <4>2, FS_Singleton
      <4> QED BY <4>3
    <3> QED BY <3>1, <3>2
  <2> QED BY <2>1, <2>2 DEF ClustersAreFounded
<1> QED BY <1>1, Invariance, PTL

\* As long as every Stop finds the node at rest, the storages have one Raft
\* instance at most, and it is the one that Shutdown will find (raft/node.go:218).
THEOREM RaftIsAlone == Spec => []OneRaftOnStorage
<1>1. QuietInv => OneRaftOnStorage
  BY DEF QuietInv, OneRaft, OneRaftOnStorage
<1> QED BY <1>1, Invariance, PTL

\* Such a Stop is final: Raft, the run loop and (unless Leave failed) the
\* memberlist are gone, and nothing brings them back before the next Start
\* (node.go:145-149, consensus/node.go:151-167).
THEOREM StopIsFinal == Spec => []QuietStopIsFinal
<1>1. Inv /\ QuietInv => QuietStopIsFinal
  <2> SUFFICES ASSUME Inv, QuietInv, Stopped, quiet
               PROVE  /\ live = {}
                      /\ LeaveMayFail \/ lists = {}
                      /\ \A g \in Gens : at[g] \in {"none", "done"}
    BY DEF QuietStopIsFinal
  <2>1. ~up
    BY DEF Stopped
  <2>2. 0 \notin live
    BY DEF Inv, TypeOK, R!RTypeOK
  <2>3. live = {}
    BY <2>1, <2>2 DEF QuietInv, OneRaft
  <2> QED BY <2>1, <2>3 DEF QuietInv, OneLife, OneRaft
<1> QED BY <1>1, Invariance, PTL

\* The first of them panics nowhere: it finds raft.Node's stopCh open even when
\* resetAndRestart has replaced it (raft/node.go:135, raft/callbacks.go:262).
THEOREM StopIsSafe == Spec => []QuietStopIsSafe
<1>1. QuietInv => QuietStopIsSafe
  BY DEF QuietInv, OneLife, FirstStop, QuietStopIsSafe, Panicked
<1> QED BY <1>1, Invariance, PTL

\* Such Stops leave no reconciliation goroutine to a later life: Shutdown leaves
\* the closed channel in the field, which is where the goroutine looks next
\* (raft/node.go:135, raft/reconcile.go:14-21).
THEOREM ReconcilerServes == Spec => []ReconcilerServesRaft
<1>1. Inv /\ QuietInv => ReconcilerServesRaft
  <2> SUFFICES ASSUME Inv, QuietInv, quiet, ~Panicked, NEW g \in Gens, loop[g],
                      ~(g = gen /\ running)
               PROVE  {watches[g], stopCh} \subseteq closed
    BY DEF ReconcilerServesRaft
  <2>1. stopCh \in closed
    BY DEF QuietInv, OneLoop, Panicked
  <2>2. watches[g] \in Nat /\ stopCh \in Nat /\ watches[g] <= stopCh
    BY DEF Inv, TypeOK, R!RTypeOK, ChannelInv, Gens
  <2>3. watches[g] \in closed
    BY <2>1, <2>2 DEF Inv, ChannelInv
  <2> QED BY <2>1, <2>3
<1> QED BY <1>1, Invariance, PTL
===========================================================================
