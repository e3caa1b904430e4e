--------------------------- MODULE NodeLifecycle ---------------------------
(***************************************************************************)
(* One process: node.Node on top of a consensus.Node, its Bootstrapper and *)
(* its raft.Node (internal/node, internal/consensus).                      *)
(*                                                                         *)
(* One caller calls Start and Stop in turn, at any time.  Each Start of    *)
(* the consensus node spawns two goroutines: the run loop (Bootstrapper)   *)
(* and waitForBootstrap, which polls the state every 50 ms and runs the    *)
(* Raft callback when it has seen StateRunning.  Nobody waits for it.      *)
(***************************************************************************)
EXTENDS Naturals, FiniteSets

CONSTANTS MaxStarts, MaxCancels, LeaveMayFail

VARIABLES
    state, gen, stopClosed, stoppedClosed, at, deferred, did, gossip, lists,
    cancelled, role, bPanic,                          \* see Bootstrapper
    raft, live, made, running, stopCh, closed, disk, call, verdict, seeded,
    loop, watches, rPanic,                            \* see RaftNode
    up,         \* consensus.Node.running
    cGen,       \* consensus.Node.stopCh, numbered by Start calls
    cClosed,    \* the ones that are closed
    waiter,     \* waiter[g]: where waitForBootstrap of the g-th Start is
    selects,    \* selects[g]: the channel its select waits on, or 0
    caller,     \* where the caller of Stop is
    quiet       \* every Stop so far was called with no goroutine under way

B == INSTANCE Bootstrapper
R == INSTANCE RaftNode WITH Threads <- 1..MaxStarts

ASSUME LifecycleAssumption ==
    MaxStarts \in Nat \ {0} /\ MaxCancels \in Nat /\ LeaveMayFail \in BOOLEAN

bVars == <<state, gen, stopClosed, stoppedClosed, at, deferred, did, gossip,
           lists, cancelled, role, bPanic>>
rVars == <<raft, live, made, running, stopCh, closed, disk, call, verdict, seeded,
           loop, watches, rPanic>>
nVars == <<up, cGen, cClosed, waiter, selects, caller, quiet>>
vars == <<bVars, rVars, nVars>>

Gens == 1..MaxStarts

TypeOK ==
    /\ B!BTypeOK
    /\ R!RTypeOK
    /\ up \in BOOLEAN
    /\ cGen \in 0..MaxStarts
    /\ cClosed \subseteq 0..MaxStarts
    /\ waiter \in [Gens -> {"none", "ticking", "complete", "bootstrap", "join",
                            "called", "done"}]
    /\ selects \in [Gens -> 0..MaxStarts]
    /\ caller \in {"idle", "raftDown", "waiting"}
    /\ quiet \in BOOLEAN

Init ==
    /\ B!BInit
    /\ R!RInit
    /\ up = FALSE
    /\ cGen = 0
    /\ cClosed = {}
    /\ waiter = [g \in Gens |-> "none"]
    /\ selects = [g \in Gens |-> 0]
    /\ caller = "idle"
    /\ quiet = TRUE

\* A panic ends the process.
Panicked == bPanic \/ rPanic

\* No goroutine of this node is about to do anything of consequence: the last
\* run loop is past StateInit and the callback, if any, has returned.
Quiet ==
    /\ state \in {"Running", "Failed"}
    /\ \A g \in Gens : waiter[g] \in {"none", "called", "done"}
    /\ \A g \in Gens : waiter[g] = "called" => call[g] = "returned"

---------------------------------------------------------------------------
(* The caller: node.Start and node.Stop *)

\* consensus.Node.Start, each time with a context of its own; the Bootstrapper
\* refuses unless Init or Failed.
Start ==
    /\ ~Panicked
    /\ caller = "idle" /\ ~up
    /\ cGen < MaxStarts
    /\ cGen' = cGen + 1
    /\ \/ /\ B!BStart
          /\ up' = TRUE
          /\ waiter' = [waiter EXCEPT ![gen + 1] = "ticking"]
          /\ selects' = [selects EXCEPT ![gen + 1] = cGen + 1]
       \/ /\ ~B!MayStart
          /\ UNCHANGED <<bVars, up, waiter, selects>>
    /\ UNCHANGED <<rVars, cClosed, caller, quiet>>

\* node.Stop, first: raftNode.Shutdown, whether or not the node is running.
StopRaft ==
    /\ ~Panicked
    /\ caller = "idle" /\ cGen > 0
    /\ R!Shutdown
    /\ caller' = "raftDown"
    /\ quiet' = (quiet /\ (up => Quiet))
    /\ UNCHANGED <<bVars, up, cGen, cClosed, waiter, selects>>

\* node.Stop, then: consensusNode.Stop refuses unless running.  It closes its
\* stopCh and calls Bootstrapper.Stop, which refuses in StateInit.
StopConsensus ==
    /\ ~Panicked
    /\ caller = "raftDown"
    /\ \/ /\ ~up
          /\ caller' = "idle"
          /\ UNCHANGED <<bVars, up, cClosed>>
       \/ /\ up
          /\ B!BStopSignal
          /\ caller' = "waiting"
          /\ cClosed' = cClosed \cup {cGen}
          /\ UNCHANGED up
       \/ /\ up
          /\ ~B!MayStop
          /\ caller' = "idle"
          /\ cClosed' = cClosed \cup {cGen}
          /\ up' = FALSE
          /\ UNCHANGED bVars
    /\ UNCHANGED <<rVars, cGen, waiter, selects, quiet>>

\* Bootstrapper.Stop returns, and so does node.Stop.
StopFinish ==
    /\ ~Panicked
    /\ caller = "waiting"
    /\ B!BStopFinish
    /\ caller' = "idle"
    /\ up' = FALSE
    /\ UNCHANGED <<rVars, cGen, cClosed, waiter, selects, quiet>>

---------------------------------------------------------------------------
(* waitForBootstrap of the g-th Start *)

\* The poll is over.
WaiterLeaves(g, l) ==
    /\ waiter' = [waiter EXCEPT ![g] = l]
    /\ selects' = [selects EXCEPT ![g] = 0]

\* The states in which the poll gives up.
GivesUp == state \in {"Failed", "Init"}

\* ctx.Done or stopCh.
WaiterStops(g) ==
    /\ ~Panicked
    /\ waiter[g] = "ticking"
    /\ g \in cancelled \/ selects[g] \in cClosed
    /\ WaiterLeaves(g, "done")
    /\ UNCHANGED <<bVars, rVars, up, cGen, cClosed, caller, quiet>>

\* The ticker; the select may prefer it to a closed channel.  n.stopCh is read
\* again at every turn (a goroutine that first runs after a second Start behaves
\* like one that ticks then: the first channel is closed by that time).
WaiterTicks(g) ==
    /\ ~Panicked
    /\ waiter[g] = "ticking"
    /\ \/ state = "Running" /\ WaiterLeaves(g, "complete")
       \/ GivesUp /\ WaiterLeaves(g, "done")
       \/ /\ state # "Running" /\ ~GivesUp
          /\ selects' = [selects EXCEPT ![g] = cGen]
          /\ UNCHANGED waiter
    /\ UNCHANGED <<bVars, rVars, up, cGen, cClosed, caller, quiet>>

\* onBootstrapComplete asks the Bootstrapper once more ...
AskDidBootstrap(g) ==
    /\ ~Panicked
    /\ waiter[g] = "complete"
    /\ waiter' = [waiter EXCEPT ![g] = IF B!DidBootstrap THEN "bootstrap" ELSE "join"]
    /\ UNCHANGED <<bVars, rVars, up, cGen, cClosed, selects, caller, quiet>>

\* ... and calls back.
OnBootstrapComplete(g) ==
    /\ ~Panicked
    /\ \/ waiter[g] = "bootstrap" /\ R!OnBootstrap(g)
       \/ waiter[g] = "join" /\ gossip # 0 /\ R!OnJoin(g)
    /\ waiter' = [waiter EXCEPT ![g] = "called"]
    /\ UNCHANGED <<bVars, up, cGen, cClosed, selects, caller, quiet>>

---------------------------------------------------------------------------
RunLoop(g) == ~Panicked /\ B!Run(g) /\ UNCHANGED <<rVars, nVars>>
CancelContext == ~Panicked /\ B!Cancel /\ UNCHANGED <<rVars, nVars>>
Waiter(g) ==
    WaiterStops(g) \/ WaiterTicks(g) \/ AskDidBootstrap(g) \/ OnBootstrapComplete(g)
Callback(g) == ~Panicked /\ R!Callback(g) /\ UNCHANGED <<bVars, nVars>>
Reconcile(g) == ~Panicked /\ R!ReconcileLoop(g) /\ UNCHANGED <<bVars, nVars>>
Persist == ~Panicked /\ R!Persist /\ UNCHANGED <<bVars, nVars>>

Next ==
    \/ Start \/ CancelContext \/ Persist
    \/ StopRaft \/ StopConsensus \/ StopFinish
    \/ \E g \in Gens : RunLoop(g) \/ Waiter(g) \/ Callback(g) \/ Reconcile(g)

Spec == Init /\ [][Next]_vars

\* Goroutines are scheduled, sleeps end, and a call of Stop goes on; nothing
\* obliges the caller to call, a retry to succeed or Raft to persist.
Fairness ==
    /\ WF_vars(StopConsensus \/ StopFinish)
    /\ \A g \in Gens :
          /\ WF_vars(RunLoop(g))
          /\ WF_vars(Waiter(g))
          /\ WF_vars(Callback(g))
          /\ WF_vars(Reconcile(g))

FairSpec == Spec /\ Fairness

---------------------------------------------------------------------------
(* Properties *)

\* node.Stop has returned and Start has not been called again.
Stopped == cGen > 0 /\ ~up /\ caller = "idle"

\* When node.Stop (node.go:145-149) has returned without an error, no Raft
\* instance is alive.
NoRaftAfterStop == Stopped /\ gen \in stopClosed => live = {}

\* A Stop called while no goroutine is under way is final: no Raft instance,
\* no run loop and (unless Leave failed) no memberlist is left, now or later
\* (node.go:145-149, consensus/node.go:151-167, bootstrapper.go:159-188).
QuietStopIsFinal ==
    Stopped /\ quiet =>
        /\ live = {}
        /\ LeaveMayFail \/ lists = {}
        /\ \A g \in Gens : at[g] \in {"none", "done"}

\* No Stop of a node that is at rest panics, in its first life or a later one:
\* Bootstrapper.Start and consensus.Node.Start make their channels anew, and
\* raft.Node does not (raft/node.go:55, 135).
QuietStopsAreSafe == quiet => ~Panicked

\* The first Stop of a node that is at rest does not panic.
QuietStopIsSafe == quiet /\ cGen <= 1 => ~Panicked

\* At most one Raft instance runs on the storages, and it is the one Apply and
\* Shutdown know (raft/node.go:218), as long as every Stop was a quiet one.
OneRaftOnStorage == quiet => live \subseteq {raft}

\* Stop does not wait for a reconciliation goroutine, and that goroutine reads
\* n.stopCh anew at every turn (raft/reconcile.go:14-21).  With quiet Stops it
\* belongs to the Raft of the present life, or is bound to leave: the channel it
\* waits on and the one it would read next are closed, so none takes part in a
\* later life.
ReconcilerServesRaft ==
    quiet /\ ~Panicked =>
        \A g \in Gens : loop[g] =>
            (g = gen /\ running) \/ {watches[g], stopCh} \subseteq closed

\* Raft state is wiped only after the cluster refused this node or no leader
\* answered, never because this node is being stopped (raft/callbacks.go:88-97).
WipedOnlyWhenUnaccepted ==
    [][disk /\ ~disk' =>
          \E g \in Gens : call[g] = "jitter" /\ verdict[g] = "unaccepted"]_vars

\* However the goroutines of several lives overtake one another, a node makes a
\* Raft cluster only if a run loop of its decided to found one; and as long as
\* every Stop was a quiet one it makes no second cluster, although didBootstrap
\* is never reset (bootstrapper.go:137, raft/callbacks.go:43).
ClustersAreFounded ==
    /\ seeded # {} => \E g \in Gens : role[g] = "founder"
    /\ quiet => Cardinality(seeded) <= 1

\* While Stop waits for stoppedCh (bootstrapper.go:174) the channel is closed
\* already or a goroutine is left that is going to close it.
StopIsAwaited ==
    caller = "waiting" =>
        \/ gen \in stoppedClosed
        \/ \E g \in Gens : at[g] \notin {"none", "spawned", "done"} /\ deferred[g] = gen
        \/ at[gen] = "spawned"

\* Stop returns: nothing it waits for waits for it (bootstrapper.go:174).
StopReturns == (caller # "idle") ~> (caller = "idle" \/ Panicked)

\* After a quiet Stop the reconciliation goroutines end
\* (raft/reconcile.go:14-21).
ReconcilersEnd == (Stopped /\ quiet) ~> (\A g \in Gens : ~loop[g])

\* A node that is running and left alone gets its Raft callback
\* (consensus/node.go:84-105).
CallbackDelivered ==
    \A g \in Gens :
        (state = "Running" /\ up /\ gen = g)
            ~> (call[g] # "idle" \/ caller # "idle" \/ g \in cancelled \/ Panicked)
===========================================================================
