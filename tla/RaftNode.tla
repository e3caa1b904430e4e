----------------------------- MODULE RaftNode -----------------------------
(***************************************************************************)
(* One raft.Node object (internal/raft): the callbacks OnBootstrap and     *)
(* OnJoin with their acceptance check and storage reset, Shutdown, and the *)
(* reconciliation goroutines they spawn.  The sections under Node.mu are   *)
(* single actions; what the code does between them is not.                 *)
(*                                                                         *)
(* A callback runs on the goroutine t that called it.  Channels are        *)
(* numbered in the order they are made: New makes 0, a reset makes the     *)
(* next one.  What Raft itself decides (hashicorp/raft, external) is       *)
(* nondeterministic here: whether this server is in the configuration,     *)
(* whether anything has been persisted, whether a start succeeds.          *)
(***************************************************************************)
EXTENDS Naturals, FiniteSets

CONSTANT Threads        \* the goroutines that may run a callback, numbered

VARIABLES
    raft,       \* n.raft: number of the instance, 0 is nil
    live,       \* Raft instances that have been started and not shut down
    made,       \* Raft instances made so far
    running,    \* n.running
    stopCh,     \* n.stopCh
    closed,     \* the channels that are closed
    disk,       \* the storages hold Raft state (HasExistingState)
    call,       \* call[t]: where the callback on goroutine t is
    verdict,    \* verdict[t]: why the reset on t is under way, or "none"
    seeded,     \* the goroutines whose OnBootstrap made a new cluster (history)
    loop,       \* loop[t]: t's reconciliation goroutine is alive
    watches,    \* watches[t]: the channel that goroutine's select waits on, or 0
    rPanic      \* a goroutine of this object closed a closed channel

rVars == <<raft, live, made, running, stopCh, closed, disk, call, verdict, seeded,
           loop, watches, rPanic>>

Calls == {"idle", "joined", "accepting", "rejected", "jitter", "returned"}
Verdicts == {"none", "unaccepted", "shutdown"}

RTypeOK ==
    /\ raft \in Nat
    /\ made \in Nat
    /\ live \subseteq 1..made
    /\ raft # 0 => raft \in live
    /\ running \in BOOLEAN
    /\ stopCh \in Nat
    /\ closed \subseteq 0..stopCh
    /\ disk \in BOOLEAN
    /\ call \in [Threads -> Calls]
    /\ verdict \in [Threads -> Verdicts]
    /\ seeded \subseteq Threads
    /\ loop \in [Threads -> BOOLEAN]
    /\ watches \in [Threads -> Nat]
    /\ rPanic \in BOOLEAN

RInit ==
    /\ raft = 0
    /\ live = {}
    /\ made = 0
    /\ running = FALSE
    /\ stopCh = 0
    /\ closed = {}
    /\ disk \in BOOLEAN
    /\ call = [t \in Threads |-> "idle"]
    /\ verdict = [t \in Threads |-> "none"]
    /\ seeded = {}
    /\ loop = [t \in Threads |-> FALSE]
    /\ watches = [t \in Threads |-> 0]
    /\ rPanic = FALSE

---------------------------------------------------------------------------
Goto(t, l) == call' = [call EXCEPT ![t] = l]

\* startRaft succeeds: a new instance replaces n.raft, whatever was there.
StartRaft ==
    /\ made' = made + 1
    /\ raft' = made + 1
    /\ live' = live \cup {made + 1}
    /\ running' = TRUE

\* go n.startReconciliationLoop()
SpawnLoop(t) ==
    /\ loop' = [loop EXCEPT ![t] = TRUE]
    /\ watches' = [watches EXCEPT ![t] = stopCh]

\* A start that fails (address in use) leaves the fields alone.
StartFails == UNCHANGED <<made, raft, live, running>>

\* BootstrapCluster, unless the storages hold state already.
BootstrapCluster(t) ==
    /\ seeded' = IF disk THEN seeded ELSE seeded \cup {t}
    /\ disk' = TRUE

\* OnBootstrap holds the lock throughout.  The second disjunct is its error
\* returns, before and after startRaft.
OnBootstrap(t) ==
    /\ call[t] = "idle"
    /\ Goto(t, "returned")
    /\ \/ StartRaft /\ BootstrapCluster(t) /\ SpawnLoop(t)
       \/ (StartRaft \/ StartFails) /\ UNCHANGED <<disk, seeded, loop, watches>>
    /\ UNCHANGED <<stopCh, closed, verdict, rPanic>>

\* OnJoin up to the return of startRaftLocked.
OnJoin(t) ==
    /\ call[t] = "idle"
    /\ \/ StartRaft /\ Goto(t, "joined")
       \/ StartFails /\ Goto(t, "returned")
    /\ UNCHANGED <<stopCh, closed, disk, verdict, seeded, loop, watches, rPanic>>

\* OnJoin, HasExistingState: a node with nothing on disk waits for the leader
\* to add it.  A storage that cannot be read counts as empty.
CheckState(t) ==
    /\ call[t] = "joined"
    /\ \/ disk /\ Goto(t, "accepting") /\ UNCHANGED <<loop, watches>>
       \/ Goto(t, "returned") /\ SpawnLoop(t)
    /\ UNCHANGED <<raft, live, made, running, stopCh, closed, disk, verdict,
                   seeded, rPanic>>

\* Why waitForAcceptance can return FALSE: the configuration does not name this
\* server, or no leader was seen in any attempt; or stopCh is closed, an error
\* OnJoin does not look at.
Refusals == {"unaccepted"} \cup {v \in {"shutdown"} : stopCh \in closed}

WaitForAcceptance(t) ==
    /\ call[t] = "accepting"
    /\ \/ raft # 0 /\ Goto(t, "returned") /\ SpawnLoop(t) /\ UNCHANGED verdict
       \/ /\ \E v \in Refusals : verdict' = [verdict EXCEPT ![t] = v]
          /\ Goto(t, "rejected")
          /\ UNCHANGED <<loop, watches>>
    /\ UNCHANGED <<raft, live, made, running, stopCh, closed, disk, seeded, rPanic>>

\* Mutants of BeginReset: stopCh is not renewed; the old instance is not shut
\* down; the close is guarded, so that a reset goes ahead during a shutdown.
BeginResetKeepsChannel(t) ==
    /\ call[t] = "rejected"
    /\ Goto(t, "jitter")
    /\ live' = live \ {raft}
    /\ raft' = 0
    /\ running' = FALSE
    /\ closed' = closed \cup {stopCh}
    /\ rPanic' = (stopCh \in closed)
    /\ UNCHANGED <<made, stopCh, disk, verdict, seeded, loop, watches>>

BeginResetKeepsRaft(t) ==
    /\ call[t] = "rejected"
    /\ Goto(t, "jitter")
    /\ raft' = 0
    /\ running' = FALSE
    /\ stopCh' = stopCh + 1
    /\ closed' = closed \cup {stopCh}
    /\ rPanic' = (stopCh \in closed)
    /\ UNCHANGED <<live, made, disk, verdict, seeded, loop, watches>>

BeginResetGuarded(t) ==
    /\ call[t] = "rejected"
    /\ Goto(t, "jitter")
    /\ live' = live \ {raft}
    /\ raft' = 0
    /\ running' = FALSE
    /\ stopCh' = stopCh + 1
    /\ closed' = closed \cup {stopCh}
    /\ UNCHANGED <<made, disk, verdict, seeded, loop, watches, rPanic>>

\* resetAndRestart up to its wait: shut down, renew stopCh, close the old one.
BeginReset(t) ==
    /\ call[t] = "rejected"
    /\ Goto(t, "jitter")
    /\ live' = live \ {raft}
    /\ raft' = 0
    /\ running' = FALSE
    /\ stopCh' = stopCh + 1
    /\ closed' = closed \cup {stopCh}
    /\ rPanic' = (stopCh \in closed)
    /\ UNCHANGED <<made, disk, verdict, seeded, loop, watches>>

\* resetAndRestart after its wait: give up when stopCh is closed, or wipe the
\* storages and start over.  Reset, Create and startRaft may each fail.
EndReset(t) ==
    /\ call[t] = "jitter"
    /\ Goto(t, "returned")
    /\ \/ stopCh \in closed /\ UNCHANGED <<disk, loop, watches>> /\ StartFails
       \/ disk' = FALSE /\ StartRaft /\ SpawnLoop(t)
       \/ disk' \in {disk, FALSE} /\ StartFails /\ UNCHANGED <<loop, watches>>
    /\ verdict' = [verdict EXCEPT ![t] = "none"]
    /\ UNCHANGED <<stopCh, closed, seeded, rPanic>>

\* Mutants of Shutdown: n.raft is not cleared; the instance is not shut down;
\* stopCh is made anew at once, so that the next Shutdown can close it.
ShutdownKeepsPointer ==
    \/ ~running /\ UNCHANGED rVars
    \/ /\ running
       /\ rPanic' = (stopCh \in closed)
       /\ closed' = closed \cup {stopCh}
       /\ running' = FALSE
       /\ live' = live \ {raft}
       /\ UNCHANGED <<raft, made, stopCh, disk, call, verdict, seeded, loop, watches>>

ShutdownKeepsRaft ==
    \/ ~running /\ UNCHANGED rVars
    \/ /\ running
       /\ rPanic' = (stopCh \in closed)
       /\ closed' = closed \cup {stopCh}
       /\ running' = FALSE
       /\ raft' = 0
       /\ UNCHANGED <<live, made, stopCh, disk, call, verdict, seeded, loop, watches>>

ShutdownRenewsChannel ==
    \/ ~running /\ UNCHANGED rVars
    \/ /\ running
       /\ rPanic' = (stopCh \in closed)
       /\ closed' = closed \cup {stopCh}
       /\ stopCh' = stopCh + 1
       /\ running' = FALSE
       /\ live' = live \ {raft}
       /\ raft' = 0
       /\ UNCHANGED <<made, disk, call, verdict, seeded, loop, watches>>

\* Shutdown does nothing unless running.
Shutdown ==
    \/ /\ ~running
       /\ UNCHANGED rVars
    \/ /\ running
       /\ rPanic' = (stopCh \in closed)
       /\ closed' = closed \cup {stopCh}
       /\ running' = FALSE
       /\ live' = live \ {raft}
       /\ raft' = 0
       /\ UNCHANGED <<made, stopCh, disk, call, verdict, seeded, loop, watches>>

\* A reconciliation goroutine leaves when the channel it watches is closed;
\* after a tick it watches the current one.
ReconcileLoop(t) ==
    /\ loop[t]
    /\ \/ /\ watches[t] \in closed
          /\ loop' = [loop EXCEPT ![t] = FALSE]
          /\ watches' = [watches EXCEPT ![t] = 0]
       \/ /\ watches[t] # stopCh
          /\ watches' = [watches EXCEPT ![t] = stopCh]
          /\ UNCHANGED loop
    /\ UNCHANGED <<raft, live, made, running, stopCh, closed, disk, call, verdict,
                   seeded, rPanic>>

\* External: a live Raft instance persists its first term or entry.
Persist ==
    /\ live # {} /\ ~disk
    /\ disk' = TRUE
    /\ UNCHANGED <<raft, live, made, running, stopCh, closed, call, verdict, seeded,
                   loop, watches, rPanic>>

\* The rest of a callback, once OnJoin or OnBootstrap has been called on t.
Callback(t) ==
    CheckState(t) \/ WaitForAcceptance(t) \/ BeginReset(t) \/ EndReset(t)
===========================================================================
