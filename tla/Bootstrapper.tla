--------------------------- MODULE Bootstrapper ---------------------------
(***************************************************************************)
(* One bootstrap.Bootstrapper object: Start, Stop, and the run goroutine   *)
(* of each Start (internal/bootstrap/bootstrapper.go).                     *)
(*                                                                         *)
(* ClusterBootstrap says what the run loops of several nodes do together;  *)
(* here the outcome of a round is nondeterministic and the subject is the  *)
(* object's life: goroutines of different Starts share its fields, its     *)
(* channels are made by Start, closed by Stop and by the goroutine, and    *)
(* re-read from the fields at every select.                                *)
(*                                                                         *)
(* The stopCh and stoppedCh made by the g-th Start are both called g.      *)
(***************************************************************************)
EXTENDS Naturals, FiniteSets

CONSTANTS
    MaxStarts,      \* bound: how often Start may be called, at least 1
    MaxCancels,     \* bound: how often the caller may cancel a context
    LeaveMayFail    \* a Boolean: memberlist.Leave may time out

VARIABLES
    state,          \* Bootstrapper.state
    gen,            \* Starts so far: b.stopCh and b.stoppedCh, 0 is nil
    stopClosed,     \* the stopCh that are closed
    stoppedClosed,  \* the stoppedCh that are closed
    at,             \* at[g]: where the goroutine of the g-th Start is
    deferred,       \* deferred[g]: the stoppedCh that goroutine will close, or 0
    did,            \* didBootstrap
    gossip,         \* b.gossip: the Start that made it, 0 is nil
    lists,          \* memberlists that are up, by the Start that made them
    cancelled,      \* the Starts whose context is cancelled
    role,           \* role[g]: how the goroutine's rounds ended (history)
    bPanic          \* a goroutine of this object closed a closed channel

bVars == <<state, gen, stopClosed, stoppedClosed, at, deferred, did, gossip,
           lists, cancelled, role, bPanic>>

Gens == 1..MaxStarts

States == {"Init", "MDNSAdvertiserUp", "GossipUp", "Discovering", "Joining",
           "Bootstrapping", "Retrying", "Running", "Failed"}

Locations == {"none", "spawned", "mdns", "gossip", "head", "round", "join",
              "announce", "backoff", "exit", "done"}

BTypeOK ==
    /\ state \in States
    /\ gen \in 0..MaxStarts
    /\ stopClosed \subseteq Gens
    /\ stoppedClosed \subseteq Gens
    /\ at \in [Gens -> Locations]
    /\ deferred \in [Gens -> 0..MaxStarts]
    /\ did \in BOOLEAN
    /\ gossip \in 0..MaxStarts
    /\ lists \subseteq Gens
    /\ cancelled \subseteq Gens
    /\ role \in [Gens -> {"none", "founder", "member"}]
    /\ bPanic \in BOOLEAN

BInit ==
    /\ state = "Init"
    /\ gen = 0
    /\ stopClosed = {}
    /\ stoppedClosed = {}
    /\ at = [g \in Gens |-> "none"]
    /\ deferred = [g \in Gens |-> 0]
    /\ did = FALSE
    /\ gossip = 0
    /\ lists = {}
    /\ cancelled = {}
    /\ role = [g \in Gens |-> "none"]
    /\ bPanic = FALSE

---------------------------------------------------------------------------
(* Start and Stop, called by the consensus node *)

\* Start goes ahead; in any other state it returns ErrAlreadyRunning.
MayStart == state \in {"Init", "Failed"}

BStart ==
    /\ MayStart
    /\ gen < MaxStarts
    /\ gen' = gen + 1
    /\ state' = "Init"
    /\ at' = [at EXCEPT ![gen + 1] = "spawned"]
    /\ UNCHANGED <<stopClosed, stoppedClosed, deferred, did, gossip, lists,
                   cancelled, role, bPanic>>

\* Stop goes ahead; in StateInit it returns ErrNotRunning.
MayStop == state # "Init"

\* First half of Stop: close stopCh unless it is closed.
BStopSignal ==
    /\ MayStop
    /\ stopClosed' = stopClosed \cup {gen}
    /\ UNCHANGED <<state, gen, stoppedClosed, at, deferred, did, gossip, lists,
                   cancelled, role, bPanic>>

\* gossip.Stop gives up when Leave fails, and the memberlist stays.
StopGossip ==
    \/ lists' = lists \ {gossip}
    \/ LeaveMayFail /\ UNCHANGED lists

\* Second half: once stoppedCh is closed, stop gossip and the advertiser (whose
\* server is not part of this state).
BStopFinish ==
    /\ gen \in stoppedClosed
    /\ StopGossip
    /\ state' = "Init"
    /\ UNCHANGED <<gen, stopClosed, stoppedClosed, at, deferred, did, gossip,
                   cancelled, role, bPanic>>

\* The caller cancels the context it gave to the last Start.
Cancel ==
    /\ gen > 0 /\ gen \notin cancelled
    /\ Cardinality(cancelled) < MaxCancels
    /\ cancelled' = cancelled \cup {gen}
    /\ UNCHANGED <<state, gen, stopClosed, stoppedClosed, at, deferred, did,
                   gossip, lists, role, bPanic>>

---------------------------------------------------------------------------
(* The run goroutine of the g-th Start *)

Goto(g, l) == at' = [at EXCEPT ![g] = l]

\* defer close(b.stoppedCh) reads the field when the goroutine first runs.
Enter(g) ==
    /\ at[g] = "spawned"
    /\ Goto(g, "mdns")
    /\ deferred' = [deferred EXCEPT ![g] = gen]
    /\ UNCHANGED <<state, gen, stopClosed, stoppedClosed, did, gossip, lists,
                   cancelled, role, bPanic>>

\* The mDNS server comes up, or the goroutine gives up.
StartMDNSAdvertiser(g) ==
    /\ at[g] = "mdns"
    /\ \/ state' = "MDNSAdvertiserUp" /\ Goto(g, "gossip")
       \/ state' = "Failed" /\ Goto(g, "exit")
    /\ UNCHANGED <<gen, stopClosed, stoppedClosed, deferred, did, gossip, lists,
                   cancelled, role, bPanic>>

\* A memberlist needs the gossip port for itself.
StartGossip(g) ==
    /\ at[g] = "gossip"
    /\ \/ /\ lists = {}
          /\ lists' = {g}
          /\ gossip' = g
          /\ state' = "GossipUp"
          /\ Goto(g, "head")
       \/ /\ state' = "Failed"
          /\ Goto(g, "exit")
          /\ UNCHANGED <<lists, gossip>>
    /\ UNCHANGED <<gen, stopClosed, stoppedClosed, deferred, did, cancelled,
                   role, bPanic>>

\* Mutant of Head: the loop does not look at stopCh.
HeadIgnoresStop(g) ==
    /\ at[g] = "head"
    /\ \/ g \in cancelled /\ state' = "Failed" /\ Goto(g, "exit")
       \/ g \notin cancelled /\ state' = "Discovering" /\ Goto(g, "round")
    /\ UNCHANGED <<gen, stopClosed, stoppedClosed, deferred, did, gossip, lists,
                   cancelled, role, bPanic>>

\* The select at the head of the loop; b.stopCh is the current one.
Head(g) ==
    /\ at[g] = "head"
    /\ \/ g \in cancelled /\ state' = "Failed" /\ Goto(g, "exit")
       \/ gen \in stopClosed /\ Goto(g, "exit") /\ UNCHANGED state
       \/ /\ g \notin cancelled /\ gen \notin stopClosed
          /\ state' = "Discovering"
          /\ Goto(g, "round")
    /\ UNCHANGED <<gen, stopClosed, stoppedClosed, deferred, did, gossip, lists,
                   cancelled, role, bPanic>>

\* Discovery found a bootstrapped peer.
TryJoin(g) ==
    /\ at[g] = "round"
    /\ state' = "Joining"
    /\ Goto(g, "join")
    /\ UNCHANGED <<gen, stopClosed, stoppedClosed, deferred, did, gossip, lists,
                   cancelled, role, bPanic>>

\* joinCluster succeeds.
Joined(g) ==
    /\ at[g] = "join"
    /\ role' = [role EXCEPT ![g] = "member"]
    /\ Goto(g, "announce")
    /\ UNCHANGED <<state, gen, stopClosed, stoppedClosed, deferred, did, gossip,
                   lists, cancelled, bPanic>>

\* shouldBootstrap says yes.
FoundCluster(g) ==
    /\ at[g] = "round"
    /\ state' = "Bootstrapping"
    /\ did' = TRUE
    /\ role' = [role EXCEPT ![g] = "founder"]
    /\ Goto(g, "announce")
    /\ UNCHANGED <<gen, stopClosed, stoppedClosed, deferred, gossip, lists,
                   cancelled, bPanic>>

\* The round came to nothing: joinCluster failed, the node may not bootstrap, or
\* the slot wait ended early.
Retry(g) ==
    /\ at[g] \in {"round", "join"}
    /\ state' = "Retrying"
    /\ Goto(g, "backoff")
    /\ UNCHANGED <<gen, stopClosed, stoppedClosed, deferred, did, gossip, lists,
                   cancelled, role, bPanic>>

\* Back off, however waitBackoff ends, or give up when shouldFail says so.
Backoff(g) ==
    /\ at[g] = "backoff"
    /\ \/ Goto(g, "head") /\ UNCHANGED state
       \/ state' = "Failed" /\ Goto(g, "exit")
    /\ UNCHANGED <<gen, stopClosed, stoppedClosed, deferred, did, gossip, lists,
                   cancelled, role, bPanic>>

\* setBootstrapped(true) and StateRunning.
Announce(g) ==
    /\ at[g] = "announce"
    /\ state' = "Running"
    /\ Goto(g, "exit")
    /\ UNCHANGED <<gen, stopClosed, stoppedClosed, deferred, did, gossip, lists,
                   cancelled, role, bPanic>>

\* Mutant of Exit: the close is not deferred, and an early return skips it.
ExitWithoutClose(g) ==
    /\ at[g] = "exit"
    /\ Goto(g, "done")
    /\ IF state = "Failed"
         THEN UNCHANGED <<stoppedClosed, bPanic>>
         ELSE /\ bPanic' = (deferred[g] \in stoppedClosed)
              /\ stoppedClosed' = stoppedClosed \cup {deferred[g]}
    /\ deferred' = [deferred EXCEPT ![g] = 0]
    /\ UNCHANGED <<state, gen, stopClosed, did, gossip, lists, cancelled,
                   role>>

\* run returns and the deferred close runs; closing twice panics.
Exit(g) ==
    /\ at[g] = "exit"
    /\ Goto(g, "done")
    /\ bPanic' = (deferred[g] \in stoppedClosed)
    /\ stoppedClosed' = stoppedClosed \cup {deferred[g]}
    /\ deferred' = [deferred EXCEPT ![g] = 0]
    /\ UNCHANGED <<state, gen, stopClosed, did, gossip, lists, cancelled,
                   role>>

Run(g) ==
    \/ Enter(g) \/ StartMDNSAdvertiser(g) \/ StartGossip(g) \/ Head(g)
    \/ TryJoin(g) \/ Joined(g) \/ FoundCluster(g) \/ Retry(g) \/ Backoff(g)
    \/ Announce(g) \/ Exit(g)

\* Mutant of DidBootstrap: it only looks at the state.
DidBootstrapRunning == state = "Running"

\* DidBootstrap(); nothing ever resets didBootstrap.
DidBootstrap == state = "Running" /\ did
===========================================================================
