------------------------- MODULE ClusterBootstrap -------------------------
(***************************************************************************)
(* How a set of nodes agrees on who founds the Raft cluster.               *)
(*                                                                         *)
(* Every node runs Bootstrapper.run (internal/bootstrap/bootstrapper.go):  *)
(* bring gossip up, then loop over "discover peers, join one that is       *)
(* already bootstrapped, or else wait for a slot, look again and found the *)
(* cluster when still alone".  The only thing nodes share is gossip        *)
(* (hashicorp/memberlist, external): each node has its own view of who is  *)
(* a member and of whose metadata says "bootstrapped".                     *)
(*                                                                         *)
(* Abstracted: addresses are nodes; incarnation numbers are dropped, so an *)
(* entry about a third node may travel after that node is gone (more       *)
(* behaviours than memberlist has); the delays of waitForBootstrapSlot and *)
(* waitBackoff are arbitrary.                                              *)
(***************************************************************************)
EXTENDS Naturals

CONSTANTS
    Nodes,          \* the nodes of the deployment
    Peers,          \* Peers[n]: what n's discoverer is configured to return
    CanBootstrap,   \* the nodes whose Config.CanBootstrap is set
    Reliable,       \* discovery, dialling and failure detection never err
    MaxRetries,     \* Config.MaxDiscoveryRetries, 0 is "no limit"
    MaxHalts        \* bound: how many crashes a behaviour may have

ASSUME ConstantsAssumption ==
    /\ Peers \in [Nodes -> SUBSET Nodes]
    /\ CanBootstrap \subseteq Nodes
    /\ Reliable \in BOOLEAN
    /\ MaxRetries \in Nat
    /\ MaxHalts \in Nat

VARIABLES
    pc,         \* pc[n]: where n's run goroutine is
    members,    \* members[n]: n's memberlist view, itself included
    known,      \* known[n]: members whose metadata, as n holds it, says bootstrapped
    did,        \* did[n]: Bootstrapper.didBootstrap
    attempt,    \* attempt[n]: the loop's retry counter
    addrs,      \* addrs[n]: what the last Discover call returned
    todo,       \* todo[n]: addresses the Join in progress has yet to dial
    hit,        \* hit[n]: the Join in progress has reached somebody
    halts       \* crashes so far

vars == <<pc, members, known, did, attempt, addrs, todo, hit, halts>>

PCs == {"down", "init", "gossipUp", "discovering", "slot", "rechecking",
        "joining", "joined", "bootstrapping", "founded", "retrying",
        "running", "failed"}

TypeOK ==
    /\ pc \in [Nodes -> PCs]
    /\ members \in [Nodes -> SUBSET Nodes]
    /\ known \in [Nodes -> SUBSET Nodes]
    /\ did \in [Nodes -> BOOLEAN]
    /\ attempt \in [Nodes -> Nat]
    /\ addrs \in [Nodes -> SUBSET Nodes]
    /\ todo \in [Nodes -> SUBSET Nodes]
    /\ hit \in [Nodes -> BOOLEAN]
    /\ halts \in Nat
    /\ \A n \in Nodes : todo[n] \subseteq addrs[n]

---------------------------------------------------------------------------
(* Reading a node's state *)

\* The memberlist of n answers: it does from startGossip on, whatever becomes
\* of the run goroutine (a failed bootstrapper does not stop its gossip).
GossipUp(n) == pc[n] \notin {"down", "init"}

\* gossip.delegate.bootstrapped of n, as n itself advertises it.
Flagged(n) == n \in known[n]

\* Mutants of Alone: the comparison with 1 off by one, either way.
AloneAcceptsOne(n) == \E m \in Nodes : members[n] \subseteq {n, m}
AloneNeedsNobody(n) == members[n] = {}

\* NumMembers() > 1 is false.
Alone(n) == members[n] \subseteq {n}

\* Mutant of SeesBootstrapped: the metadata of the member is not looked at.
SeesAnybody(n) == \E m \in members[n] : m # n

\* runDiscovery's answer when the Join succeeded: some member other than n
\* has metadata that says bootstrapped.
SeesBootstrapped(n) == \E m \in members[n] \ {n} : m \in known[n]

\* n has committed to founding a cluster in this life of the process.
Founder(n) == pc[n] \in {"bootstrapping", "founded"} \/ did[n]

---------------------------------------------------------------------------
(* Environment: discovery and memberlist *)

\* Mutant of DiscoveryResults: a partial answer counts as a full one.
PartialResults(n) == SUBSET Peers[n]

\* What Discover may return.  An error or a timeout is the empty list to run.
DiscoveryResults(n) == IF Reliable THEN {Peers[n]} ELSE SUBSET Peers[n]

\* Dialling p gets through.
Reaches(p) == GossipUp(p)

\* n takes over p's whole view (the pull half of memberlist's push/pull; the
\* push half is the gossip p receives from n).
Pull(n, p) ==
    /\ members' = [members EXCEPT ![n] = @ \cup members[p] \cup {p}]
    /\ known' = [known EXCEPT ![n] = (@ \ {p}) \cup (known[p] \ {n})]

\* b hears from a about q.  What a says of itself replaces what b believed.
Gossip(a, b, q) ==
    /\ GossipUp(a) /\ GossipUp(b)
    /\ b \in members[a] \ {a}
    /\ q \in members[a] \ {b}
    /\ members' = [members EXCEPT ![b] = @ \cup {q}]
    /\ known' = [known EXCEPT ![b] =
                    IF q = a THEN (@ \ {a}) \cup (known[a] \cap {a})
                             ELSE @ \cup (known[a] \cap {q})]
    /\ <<members, known>>' # <<members, known>>
    /\ UNCHANGED <<pc, did, attempt, addrs, todo, hit, halts>>

\* n's failure detector drops m.  A reliable one is only wrong about nobody.
Suspect(n, m) ==
    /\ GossipUp(n)
    /\ m \in members[n] \ {n}
    /\ Reliable => ~GossipUp(m)
    /\ members' = [members EXCEPT ![n] = @ \ {m}]
    /\ known' = [known EXCEPT ![n] = @ \ {m}]
    /\ UNCHANGED <<pc, did, attempt, addrs, todo, hit, halts>>

---------------------------------------------------------------------------
(* Bootstrapper.run, one action per observable step of the goroutine *)

Goto(n, l) == pc' = [pc EXCEPT ![n] = l]

\* Mutant of BeginJoin: the addresses of the previous round are kept.
BeginJoinStale(n, A) ==
    /\ todo' = [todo EXCEPT ![n] = A]
    /\ hit' = [hit EXCEPT ![n] = FALSE]
    /\ UNCHANGED addrs

\* A Discover call has returned and g.Join is about to dial its addresses.
\* (gossip.Join with no addresses dials nobody and reaches nobody.)
BeginJoin(n, A) ==
    /\ addrs' = [addrs EXCEPT ![n] = A]
    /\ todo' = [todo EXCEPT ![n] = A]
    /\ hit' = [hit EXCEPT ![n] = FALSE]

\* Mutants of ShouldFail: one round too many; zero taken for a limit.
ShouldFailLate(k) == MaxRetries # 0 /\ k > MaxRetries
ShouldFailZero(k) == k >= MaxRetries

\* shouldFail: the counter is read only when there is a limit.
ShouldFail(k) == MaxRetries # 0 /\ k >= MaxRetries

\* StateRetrying, attempt++, then give up or back off.
Retry(n) ==
    LET k == IF MaxRetries = 0 THEN attempt[n] ELSE attempt[n] + 1
    IN  /\ attempt' = [attempt EXCEPT ![n] = k]
        /\ Goto(n, IF ShouldFail(k) THEN "failed" ELSE "retrying")

\* Start: a process starts with nothing but its configuration.
Start(n) ==
    /\ pc[n] = "down"
    /\ Goto(n, "init")
    /\ UNCHANGED <<members, known, did, attempt, addrs, todo, hit, halts>>

\* startMDNSAdvertiser and startGossip.  A start that fails leaves a node nobody
\* can dial, like one that never started; Bootstrapper has that error path.
StartGossip(n) ==
    /\ pc[n] = "init"
    /\ Goto(n, "gossipUp")
    /\ members' = [members EXCEPT ![n] = {n}]
    /\ UNCHANGED <<known, did, attempt, addrs, todo, hit, halts>>

\* The loop's head, and again after waitBackoff: StateDiscovering.
BeginDiscovery(n) ==
    /\ pc[n] \in {"gossipUp", "retrying"}
    /\ Goto(n, "discovering")
    /\ \E A \in DiscoveryResults(n) : BeginJoin(n, A)
    /\ UNCHANGED <<members, known, did, attempt, halts>>

\* memberlist.Join dials the addresses one after the other.
Dial(n, p) ==
    /\ pc[n] \in {"discovering", "rechecking", "joining"}
    /\ p \in todo[n]
    /\ todo' = [todo EXCEPT ![n] = @ \ {p}]
    /\ \/ Reaches(p) /\ Pull(n, p) /\ hit' = [hit EXCEPT ![n] = TRUE]
       \/ (Reliable => ~Reaches(p)) /\ UNCHANGED <<members, known, hit>>
    /\ UNCHANGED <<pc, did, attempt, addrs, halts>>

\* runDiscovery returns to run, which picks a branch.
EndDiscovery(n) ==
    /\ pc[n] = "discovering" /\ todo[n] = {}
    /\ \/ /\ hit[n] /\ SeesBootstrapped(n)
          /\ Goto(n, "joining")
          /\ BeginJoin(n, addrs[n])
          /\ UNCHANGED attempt
       \/ /\ ~(hit[n] /\ SeesBootstrapped(n))
          /\ n \in CanBootstrap
          /\ Goto(n, "slot")
          /\ UNCHANGED <<attempt, addrs, todo, hit>>
       \/ /\ ~(hit[n] /\ SeesBootstrapped(n))
          /\ n \notin CanBootstrap
          /\ Retry(n)
          /\ UNCHANGED <<addrs, todo, hit>>
    /\ UNCHANGED <<members, known, did, halts>>

\* joinCluster returns: an error when nobody was reached.
EndJoin(n) ==
    /\ pc[n] = "joining" /\ todo[n] = {}
    /\ IF hit[n] THEN Goto(n, "joined") /\ UNCHANGED attempt ELSE Retry(n)
    /\ UNCHANGED <<members, known, did, addrs, todo, hit, halts>>

\* waitForBootstrapSlot is over; shouldBootstrap runs discovery once more.
SlotReached(n) ==
    /\ pc[n] = "slot"
    /\ Goto(n, "rechecking")
    /\ \E A \in DiscoveryResults(n) : BeginJoin(n, A)
    /\ UNCHANGED <<members, known, did, attempt, halts>>

\* Mutant of MayBootstrap: gossip members are not counted.
MayBootstrapUnchecked(n) == ~(hit[n] /\ SeesBootstrapped(n))

\* shouldBootstrap's answer.
MayBootstrap(n) == ~(hit[n] /\ SeesBootstrapped(n)) /\ Alone(n)

\* shouldBootstrap returns: StateBootstrapping or another round.
EndRecheck(n) ==
    /\ pc[n] = "rechecking" /\ todo[n] = {}
    /\ IF MayBootstrap(n)
         THEN Goto(n, "bootstrapping") /\ UNCHANGED attempt
         ELSE Retry(n)
    /\ UNCHANGED <<members, known, did, addrs, todo, hit, halts>>

\* didBootstrap = true, before anybody is told.
Found(n) ==
    /\ pc[n] = "bootstrapping"
    /\ Goto(n, "founded")
    /\ did' = [did EXCEPT ![n] = TRUE]
    /\ UNCHANGED <<members, known, attempt, addrs, todo, hit, halts>>

\* setBootstrapped(true) and StateRunning, for a founder and for a joiner.
Announce(n) ==
    /\ pc[n] \in {"founded", "joined"}
    /\ Goto(n, "running")
    /\ known' = [known EXCEPT ![n] = @ \cup {n}]
    /\ UNCHANGED <<members, did, attempt, addrs, todo, hit, halts>>

\* The process of n dies; everything here is memory and is lost with it.
Halt(n) ==
    /\ pc[n] # "down"
    /\ halts < MaxHalts
    /\ halts' = halts + 1
    /\ Goto(n, "down")
    /\ members' = [members EXCEPT ![n] = {}]
    /\ known' = [known EXCEPT ![n] = {}]
    /\ did' = [did EXCEPT ![n] = FALSE]
    /\ attempt' = [attempt EXCEPT ![n] = 0]
    /\ addrs' = [addrs EXCEPT ![n] = {}]
    /\ todo' = [todo EXCEPT ![n] = {}]
    /\ hit' = [hit EXCEPT ![n] = FALSE]

---------------------------------------------------------------------------
Init ==
    /\ pc = [n \in Nodes |-> "down"]
    /\ members = [n \in Nodes |-> {}]
    /\ known = [n \in Nodes |-> {}]
    /\ did = [n \in Nodes |-> FALSE]
    /\ attempt = [n \in Nodes |-> 0]
    /\ addrs = [n \in Nodes |-> {}]
    /\ todo = [n \in Nodes |-> {}]
    /\ hit = [n \in Nodes |-> FALSE]
    /\ halts = 0

\* The run goroutine of n.
Step(n) ==
    \/ StartGossip(n)
    \/ BeginDiscovery(n)
    \/ \E p \in Nodes : Dial(n, p)
    \/ EndDiscovery(n)
    \/ EndJoin(n)
    \/ SlotReached(n)
    \/ EndRecheck(n)
    \/ Found(n)
    \/ Announce(n)

Next ==
    \/ \E n \in Nodes : Start(n) \/ Step(n) \/ Halt(n)
    \/ \E a, b, q \in Nodes : Gossip(a, b, q)
    \/ \E n, m \in Nodes : Suspect(n, m)

Spec == Init /\ [][Next]_vars

\* The Go scheduler runs every started goroutine, sleeps end and dials time
\* out; nothing obliges an operator to start a node, or gossip to be prompt.
Fairness == \A n \in Nodes : WF_vars(Step(n))

FairSpec == Spec /\ Fairness

---------------------------------------------------------------------------
(* Properties *)

\* Every node's discoverer is configured with every other node.
FullMesh == \A n \in Nodes : Nodes \ {n} \subseteq Peers[n]

\* What n has yet to dial before its first discovery of this life is over.
Untried(n) ==
    CASE pc[n] = "gossipUp" -> Peers[n]
      [] pc[n] = "discovering" -> todo[n]
      [] OTHER -> {}

\* n sees m, or is going to dial it before it can decide anything.
Meets(n, m) == m \in members[n] \/ m \in Untried(n)

\* No two live nodes have both committed to founding a cluster: of the nodes
\* that pass shouldBootstrap (bootstrapper.go:331-350) at most one is alive at
\* a time, whatever the interleaving of their loops and with crashes and
\* restarts in between.  (Reliable environment, full mesh.)
AtMostOneFounder ==
    \A n, m \in Nodes : Founder(n) /\ Founder(m) => n = m

\* Announce-then-look: of two nodes whose gossip is up, at least one has the
\* other in its view or still has it to dial in runDiscovery
\* (bootstrapper.go:289-305), because gossip is up before discovery starts.
PeersMeet ==
    \A n, m \in Nodes :
        n # m /\ GossipUp(n) /\ GossipUp(m) => Meets(n, m) \/ Meets(m, n)

\* Once n has passed shouldBootstrap every other live node sees n or is going
\* to dial it before it decides (bootstrapper.go:336-347).
FounderIsVisible ==
    \A n, m \in Nodes : n # m /\ Founder(n) /\ GossipUp(m) => Meets(m, n)

\* The loop gives up exactly when MaxDiscoveryRetries rounds have failed, never
\* earlier or later and never when there is no limit (shouldFail,
\* bootstrapper.go:383-388).
RetryBudget ==
    \A n \in Nodes :
        /\ attempt[n] <= MaxRetries
        /\ pc[n] = "failed" <=> MaxRetries # 0 /\ attempt[n] = MaxRetries

\* A node that runs as a joiner has the founder of the cluster in its own view
\* when joinCluster (bootstrapper.go:310-329) has returned.  (No crashes.)
JoinerSeesFounder ==
    \A n \in Nodes : Flagged(n) => \E f \in members[n] : did[f]

\* When some node runs, every started node ends up running: the retry loop
\* (bootstrapper.go:97-156) does reach the cluster.  (Reliable, no crash, no
\* retry limit.)
StartedNodesJoin ==
    \A n \in Nodes :
        (pc[n] # "down" /\ \E m \in Nodes : Flagged(m)) ~> pc[n] = "running"

\* A node that may bootstrap and stays the only one founds its cluster.
LoneNodeFounds ==
    \A n \in CanBootstrap :
        <>[](pc[n] # "down" /\ \A m \in Nodes \ {n} : pc[m] = "down")
            => <>Flagged(n)

\* When all nodes are up, one of them founds the cluster.
SomeNodeFounds ==
    (\A n \in Nodes : pc[n] # "down") ~> (\E n \in Nodes : Flagged(n))

\* What the rest of the system may assume of a node: see SingleFounder.
Role ==
    [n \in Nodes |-> IF Founder(n) THEN "founder"
                     ELSE IF Flagged(n) THEN "member" ELSE "out"]

Abstract == INSTANCE SingleFounder WITH Exclusive <- Reliable, role <- Role

\* The run loops implement SingleFounder: a node starts to run as a joiner
\* only while a cluster exists, and (in a reliable environment) founds one
\* only while none exists (bootstrapper.go:97-156).  (No crashes.)
ImplementsSingleFounder == Abstract!Spec
===========================================================================
