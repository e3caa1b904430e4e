---------------------------- MODULE Membership ----------------------------
(***************************************************************************)
(* How the Raft configuration follows gossip (internal/raft/callbacks.go,  *)
(* internal/raft/reconcile.go, internal/consensus/node.go).                *)
(*                                                                         *)
(* One node, whose Raft may be the leader.  Each gossip event about a peer *)
(* spawns a goroutine that issues Raft operations; goroutines overtake one *)
(* another.  A reconciliation loop compares gossip with the configuration  *)
(* every ReconcileInterval and issues operations of its own.  Decisions    *)
(* are taken on snapshots, operations take time and may fail.              *)
(*                                                                         *)
(* External: memberlist (who is a member, with which metadata) and         *)
(* hashicorp/raft (what AddVoter and RemoveServer do, who leads).          *)
(***************************************************************************)
EXTENDS Naturals, FiniteSets

CONSTANTS
    Peers,          \* the other nodes
    Addrs,          \* Raft addresses with a real port
    Placeholder,    \* "host:0", advertised until Raft has started
    None,           \* no server, no address
    MaxEvents,      \* bound: gossip events
    MaxFaults,      \* bound: operations that fail on a leader
    MaxTurns        \* bound: changes of leadership

ASSUME MembershipAssumption ==
    /\ Placeholder \notin Addrs
    /\ None \notin Addrs \cup {Placeholder}
    /\ None \notin Peers
    /\ MaxEvents \in Nat /\ MaxFaults \in Nat /\ MaxTurns \in Nat

VARIABLES
    members,    \* peers in this node's gossip view
    meta,       \* meta[p]: the metadata of p, as gossip last had it
    leader,     \* this node's Raft is the leader
    config,     \* config[p]: p's address in the latest Raft configuration, or None
    task,       \* task[i]: the goroutine of the i-th gossip event
    seen,       \* the view g.Members() gave the round that is about to read config
    plan,       \* the reconciliation round under way
    events, faults, turns       \* how often each has happened

vars == <<members, meta, leader, config, task, seen, plan, events, faults, turns>>

Addresses == Addrs \cup {Placeholder}

\* What nodeToInfo makes of a peer's metadata, as far as Raft is concerned.
\* A peer gossips its flag before its Raft has an address (consensus callbacks
\* run after StateRunning), and never an empty address.
Metas == {[boot |-> FALSE, addr |-> Placeholder]}
            \cup [boot : {TRUE}, addr : Addresses]

\* A copy of the gossip view: the metadata of the members, Unseen for the others.
Unseen == [boot |-> FALSE, addr |-> None]
Views == [Peers -> Metas \cup {Unseen}]

\* Raft refuses a configuration with two servers at one address.
Configs ==
    {c \in [Peers -> Addresses \cup {None}] :
        \A p, q \in Peers : p # q /\ c[p] = c[q] => c[p] = None}

Tasks == [at : {"start", "compare", "remove", "add", "leave"},
          peer : Peers, addr : Addresses]

\* A round: targets[p] is the address p is to be added under, stale the peers to
\* be removed before that, prune the servers gossip does not know, now the peer
\* whose stale entry has just been removed.
Plans == [targets : [Peers -> Addresses \cup {None}], stale : SUBSET Peers,
          prune : SUBSET Peers, now : Peers \cup {None}]

NoTask == [at |-> "none", peer |-> None, addr |-> None]
NoPlan == [targets |-> [p \in Peers |-> None], stale |-> {}, prune |-> {},
           now |-> None]

Wanted(p) == plan.targets[p] # None

\* A round adds under a target what it removes as stale, and prunes nothing that
\* it adds.
PlanOK ==
    /\ plan \in Plans
    /\ \A p \in plan.stale : Wanted(p)
    /\ \A p \in plan.prune : ~Wanted(p)
    /\ plan.now # None => Wanted(plan.now) /\ plan.now \notin plan.stale

TypeOK ==
    /\ members \subseteq Peers
    /\ meta \in [Peers -> Metas]
    /\ leader \in BOOLEAN
    /\ config \in Configs
    /\ task \in [1..MaxEvents -> Tasks \cup {NoTask}]
    /\ seen \in Views \cup {None}
    /\ PlanOK
    /\ events \in 0..MaxEvents /\ faults \in 0..MaxFaults /\ turns \in 0..MaxTurns

Init ==
    /\ members = {}
    /\ meta = [p \in Peers |-> [boot |-> FALSE, addr |-> Placeholder]]
    /\ leader = FALSE
    /\ config = [p \in Peers |-> None]
    /\ task = [i \in 1..MaxEvents |-> NoTask]
    /\ seen = None
    /\ plan = NoPlan
    /\ events = 0 /\ faults = 0 /\ turns = 0

---------------------------------------------------------------------------
(* Raft: external *)

\* RemoveServer and AddVoter.  A failed operation may have taken effect all the
\* same: leadership was lost between append and commit.
Succeeds(c) ==
    /\ leader /\ c \in Configs
    /\ config' = c
    /\ UNCHANGED faults

Fails(c) ==
    \/ /\ ~leader \/ c \notin Configs
       /\ UNCHANGED <<config, faults>>
    \/ /\ leader /\ c \in Configs
       /\ faults < MaxFaults
       /\ faults' = faults + 1
       /\ config' \in {config, c}

\* GetConfiguration fails.
ConfigurationFails == faults < MaxFaults /\ faults' = faults + 1

Removed(p) == [config EXCEPT ![p] = None]
Added(p, a) == [config EXCEPT ![p] = a]

\* Leadership is lost, or won after other leaders have left any configuration.
ChangeLeader ==
    /\ turns < MaxTurns
    /\ turns' = turns + 1
    /\ leader' = ~leader
    /\ IF leader THEN UNCHANGED config ELSE config' \in Configs
    /\ UNCHANGED <<members, meta, task, seen, plan, events, faults>>

---------------------------------------------------------------------------
(* Gossip events: memberlist, then consensus.Node, then go handlePeer... *)

Spawn(l, p, a) ==
    /\ events < MaxEvents
    /\ events' = events + 1
    /\ task' = [task EXCEPT ![events + 1] = [at |-> l, peer |-> p, addr |-> a]]

\* NotifyJoin and NotifyUpdate both end in OnPeerJoin, with the metadata of the
\* event.  An update may repeat what is known (the gRPC address changed).
PeerJoins(p) ==
    \E m \in Metas :
        /\ Spawn("start", p, m.addr)
        /\ members' = members \cup {p}
        /\ meta' = [meta EXCEPT ![p] = m]
        /\ UNCHANGED <<leader, config, seen, plan, faults, turns>>

\* NotifyLeave
PeerLeaves(p) ==
    /\ p \in members
    /\ Spawn("leave", p, meta[p].addr)
    /\ members' = members \ {p}
    /\ meta' = [meta EXCEPT ![p] = [boot |-> FALSE, addr |-> Placeholder]]
    /\ UNCHANGED <<leader, config, seen, plan, faults, turns>>

---------------------------------------------------------------------------
(* handlePeerJoin and handlePeerLeave on the goroutine of the i-th event *)

Goto(i, l) == task' = [task EXCEPT ![i].at = l]
Return(i) == task' = [task EXCEPT ![i] = NoTask]

\* isPeerBootstrappedWithGossip asks gossip again, for the flag only.
IsPeerBootstrapped(p) == p \in members /\ meta[p].boot

\* One step: should leadership be lost between the two reads, the operations
\* that follow fail.
JoinStart(i) ==
    /\ task[i].at = "start"
    /\ IF leader /\ IsPeerBootstrapped(task[i].peer) THEN Goto(i, "compare")
                                                     ELSE Return(i)
    /\ UNCHANGED <<members, meta, leader, config, seen, plan, events, faults, turns>>

\* GetConfiguration and the search for the peer's entry; without a configuration
\* the peer is added unseen.
JoinCompare(i) ==
    LET old == config[task[i].peer]
    IN  /\ task[i].at = "compare"
        /\ \/ old = task[i].addr /\ Return(i) /\ UNCHANGED faults
           \/ old = None /\ Goto(i, "add") /\ UNCHANGED faults
           \/ old \notin {None, task[i].addr} /\ Goto(i, "remove") /\ UNCHANGED faults
           \/ ConfigurationFails /\ Goto(i, "add")
        /\ UNCHANGED <<members, meta, leader, config, seen, plan, events, turns>>

\* An error is logged, and the peer added all the same.
JoinRemove(i) ==
    LET c == Removed(task[i].peer)
    IN  /\ task[i].at = "remove"
        /\ Succeeds(c) \/ Fails(c)
        /\ Goto(i, "add")
        /\ UNCHANGED <<members, meta, leader, seen, plan, events, turns>>

JoinAdd(i) ==
    LET c == Added(task[i].peer, task[i].addr)
    IN  /\ task[i].at = "add"
        /\ Succeeds(c) \/ Fails(c)
        /\ Return(i)
        /\ UNCHANGED <<members, meta, leader, seen, plan, events, turns>>

HandlePeerLeave(i) ==
    LET c == Removed(task[i].peer)
    IN  /\ task[i].at = "leave"
        /\ Succeeds(c) \/ Fails(c)
        /\ Return(i)
        /\ UNCHANGED <<members, meta, leader, seen, plan, events, turns>>

Handler(i) ==
    JoinStart(i) \/ JoinCompare(i) \/ JoinRemove(i) \/ JoinAdd(i) \/ HandlePeerLeave(i)

---------------------------------------------------------------------------
(* reconcileMembersWithRaft *)

\* A tick on a leader: g.Members(), the first of a round's two snapshots.
TakeMembers ==
    /\ leader
    /\ seen = None /\ plan = NoPlan
    /\ seen' = [p \in Peers |-> IF p \in members THEN meta[p] ELSE Unseen]
    /\ UNCHANGED <<members, meta, leader, config, task, plan, events, faults, turns>>

\* What the round decides once it has the configuration too.
Missing(p) == seen[p].boot /\ config[p] # seen[p].addr

\* Mutants of Round: servers that left gossip are kept; an address is compared
\* before the flag is looked at.
RoundKeepsGone ==
    [targets |-> [p \in Peers |-> IF Missing(p) THEN seen[p].addr ELSE None],
     stale   |-> {p \in Peers : Missing(p) /\ config[p] # None},
     prune   |-> {},
     now     |-> None]

RoundIgnoresFlag ==
    [targets |-> [p \in Peers |-> IF Missing(p) THEN seen[p].addr ELSE None],
     stale   |-> {p \in Peers : seen[p] # Unseen /\ config[p] \notin {None, seen[p].addr}},
     prune   |-> {p \in Peers : config[p] # None /\ seen[p] = Unseen},
     now     |-> None]

Round ==
    [targets |-> [p \in Peers |-> IF Missing(p) THEN seen[p].addr ELSE None],
     stale   |-> {p \in Peers : Missing(p) /\ config[p] # None},
     prune   |-> {p \in Peers : config[p] # None /\ seen[p] = Unseen},
     now     |-> None]

\* GetConfiguration, the second snapshot; without it the round is over.
BeginRound ==
    /\ seen # None
    /\ \/ plan' = Round /\ UNCHANGED faults
       \/ ConfigurationFails /\ UNCHANGED plan
    /\ seen' = None
    /\ UNCHANGED <<members, meta, leader, config, task, events, turns>>

\* RemoveServer of a peer whose address changed; on an error the peer is
\* skipped in this round.
ReplaceStale(p) ==
    /\ p \in plan.stale
    /\ plan.now = None
    /\ \/ /\ Succeeds(Removed(p))
          /\ plan' = [plan EXCEPT !.stale = @ \ {p}, !.now = p]
       \/ /\ Fails(Removed(p))
          /\ plan' = [plan EXCEPT !.stale = @ \ {p}, !.targets[p] = None]
    /\ UNCHANGED <<members, meta, leader, task, seen, events, turns>>

\* AddVoter; an error is left to the next round.
AddMissing(p) ==
    /\ Wanted(p) /\ p \notin plan.stale
    /\ plan.now \in {None, p}
    /\ Succeeds(Added(p, plan.targets[p])) \/ Fails(Added(p, plan.targets[p]))
    /\ plan' = [plan EXCEPT !.targets[p] = None, !.now = None]
    /\ UNCHANGED <<members, meta, leader, task, seen, events, turns>>

\* The second loop: servers that gossip did not know.
Prune(p) ==
    /\ p \in plan.prune
    /\ \A q \in Peers : ~Wanted(q)
    /\ Succeeds(Removed(p)) \/ Fails(Removed(p))
    /\ plan' = [plan EXCEPT !.prune = @ \ {p}]
    /\ UNCHANGED <<members, meta, leader, task, seen, events, turns>>

Reconcile ==
    TakeMembers \/ BeginRound
    \/ \E p \in Peers : ReplaceStale(p) \/ AddMissing(p) \/ Prune(p)

---------------------------------------------------------------------------
Next ==
    \/ ChangeLeader
    \/ \E p \in Peers : PeerJoins(p) \/ PeerLeaves(p)
    \/ \E i \in 1..MaxEvents : Handler(i)
    \/ Reconcile

Spec == Init /\ [][Next]_vars

\* Goroutines run, Raft operations return and the ticker ticks.  Nothing is
\* assumed of gossip, of leadership or of the outcome of an operation.
Fairness == WF_vars(Reconcile) /\ \A i \in 1..MaxEvents : WF_vars(Handler(i))

FairSpec == Spec /\ Fairness

---------------------------------------------------------------------------
(* Properties *)

\* The configuration is what gossip says it should be.
InSync ==
    \A p \in Peers : config[p] = IF p \in members THEN meta[p].addr ELSE None

\* This node leads, and its peers have finished bootstrapping at addresses of
\* their own.
Settled ==
    /\ leader
    /\ \A p \in members : meta[p].boot
    /\ \A p, q \in members : p # q => meta[p].addr # meta[q].addr

\* When gossip and leadership settle, the configuration comes to agree with
\* gossip and stays so, whatever was applied out of order, lost or left behind
\* by other leaders before (callbacks.go:106-214, reconcile.go:46-119).
Converges == <>[]Settled => <>[]InSync

\* Only a peer that has a Raft address is made a voter (callbacks.go:133,
\* reconcile.go:69).
NoPlaceholderVoter ==
    [][\A p \in Peers :
          leader /\ leader' /\ config'[p] = Placeholder => config[p] = Placeholder]_vars
===========================================================================
