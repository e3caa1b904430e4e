------------------------- MODULE MembershipProofs -------------------------
(***************************************************************************)
(* Proofs about Membership for every set of peers and addresses.           *)
(***************************************************************************)
EXTENDS Membership, TLAPS

---------------------------------------------------------------------------
(* The operators the model is built from *)

\* Whatever becomes of a Raft operation, a legal configuration is left.
LEMMA OperationType ==
  ASSUME TypeOK, NEW c, Succeeds(c) \/ Fails(c)
  PROVE  config' \in Configs /\ faults' \in 0..MaxFaults
<1>1. CASE Succeeds(c)
  BY <1>1 DEF TypeOK, Succeeds
<1>2. CASE Fails(c)
  BY <1>2, MembershipAssumption DEF TypeOK, Fails
<1> QED BY <1>1, <1>2

\* A gossip event makes a well-formed goroutine.
LEMMA SpawnType ==
  ASSUME TypeOK, NEW l \in {"start", "leave"}, NEW p \in Peers,
         NEW a \in Addresses, Spawn(l, p, a)
  PROVE  task' \in [1..MaxEvents -> Tasks \cup {NoTask}] /\ events' \in 0..MaxEvents
<1>1. [at |-> l, peer |-> p, addr |-> a] \in Tasks
  BY DEF Tasks
<1>2. events' \in 0..MaxEvents
  BY MembershipAssumption DEF TypeOK, Spawn
<1> QED BY <1>1, <1>2, MembershipAssumption DEF TypeOK, Spawn

\* A goroutine under way stays well formed, or is gone.
LEMMA HandlerType ==
  ASSUME TypeOK, NEW i \in 1..MaxEvents, task[i].at # "none",
         NEW l \in {"compare", "remove", "add"}, Goto(i, l) \/ Return(i)
  PROVE  task' \in [1..MaxEvents -> Tasks \cup {NoTask}]
<1>1. task[i] \in Tasks
  BY DEF TypeOK, NoTask
<1>2. [task[i] EXCEPT !.at = l] \in Tasks
  BY <1>1 DEF Tasks
<1>3. CASE Goto(i, l)
  BY <1>2, <1>3 DEF TypeOK, Goto
<1>4. CASE Return(i)
  BY <1>4 DEF TypeOK, Return
<1> QED BY <1>3, <1>4

\* What a peer may advertise.
LEMMA MetaType ==
  ASSUME NEW m \in Metas
  PROVE  m.addr \in Addresses /\ m.addr # None
<1>1. CASE m = [boot |-> FALSE, addr |-> Placeholder]
  <2>1. m.addr = Placeholder
    BY <1>1
  <2> QED BY <2>1, MembershipAssumption DEF Addresses
<1>2. CASE m \in [boot : {TRUE}, addr : Addresses]
  <2>1. m.addr \in Addresses
    BY <1>2
  <2> QED BY <2>1, MembershipAssumption DEF Addresses
<1> QED BY <1>1, <1>2 DEF Metas

\* No round under way is a round.
LEMMA NoPlanType == plan = NoPlan => PlanOK
  BY MembershipAssumption DEF PlanOK, Plans, NoPlan, Wanted

---------------------------------------------------------------------------
(* Type correctness *)

LEMMA TypeInit == Init => TypeOK
<1> SUFFICES ASSUME Init PROVE TypeOK
  OBVIOUS
<1>1. PlanOK
  BY NoPlanType DEF Init
<1>2. config \in Configs
  BY DEF Init, Configs
<1>3. meta \in [Peers -> Metas]
  BY DEF Init, Metas
<1>4. task \in [1..MaxEvents -> Tasks \cup {NoTask}]
  BY DEF Init
<1>5. events \in 0..MaxEvents /\ faults \in 0..MaxFaults /\ turns \in 0..MaxTurns
  BY MembershipAssumption DEF Init
<1>6. members \subseteq Peers /\ leader \in BOOLEAN /\ seen \in Views \cup {None}
  BY DEF Init
<1> QED BY <1>1, <1>2, <1>3, <1>4, <1>5, <1>6 DEF TypeOK

\* A new round has targets for what it is going to replace.
LEMMA RoundType == ASSUME TypeOK, BeginRound, plan' = Round PROVE PlanOK'
<1>1. seen \in Views
  BY DEF TypeOK, BeginRound
<1>2. ASSUME NEW p \in Peers, Missing(p)
      PROVE  seen[p] # Unseen /\ seen[p].addr \in Addresses /\ seen[p].addr # None
  <2>1. seen[p] # Unseen
    BY <1>2 DEF Missing, Unseen
  <2>2. seen[p] \in Metas
    BY <1>1, <2>1 DEF Views
  <2> QED BY <2>1, <2>2, MetaType
<1>3. Round \in Plans
  BY <1>2 DEF Round, Plans
<1>4. \A p \in Peers : Round.targets[p] # None <=> Missing(p)
  BY <1>2 DEF Round
<1>5. plan' = Round /\ Round.now = None
  BY DEF Round
<1>6. Round.stale \subseteq Peers /\ \A p \in Round.stale : Missing(p)
  BY DEF Round
<1>7. \A p \in Round.prune : p \in Peers /\ ~Missing(p)
  BY <1>2 DEF Round
<1> QED BY <1>3, <1>4, <1>5, <1>6, <1>7 DEF PlanOK, Wanted

LEMMA ReplaceStaleType ==
  ASSUME TypeOK, NEW p \in Peers, ReplaceStale(p) PROVE PlanOK'
<1>1. CASE plan' = [plan EXCEPT !.stale = @ \ {p}, !.now = p]
  BY <1>1 DEF TypeOK, PlanOK, Plans, Wanted, ReplaceStale
<1>2. CASE plan' = [plan EXCEPT !.stale = @ \ {p}, !.targets[p] = None]
  BY <1>2 DEF TypeOK, PlanOK, Plans, Wanted, ReplaceStale
<1> QED BY <1>1, <1>2 DEF ReplaceStale

LEMMA AddMissingType ==
  ASSUME TypeOK, NEW p \in Peers, AddMissing(p) PROVE PlanOK'
  BY DEF TypeOK, PlanOK, Plans, Wanted, AddMissing

LEMMA PruneType == ASSUME TypeOK, NEW p \in Peers, Prune(p) PROVE PlanOK'
  BY DEF TypeOK, PlanOK, Plans, Wanted, Prune

LEMMA PlanUnchanged == ASSUME PlanOK, UNCHANGED plan PROVE PlanOK'
  BY DEF PlanOK, Wanted

LEMMA TypeNext == TypeOK /\ [Next]_vars => TypeOK'
<1> SUFFICES ASSUME TypeOK, [Next]_vars PROVE TypeOK'
  OBVIOUS
<1>1. CASE ChangeLeader
  BY <1>1, PlanUnchanged, MembershipAssumption DEF TypeOK, ChangeLeader
<1>2. ASSUME NEW p \in Peers, PeerJoins(p) PROVE TypeOK'
  <2>1. PICK m \in Metas : /\ Spawn("start", p, m.addr)
                           /\ members' = members \cup {p}
                           /\ meta' = [meta EXCEPT ![p] = m]
                           /\ UNCHANGED <<leader, config, seen, plan, faults, turns>>
    BY <1>2 DEF PeerJoins
  <2>2. m.addr \in Addresses
    BY MetaType
  <2>3. task' \in [1..MaxEvents -> Tasks \cup {NoTask}] /\ events' \in 0..MaxEvents
    BY <2>1, <2>2, SpawnType
  <2> QED BY <2>1, <2>3, PlanUnchanged DEF TypeOK
<1>3. ASSUME NEW p \in Peers, PeerLeaves(p) PROVE TypeOK'
  <2>1. meta[p].addr \in Addresses
    BY MetaType DEF TypeOK
  <2>2. task' \in [1..MaxEvents -> Tasks \cup {NoTask}] /\ events' \in 0..MaxEvents
    BY <1>3, <2>1, SpawnType DEF PeerLeaves
  <2>3. meta' \in [Peers -> Metas]
    BY <1>3 DEF TypeOK, PeerLeaves, Metas
  <2> QED BY <1>3, <2>2, <2>3, PlanUnchanged DEF TypeOK, PeerLeaves
<1>4. ASSUME NEW i \in 1..MaxEvents, Handler(i) PROVE TypeOK'
  <2>1. CASE JoinStart(i)
    <3>1. task' \in [1..MaxEvents -> Tasks \cup {NoTask}]
      BY <2>1, HandlerType DEF JoinStart
    <3> QED BY <2>1, <3>1, PlanUnchanged DEF TypeOK, JoinStart
  <2>2. CASE JoinCompare(i)
    <3>1. task' \in [1..MaxEvents -> Tasks \cup {NoTask}]
      BY <2>2, HandlerType DEF JoinCompare
    <3>2. faults' \in 0..MaxFaults
      BY <2>2, MembershipAssumption DEF TypeOK, JoinCompare, ConfigurationFails
    <3> QED BY <2>2, <3>1, <3>2, PlanUnchanged DEF TypeOK, JoinCompare
  <2>3. CASE JoinRemove(i)
    <3>1. task' \in [1..MaxEvents -> Tasks \cup {NoTask}]
      BY <2>3, HandlerType DEF JoinRemove
    <3> QED BY <2>3, <3>1, PlanUnchanged, OperationType DEF TypeOK, JoinRemove
  <2>4. CASE JoinAdd(i)
    <3>1. task' \in [1..MaxEvents -> Tasks \cup {NoTask}]
      BY <2>4, HandlerType DEF JoinAdd
    <3> QED BY <2>4, <3>1, PlanUnchanged, OperationType DEF TypeOK, JoinAdd
  <2>5. CASE HandlePeerLeave(i)
    <3>1. task' \in [1..MaxEvents -> Tasks \cup {NoTask}]
      BY <2>5, HandlerType DEF HandlePeerLeave
    <3> QED BY <2>5, <3>1, PlanUnchanged, OperationType DEF TypeOK, HandlePeerLeave
  <2> QED BY <1>4, <2>1, <2>2, <2>3, <2>4, <2>5 DEF Handler
<1>5. CASE BeginRound
  <2>1. PlanOK'
    BY <1>5, RoundType, PlanUnchanged DEF TypeOK, BeginRound
  <2>2. faults' \in 0..MaxFaults
    BY <1>5, MembershipAssumption DEF TypeOK, BeginRound, ConfigurationFails
  <2> QED BY <1>5, <2>1, <2>2 DEF TypeOK, BeginRound
<1>6. ASSUME NEW p \in Peers, ReplaceStale(p) PROVE TypeOK'
  <2>1. config' \in Configs /\ faults' \in 0..MaxFaults
    BY <1>6, OperationType DEF ReplaceStale
  <2> QED BY <1>6, <2>1, ReplaceStaleType DEF TypeOK, ReplaceStale
<1>7. ASSUME NEW p \in Peers, AddMissing(p) PROVE TypeOK'
  <2>1. config' \in Configs /\ faults' \in 0..MaxFaults
    BY <1>7, OperationType DEF AddMissing
  <2> QED BY <1>7, <2>1, AddMissingType DEF TypeOK, AddMissing
<1>8. ASSUME NEW p \in Peers, Prune(p) PROVE TypeOK'
  <2>1. config' \in Configs /\ faults' \in 0..MaxFaults
    BY <1>8, OperationType DEF Prune
  <2> QED BY <1>8, <2>1, PruneType DEF TypeOK, Prune
<1>9. CASE UNCHANGED vars
  BY <1>9, PlanUnchanged DEF TypeOK, vars
<1>10. CASE TakeMembers
  <2>1. seen' \in Views
    BY <1>10 DEF TypeOK, TakeMembers, Views
  <2> QED BY <1>10, <2>1, PlanUnchanged DEF TypeOK, TakeMembers
<1> QED
  BY <1>1, <1>2, <1>3, <1>4, <1>5, <1>6, <1>7, <1>8, <1>9, <1>10 DEF Next, Reconcile

\* Gossip events, their goroutines and reconciliation rounds keep every variable
\* in its type; in particular a round never prunes a peer that it adds
\* (reconcile.go:66-118) and adds what it has removed as stale.
THEOREM TypeCorrect == Spec => []TypeOK
  BY TypeInit, TypeNext, PTL DEF Spec
===========================================================================
