---------------------- MODULE ClusterBootstrapProofs ----------------------
(***************************************************************************)
(* Proofs about ClusterBootstrap for every set of nodes.                   *)
(*                                                                         *)
(* The argument for a single founder is that of mutual exclusion by        *)
(* announcing oneself before looking: a node's gossip answers before its   *)
(* first discovery, so of two live nodes the later one meets the earlier   *)
(* one (PeersMeet).  Meets is stable while both stay up (MeetsStable).  A  *)
(* node that passes shouldBootstrap meets nobody, hence everybody meets it *)
(* (FounderIsVisible), hence nobody else can pass shouldBootstrap.         *)
(***************************************************************************)
EXTENDS ClusterBootstrap, TLAPS

---------------------------------------------------------------------------
(* Type correctness *)

LEMMA TypeInit == Init => TypeOK
  BY ConstantsAssumption DEF Init, TypeOK, PCs

\* A round of retry keeps the counter a number and the location legal.
LEMMA RetryType ==
  ASSUME NEW n \in Nodes, TypeOK, Retry(n)
  PROVE  attempt' \in [Nodes -> Nat] /\ pc' \in [Nodes -> PCs]
  BY ConstantsAssumption DEF TypeOK, PCs, Retry, Goto

LEMMA TypeNext == TypeOK /\ [Next]_vars => TypeOK'
<1> SUFFICES ASSUME TypeOK, [Next]_vars PROVE TypeOK'
  OBVIOUS
<1> USE ConstantsAssumption
<1>1. ASSUME NEW n \in Nodes, Start(n) PROVE TypeOK'
  BY <1>1 DEF TypeOK, PCs, Start, Goto
<1>2. ASSUME NEW n \in Nodes, StartGossip(n) PROVE TypeOK'
  BY <1>2 DEF TypeOK, PCs, StartGossip, Goto
<1>3. ASSUME NEW n \in Nodes, BeginDiscovery(n) PROVE TypeOK'
  <2>1. PICK A \in DiscoveryResults(n) : BeginJoin(n, A)
    BY <1>3 DEF BeginDiscovery
  <2>2. A \in SUBSET Nodes
    BY <2>1 DEF DiscoveryResults
  <2> QED
    BY <1>3, <2>1, <2>2 DEF TypeOK, PCs, BeginDiscovery, BeginJoin, Goto
<1>4. ASSUME NEW n \in Nodes, NEW p \in Nodes, Dial(n, p) PROVE TypeOK'
  <2>1. members' \in [Nodes -> SUBSET Nodes] /\ known' \in [Nodes -> SUBSET Nodes]
    <3>1. CASE Pull(n, p)
      <4>1. members[n] \cup members[p] \cup {p} \in SUBSET Nodes
        BY DEF TypeOK
      <4>2. (known[n] \ {p}) \cup (known[p] \ {n}) \in SUBSET Nodes
        BY DEF TypeOK
      <4> QED BY <3>1, <4>1, <4>2 DEF TypeOK, Pull
    <3>2. CASE UNCHANGED <<members, known, hit>>
      BY <3>2 DEF TypeOK
    <3> QED BY <1>4, <3>1, <3>2 DEF Dial
  <2>2. hit' \in [Nodes -> BOOLEAN]
    BY <1>4 DEF TypeOK, Dial
  <2>3. todo' \in [Nodes -> SUBSET Nodes]
    BY <1>4 DEF TypeOK, Dial
  <2> QED
    BY <1>4, <2>1, <2>2, <2>3 DEF TypeOK, Dial
<1>5. ASSUME NEW n \in Nodes, EndDiscovery(n) PROVE TypeOK'
  <2>1. CASE Retry(n) /\ UNCHANGED <<addrs, todo, hit>>
    BY <1>5, <2>1, RetryType DEF TypeOK, EndDiscovery
  <2>2. CASE Goto(n, "slot") /\ UNCHANGED <<attempt, addrs, todo, hit>>
    BY <1>5, <2>2 DEF TypeOK, PCs, EndDiscovery, Goto
  <2>3. CASE Goto(n, "joining") /\ BeginJoin(n, addrs[n]) /\ UNCHANGED attempt
    BY <1>5, <2>3 DEF TypeOK, PCs, EndDiscovery, BeginJoin, Goto
  <2> QED BY <1>5, <2>1, <2>2, <2>3 DEF EndDiscovery
<1>6. ASSUME NEW n \in Nodes, EndJoin(n) PROVE TypeOK'
  BY <1>6, RetryType DEF TypeOK, PCs, EndJoin, Goto
<1>7. ASSUME NEW n \in Nodes, SlotReached(n) PROVE TypeOK'
  <2>1. PICK A \in DiscoveryResults(n) : BeginJoin(n, A)
    BY <1>7 DEF SlotReached
  <2>2. A \in SUBSET Nodes
    BY <2>1 DEF DiscoveryResults
  <2> QED
    BY <1>7, <2>1, <2>2 DEF TypeOK, PCs, SlotReached, BeginJoin, Goto
<1>8. ASSUME NEW n \in Nodes, EndRecheck(n) PROVE TypeOK'
  BY <1>8, RetryType DEF TypeOK, PCs, EndRecheck, Goto
<1>9. ASSUME NEW n \in Nodes, Found(n) PROVE TypeOK'
  BY <1>9 DEF TypeOK, PCs, Found, Goto
<1>10. ASSUME NEW n \in Nodes, Announce(n) PROVE TypeOK'
  BY <1>10 DEF TypeOK, PCs, Announce, Goto
<1>11. ASSUME NEW n \in Nodes, Halt(n) PROVE TypeOK'
  BY <1>11 DEF TypeOK, PCs, Halt, Goto
<1>12. ASSUME NEW a \in Nodes, NEW b \in Nodes, NEW q \in Nodes, Gossip(a, b, q)
       PROVE TypeOK'
  BY <1>12 DEF TypeOK, Gossip
<1>13. ASSUME NEW n \in Nodes, NEW m \in Nodes, Suspect(n, m) PROVE TypeOK'
  BY <1>13 DEF TypeOK, Suspect
<1>14. CASE UNCHANGED vars
  BY <1>14 DEF TypeOK, vars
<1> QED
  BY <1>1, <1>2, <1>3, <1>4, <1>5, <1>6, <1>7, <1>8, <1>9, <1>10, <1>11,
     <1>12, <1>13, <1>14 DEF Next, Step

\* The run loops keep every variable of the model in its type.
THEOREM TypeCorrect == Spec => []TypeOK
  BY TypeInit, TypeNext, PTL DEF Spec

---------------------------------------------------------------------------
(* A single founder *)

\* A founder's process has its gossip up and its first discovery behind it.
FounderPC ==
    \A n \in Nodes : did[n] => pc[n] \in {"founded", "running"}

IndInv ==
    /\ TypeOK
    /\ FounderPC
    /\ PeersMeet
    /\ FounderIsVisible
    /\ AtMostOneFounder

\* In the environment of these theorems Discover returns every other node.
LEMMA MeshResults ==
  ASSUME Reliable, FullMesh, NEW n \in Nodes, NEW A \in DiscoveryResults(n),
         NEW m \in Nodes, m # n
  PROVE  m \in A
  BY DEF DiscoveryResults, FullMesh

\* Every step keeps didBootstrap and the location of a founder together.
LEMMA FounderPCNext ==
  ASSUME TypeOK, FounderPC, [Next]_vars
  PROVE  FounderPC'
<1> SUFFICES ASSUME NEW k \in Nodes, did'[k] PROVE pc'[k] \in {"founded", "running"}
  BY DEF FounderPC
<1> USE DEF TypeOK, FounderPC, Goto
<1>1. ASSUME NEW n \in Nodes, Start(n) PROVE pc'[k] \in {"founded", "running"}
  BY <1>1 DEF Start
<1>2. ASSUME NEW n \in Nodes, StartGossip(n) PROVE pc'[k] \in {"founded", "running"}
  BY <1>2 DEF StartGossip
<1>3. ASSUME NEW n \in Nodes, BeginDiscovery(n) PROVE pc'[k] \in {"founded", "running"}
  BY <1>3 DEF BeginDiscovery
<1>4. ASSUME NEW n \in Nodes, NEW p \in Nodes, Dial(n, p)
      PROVE pc'[k] \in {"founded", "running"}
  BY <1>4 DEF Dial
<1>5. ASSUME NEW n \in Nodes, EndDiscovery(n) PROVE pc'[k] \in {"founded", "running"}
  BY <1>5 DEF EndDiscovery, Retry
<1>6. ASSUME NEW n \in Nodes, EndJoin(n) PROVE pc'[k] \in {"founded", "running"}
  BY <1>6 DEF EndJoin, Retry
<1>7. ASSUME NEW n \in Nodes, SlotReached(n) PROVE pc'[k] \in {"founded", "running"}
  BY <1>7 DEF SlotReached
<1>8. ASSUME NEW n \in Nodes, EndRecheck(n) PROVE pc'[k] \in {"founded", "running"}
  BY <1>8 DEF EndRecheck, Retry
<1>9. ASSUME NEW n \in Nodes, Found(n) PROVE pc'[k] \in {"founded", "running"}
  BY <1>9 DEF Found
<1>10. ASSUME NEW n \in Nodes, Announce(n) PROVE pc'[k] \in {"founded", "running"}
  BY <1>10 DEF Announce
<1>11. ASSUME NEW n \in Nodes, Halt(n) PROVE pc'[k] \in {"founded", "running"}
  BY <1>11 DEF Halt
<1>12. ASSUME NEW a \in Nodes, NEW b \in Nodes, NEW q \in Nodes, Gossip(a, b, q)
       PROVE pc'[k] \in {"founded", "running"}
  BY <1>12 DEF Gossip
<1>13. ASSUME NEW n \in Nodes, NEW m \in Nodes, Suspect(n, m)
       PROVE pc'[k] \in {"founded", "running"}
  BY <1>13 DEF Suspect
<1>14. CASE UNCHANGED vars
  BY <1>14 DEF vars
<1> QED
  BY <1>1, <1>2, <1>3, <1>4, <1>5, <1>6, <1>7, <1>8, <1>9, <1>10, <1>11,
     <1>12, <1>13, <1>14 DEF Next, Step

\* A node whose gossip has just come up has everybody still to dial.
LEMMA NewcomerMeets ==
  ASSUME TypeOK, [Next]_vars, FullMesh,
         NEW n \in Nodes, NEW m \in Nodes, n # m,
         ~GossipUp(n), GossipUp(n)'
  PROVE  Meets(n, m)'
<1>1. StartGossip(n)
  <2> USE DEF TypeOK, Goto, GossipUp
  <2>1. ASSUME NEW k \in Nodes, Start(k) \/ Halt(k) \/ Found(k) \/ Announce(k)
        PROVE FALSE
    BY <2>1 DEF Start, Halt, Found, Announce
  <2>2. ASSUME NEW k \in Nodes, BeginDiscovery(k) \/ SlotReached(k) PROVE FALSE
    BY <2>2 DEF BeginDiscovery, SlotReached
  <2>3. ASSUME NEW k \in Nodes, EndDiscovery(k) \/ EndJoin(k) \/ EndRecheck(k)
        PROVE FALSE
    BY <2>3 DEF EndDiscovery, EndJoin, EndRecheck, Retry
  <2>4. ASSUME NEW k \in Nodes, NEW p \in Nodes, Dial(k, p) PROVE FALSE
    BY <2>4 DEF Dial
  <2>5. ASSUME NEW a \in Nodes, NEW b \in Nodes, NEW q \in Nodes, Gossip(a, b, q)
        PROVE FALSE
    BY <2>5 DEF Gossip
  <2>6. ASSUME NEW k \in Nodes, NEW l \in Nodes, Suspect(k, l) PROVE FALSE
    BY <2>6 DEF Suspect
  <2>7. ASSUME NEW k \in Nodes, StartGossip(k), k # n PROVE FALSE
    BY <2>7 DEF StartGossip
  <2>8. CASE UNCHANGED vars
    BY <2>8 DEF vars
  <2> QED
    BY <2>1, <2>2, <2>3, <2>4, <2>5, <2>6, <2>7, <2>8 DEF Next, Step
<1>2. pc'[n] = "gossipUp"
  BY <1>1 DEF StartGossip, Goto, TypeOK
<1>3. m \in Peers[n]
  BY DEF FullMesh
<1> QED
  BY <1>2, <1>3 DEF Meets, Untried

\* Nothing but a crash makes n forget that it meets m while m is up: views only
\* grow, and an address leaves the Join in progress only by being dialled.
LEMMA MeetsStable ==
  ASSUME TypeOK, [Next]_vars, Reliable, FullMesh,
         NEW n \in Nodes, NEW m \in Nodes, n # m,
         GossipUp(n)', GossipUp(m)', Meets(n, m)
  PROVE  Meets(n, m)'
<1> USE DEF TypeOK, Goto, Meets, Untried
<1>1. ASSUME NEW k \in Nodes, Start(k) PROVE Meets(n, m)'
  BY <1>1 DEF Start, GossipUp
<1>2. ASSUME NEW k \in Nodes, StartGossip(k) PROVE Meets(n, m)'
  BY <1>2 DEF StartGossip, FullMesh
<1>3. ASSUME NEW k \in Nodes, BeginDiscovery(k) PROVE Meets(n, m)'
  <2>1. PICK A \in DiscoveryResults(k) : BeginJoin(k, A)
    BY <1>3 DEF BeginDiscovery
  <2>2. CASE k = n
    <3>1. pc'[n] = "discovering" /\ todo'[n] = A
      BY <1>3, <2>1, <2>2 DEF BeginDiscovery, BeginJoin
    <3> QED BY <3>1, <2>1, <2>2, MeshResults
  <2>3. CASE k # n
    BY <1>3, <2>1, <2>3 DEF BeginDiscovery, BeginJoin
  <2> QED BY <2>2, <2>3
<1>4. ASSUME NEW k \in Nodes, NEW p \in Nodes, Dial(k, p) PROVE Meets(n, m)'
  <2>1. pc' = pc
    BY <1>4 DEF Dial
  <2>2. GossipUp(m)
    BY <2>1 DEF GossipUp
  <2>3. members[n] \subseteq members'[n]
    BY <1>4 DEF Dial, Pull
  <2>4. CASE m \in members[n]
    BY <2>3, <2>4
  <2>5. CASE m \in Untried(n) /\ ~(k = n /\ p = m)
    BY <1>4, <2>1, <2>5 DEF Dial
  <2>6. CASE k = n /\ p = m
    <3>1. Pull(k, p)
      BY <1>4, <2>2, <2>6 DEF Dial, Reaches
    <3> QED BY <3>1, <2>6 DEF Pull
  <2> QED BY <2>4, <2>5, <2>6
<1>5. ASSUME NEW k \in Nodes, EndDiscovery(k) PROVE Meets(n, m)'
  BY <1>5 DEF EndDiscovery, BeginJoin, Retry
<1>6. ASSUME NEW k \in Nodes, EndJoin(k) PROVE Meets(n, m)'
  BY <1>6 DEF EndJoin, Retry
<1>7. ASSUME NEW k \in Nodes, SlotReached(k) PROVE Meets(n, m)'
  BY <1>7 DEF SlotReached, BeginJoin
<1>8. ASSUME NEW k \in Nodes, EndRecheck(k) PROVE Meets(n, m)'
  BY <1>8 DEF EndRecheck, Retry
<1>9. ASSUME NEW k \in Nodes, Found(k) PROVE Meets(n, m)'
  BY <1>9 DEF Found
<1>10. ASSUME NEW k \in Nodes, Announce(k) PROVE Meets(n, m)'
  BY <1>10 DEF Announce
<1>11. ASSUME NEW k \in Nodes, Halt(k) PROVE Meets(n, m)'
  BY <1>11 DEF Halt, GossipUp
<1>12. ASSUME NEW a \in Nodes, NEW b \in Nodes, NEW q \in Nodes, Gossip(a, b, q)
       PROVE Meets(n, m)'
  BY <1>12 DEF Gossip
<1>13. ASSUME NEW k \in Nodes, NEW l \in Nodes, Suspect(k, l) PROVE Meets(n, m)'
  <2>1. pc' = pc /\ ~GossipUp(l)
    BY <1>13 DEF Suspect
  <2>2. l # m
    BY <2>1 DEF GossipUp
  <2> QED BY <1>13, <2>2 DEF Suspect
<1>14. CASE UNCHANGED vars
  BY <1>14 DEF vars
<1> QED
  BY <1>1, <1>2, <1>3, <1>4, <1>5, <1>6, <1>7, <1>8, <1>9, <1>10, <1>11,
     <1>12, <1>13, <1>14 DEF Next, Step

\* A node becomes a founder only by passing shouldBootstrap, and it passes
\* only while it meets nobody.
LEMMA NewFounderIsAlone ==
  ASSUME TypeOK, [Next]_vars, NEW n \in Nodes, ~Founder(n), Founder(n)'
  PROVE  /\ EndRecheck(n)
         /\ GossipUp(n)
         /\ \A m \in Nodes : Founder(m)' => m = n \/ Founder(m)
         /\ \A m \in Nodes \ {n} : ~Meets(n, m)
<1>1. EndRecheck(n)
  <2> USE DEF TypeOK, Goto, Founder
  <2>1. ASSUME NEW k \in Nodes, Start(k) \/ Halt(k) \/ Found(k) \/ Announce(k)
        PROVE FALSE
    BY <2>1 DEF Start, Halt, Found, Announce
  <2>2. ASSUME NEW k \in Nodes, StartGossip(k) \/ BeginDiscovery(k) \/ SlotReached(k)
        PROVE FALSE
    BY <2>2 DEF StartGossip, BeginDiscovery, SlotReached
  <2>3. ASSUME NEW k \in Nodes, EndDiscovery(k) \/ EndJoin(k)
        PROVE FALSE
    BY <2>3 DEF EndDiscovery, EndJoin, Retry
  <2>4. ASSUME NEW k \in Nodes, NEW p \in Nodes, Dial(k, p) PROVE FALSE
    BY <2>4 DEF Dial
  <2>5. ASSUME NEW a \in Nodes, NEW b \in Nodes, NEW q \in Nodes, Gossip(a, b, q)
        PROVE FALSE
    BY <2>5 DEF Gossip
  <2>6. ASSUME NEW k \in Nodes, NEW l \in Nodes, Suspect(k, l) PROVE FALSE
    BY <2>6 DEF Suspect
  <2>7. ASSUME NEW k \in Nodes, EndRecheck(k), k # n PROVE FALSE
    BY <2>7 DEF EndRecheck, Retry
  <2>8. CASE UNCHANGED vars
    BY <2>8 DEF vars
  <2> QED
    BY <2>1, <2>2, <2>3, <2>4, <2>5, <2>6, <2>7, <2>8 DEF Next, Step
<1>2. MayBootstrap(n)
  BY <1>1 DEF EndRecheck, Retry, Goto, Founder, TypeOK
<1>3. \A m \in Nodes \ {n} : ~Meets(n, m)
  BY <1>1, <1>2 DEF EndRecheck, MayBootstrap, Alone, Meets, Untried
<1>4. \A m \in Nodes : Founder(m)' => m = n \/ Founder(m)
  BY <1>1 DEF EndRecheck, Retry, Goto, Founder, TypeOK
<1>5. GossipUp(n)
  BY <1>1 DEF EndRecheck, GossipUp
<1> QED BY <1>1, <1>3, <1>4, <1>5

LEMMA IndInvInit == Init => IndInv
<1> SUFFICES ASSUME Init PROVE IndInv
  OBVIOUS
<1>1. TypeOK
  BY TypeInit
<1>2. \A n \in Nodes : ~GossipUp(n) /\ ~Founder(n)
  BY DEF Init, GossipUp, Founder
<1> QED
  BY <1>1, <1>2 DEF IndInv, FounderPC, PeersMeet, FounderIsVisible,
                    AtMostOneFounder, Init

LEMMA IndInvNext ==
  ASSUME Reliable, FullMesh, IndInv, [Next]_vars
  PROVE  IndInv'
<1> USE DEF IndInv
<1>1. TypeOK'
  BY TypeNext
<1>2. FounderPC'
  BY FounderPCNext
<1>3. ASSUME NEW n \in Nodes, Founder(n) PROVE GossipUp(n)
  BY <1>3 DEF Founder, FounderPC, GossipUp
<1>4. ASSUME NEW n \in Nodes, Founder(n)' PROVE GossipUp(n)'
  BY <1>2, <1>4 DEF Founder, FounderPC, GossipUp
<1>5. PeersMeet'
  <2> SUFFICES ASSUME NEW n \in Nodes, NEW m \in Nodes, n # m,
                      GossipUp(n)', GossipUp(m)'
               PROVE  Meets(n, m)' \/ Meets(m, n)'
    BY DEF PeersMeet
  <2>1. CASE GossipUp(n) /\ GossipUp(m)
    BY <2>1, MeetsStable DEF PeersMeet
  <2>2. CASE ~GossipUp(n)
    BY <2>2, NewcomerMeets
  <2>3. CASE ~GossipUp(m)
    BY <2>3, NewcomerMeets
  <2> QED BY <2>1, <2>2, <2>3
<1>6. FounderIsVisible'
  <2> SUFFICES ASSUME NEW n \in Nodes, NEW m \in Nodes, n # m,
                      Founder(n)', GossipUp(m)'
               PROVE  Meets(m, n)'
    BY DEF FounderIsVisible
  <2>1. CASE ~GossipUp(m)
    BY <2>1, NewcomerMeets
  <2>2. CASE GossipUp(m) /\ Founder(n)
    <3>1. Meets(m, n)
      BY <2>2 DEF FounderIsVisible
    <3> QED BY <3>1, <1>4, MeetsStable
  <2>3. CASE GossipUp(m) /\ ~Founder(n)
    <3>1. GossipUp(n) /\ ~Meets(n, m)
      BY <2>3, NewFounderIsAlone
    <3>2. Meets(m, n)
      BY <2>3, <3>1 DEF PeersMeet
    <3> QED BY <3>2, <1>4, MeetsStable
  <2> QED BY <2>1, <2>2, <2>3
<1>7. AtMostOneFounder'
  <2>1. ASSUME NEW n \in Nodes, NEW m \in Nodes, n # m, Founder(n)', Founder(m)',
               ~Founder(n)
        PROVE FALSE
    <3>1. Founder(m) /\ GossipUp(n) /\ ~Meets(n, m)
      BY <2>1, NewFounderIsAlone
    <3> QED BY <2>1, <3>1 DEF FounderIsVisible
  <2> QED BY <2>1 DEF AtMostOneFounder
<1> QED BY <1>1, <1>2, <1>5, <1>6, <1>7

LEMMA IndInvariance ==
  ASSUME Reliable, FullMesh
  PROVE  Spec => []IndInv
<1>1. IndInv /\ [Next]_vars => IndInv'
  BY IndInvNext
<1> QED BY IndInvInit, <1>1, PTL DEF Spec

\* For every number of nodes, when discovery lists all of them and the network
\* is reliable: of two live nodes at least one sees the other or has it still to
\* dial in its first discovery (bootstrapper.go:289-305), crashes included.
THEOREM PeersDoMeet ==
  ASSUME Reliable, FullMesh
  PROVE  Spec => []PeersMeet
<1>1. IndInv => PeersMeet
  BY DEF IndInv
<1> QED BY <1>1, IndInvariance, PTL

\* In the same environment nobody overlooks a node that has passed
\* shouldBootstrap, not even before it announces itself (bootstrapper.go:336-347).
THEOREM FounderIsSeen ==
  ASSUME Reliable, FullMesh
  PROVE  Spec => []FounderIsVisible
<1>1. IndInv => FounderIsVisible
  BY DEF IndInv
<1> QED BY <1>1, IndInvariance, PTL

\* In the same environment, for every interleaving of the run loops, of gossip
\* and of crashes, two live nodes never both pass shouldBootstrap
\* (bootstrapper.go:331-350).
THEOREM SingleFounderSafety ==
  ASSUME Reliable, FullMesh
  PROVE  Spec => []AtMostOneFounder
<1>1. IndInv => AtMostOneFounder
  BY DEF IndInv
<1> QED BY <1>1, IndInvariance, PTL

---------------------------------------------------------------------------
(* The run loops implement SingleFounder *)

\* didBootstrap is set before the node announces itself.
FoundedDid == \A n \in Nodes : pc[n] = "founded" => did[n]

\* What a node believes of others is true of them.
KnownIsTrue == \A n, m \in Nodes : m \in known[n] => Flagged(m)

\* Only a running node advertises itself as bootstrapped.
FlaggedIsRunning == \A n \in Nodes : Flagged(n) => pc[n] = "running"

\* A node joins because some node is bootstrapped.
JoinerHasCluster ==
    \A n \in Nodes : pc[n] \in {"joining", "joined"} => \E m \in Nodes : Flagged(m)

\* Where somebody is bootstrapped, somebody founded.
ClusterHasFounder ==
    (\E n \in Nodes : Flagged(n)) => \E f \in Nodes : did[f]

JoinInv ==
    /\ TypeOK
    /\ FounderPC
    /\ halts = 0
    /\ FoundedDid
    /\ KnownIsTrue
    /\ FlaggedIsRunning
    /\ JoinerHasCluster
    /\ ClusterHasFounder

LEMMA JoinInvInit == Init => JoinInv
  BY TypeInit DEF Init, JoinInv, FounderPC, FoundedDid, KnownIsTrue, FlaggedIsRunning,
                  JoinerHasCluster, ClusterHasFounder, Flagged

\* Without crashes nobody stops being bootstrapped or a founder, and views
\* take in nothing but what some node advertises.
LEMMA FlagsStep ==
  ASSUME MaxHalts = 0, JoinInv, [Next]_vars
  PROVE  /\ halts' = 0
         /\ \A n \in Nodes : Flagged(n) => Flagged(n)'
         /\ \A n \in Nodes : Founder(n) => Founder(n)'
         /\ \A n \in Nodes : did[n] => did'[n]
         /\ \A n \in Nodes : \/ known'[n] \subseteq {m \in Nodes : Flagged(m)}
                             \/ Announce(n)
<1> USE DEF JoinInv, TypeOK, Goto, Flagged, Founder, KnownIsTrue, FounderPC,
            FlaggedIsRunning
<1> DEFINE Goal ==
         /\ halts' = 0
         /\ \A n \in Nodes : Flagged(n) => Flagged(n)'
         /\ \A n \in Nodes : Founder(n) => Founder(n)'
         /\ \A n \in Nodes : did[n] => did'[n]
         /\ \A n \in Nodes : \/ known'[n] \subseteq {m \in Nodes : Flagged(m)}
                             \/ Announce(n)
<1>1. ASSUME NEW k \in Nodes, Start(k) PROVE Goal
  BY <1>1 DEF Start
<1>2. ASSUME NEW k \in Nodes, StartGossip(k) PROVE Goal
  BY <1>2 DEF StartGossip
<1>3. ASSUME NEW k \in Nodes, BeginDiscovery(k) PROVE Goal
  BY <1>3 DEF BeginDiscovery
<1>4. ASSUME NEW k \in Nodes, NEW p \in Nodes, Dial(k, p) PROVE Goal
  BY <1>4 DEF Dial, Pull
<1>5. ASSUME NEW k \in Nodes, EndDiscovery(k) PROVE Goal
  BY <1>5 DEF EndDiscovery, Retry
<1>6. ASSUME NEW k \in Nodes, EndJoin(k) PROVE Goal
  BY <1>6 DEF EndJoin, Retry
<1>7. ASSUME NEW k \in Nodes, SlotReached(k) PROVE Goal
  BY <1>7 DEF SlotReached
<1>8. ASSUME NEW k \in Nodes, EndRecheck(k) PROVE Goal
  BY <1>8 DEF EndRecheck, Retry
<1>9. ASSUME NEW k \in Nodes, Found(k) PROVE Goal
  BY <1>9 DEF Found
<1>10. ASSUME NEW k \in Nodes, Announce(k) PROVE Goal
  <2>1. /\ known' = [known EXCEPT ![k] = @ \cup {k}]
        /\ pc' = [pc EXCEPT ![k] = "running"]
        /\ pc[k] \in {"founded", "joined"}
        /\ UNCHANGED <<did, halts>>
    BY <1>10 DEF Announce
  <2>2. \A n \in Nodes : Flagged(n) => Flagged(n)'
    BY <2>1
  <2>3. \A n \in Nodes : Founder(n) => Founder(n)'
    <3>1. pc[k] = "founded" => did[k]
      BY DEF FoundedDid
    <3> QED BY <2>1, <3>1
  <2>4. \A n \in Nodes \ {k} : known'[n] \subseteq {m \in Nodes : Flagged(m)}
    BY <2>1
  <2> HIDE DEF Flagged, Founder
  <2> QED BY <1>10, <2>1, <2>2, <2>3, <2>4
<1>11. ASSUME NEW k \in Nodes, Halt(k) PROVE Goal
  BY <1>11 DEF Halt
<1>12. ASSUME NEW a \in Nodes, NEW b \in Nodes, NEW q \in Nodes, Gossip(a, b, q)
       PROVE Goal
  BY <1>12 DEF Gossip
<1>13. ASSUME NEW k \in Nodes, NEW l \in Nodes, Suspect(k, l) PROVE Goal
  BY <1>13 DEF Suspect
<1>14. CASE UNCHANGED vars
  BY <1>14 DEF vars
<1> QED
  BY <1>1, <1>2, <1>3, <1>4, <1>5, <1>6, <1>7, <1>8, <1>9, <1>10, <1>11,
     <1>12, <1>13, <1>14 DEF Next, Step

\* How the locations of one node follow each other, as far as JoinInv asks.
LEMMA ControlStep ==
  ASSUME JoinInv, [Next]_vars, NEW n \in Nodes
  PROVE  /\ pc'[n] = "founded" => did'[n]
         /\ pc'[n] \in {"joining", "joined"} =>
                pc[n] \in {"joining", "joined"} \/ SeesBootstrapped(n)
         /\ n \in known'[n] => pc'[n] = "running"
<1> USE DEF JoinInv, TypeOK, Goto, FoundedDid, FlaggedIsRunning, Flagged
<1> DEFINE Goal ==
         /\ pc'[n] = "founded" => did'[n]
         /\ pc'[n] \in {"joining", "joined"} =>
                pc[n] \in {"joining", "joined"} \/ SeesBootstrapped(n)
         /\ n \in known'[n] => pc'[n] = "running"
<1>1. ASSUME NEW k \in Nodes, Start(k) PROVE Goal
  BY <1>1 DEF Start
<1>2. ASSUME NEW k \in Nodes, StartGossip(k) PROVE Goal
  BY <1>2 DEF StartGossip
<1>3. ASSUME NEW k \in Nodes, BeginDiscovery(k) PROVE Goal
  BY <1>3 DEF BeginDiscovery
<1>4. ASSUME NEW k \in Nodes, NEW p \in Nodes, Dial(k, p) PROVE Goal
  BY <1>4 DEF Dial, Pull
<1>5. ASSUME NEW k \in Nodes, EndDiscovery(k) PROVE Goal
  BY <1>5 DEF EndDiscovery, Retry
<1>6. ASSUME NEW k \in Nodes, EndJoin(k) PROVE Goal
  BY <1>6 DEF EndJoin, Retry
<1>7. ASSUME NEW k \in Nodes, SlotReached(k) PROVE Goal
  BY <1>7 DEF SlotReached
<1>8. ASSUME NEW k \in Nodes, EndRecheck(k) PROVE Goal
  BY <1>8 DEF EndRecheck, Retry
<1>9. ASSUME NEW k \in Nodes, Found(k) PROVE Goal
  BY <1>9 DEF Found
<1>10. ASSUME NEW k \in Nodes, Announce(k) PROVE Goal
  BY <1>10 DEF Announce
<1>11. ASSUME NEW k \in Nodes, Halt(k) PROVE Goal
  BY <1>11 DEF Halt
<1>12. ASSUME NEW a \in Nodes, NEW b \in Nodes, NEW q \in Nodes, Gossip(a, b, q)
       PROVE Goal
  BY <1>12 DEF Gossip
<1>13. ASSUME NEW k \in Nodes, NEW l \in Nodes, Suspect(k, l) PROVE Goal
  BY <1>13 DEF Suspect
<1>14. CASE UNCHANGED vars
  BY <1>14 DEF vars
<1> QED
  BY <1>1, <1>2, <1>3, <1>4, <1>5, <1>6, <1>7, <1>8, <1>9, <1>10, <1>11,
     <1>12, <1>13, <1>14 DEF Next, Step

LEMMA JoinInvNext ==
  ASSUME MaxHalts = 0, JoinInv, [Next]_vars
  PROVE  JoinInv'
<1> USE DEF JoinInv
<1>1. TypeOK'
  BY TypeNext
<1>2. FounderPC'
  BY FounderPCNext
<1>3. /\ halts' = 0
      /\ \A n \in Nodes : Flagged(n) => Flagged(n)'
      /\ \A n \in Nodes : did[n] => did'[n]
      /\ \A n \in Nodes : \/ known'[n] \subseteq {m \in Nodes : Flagged(m)}
                          \/ Announce(n)
  BY FlagsStep
<1>4. KnownIsTrue'
  <2> SUFFICES ASSUME NEW n \in Nodes, NEW m \in Nodes, m \in known'[n]
               PROVE  Flagged(m)'
    BY DEF KnownIsTrue
  <2>1. CASE known'[n] \subseteq {k \in Nodes : Flagged(k)}
    BY <2>1, <1>3
  <2>2. CASE Announce(n)
    <3>1. m = n \/ m \in known[n]
      BY <2>2 DEF Announce, TypeOK
    <3>2. CASE m = n
      BY <3>2 DEF Flagged
    <3>3. CASE m \in known[n]
      BY <3>3, <1>3 DEF KnownIsTrue
    <3> QED BY <3>1, <3>2, <3>3
  <2> QED BY <1>3, <2>1, <2>2
<1>5. FlaggedIsRunning' /\ FoundedDid'
  BY ControlStep DEF FlaggedIsRunning, FoundedDid, Flagged
<1>6. JoinerHasCluster'
  <2> SUFFICES ASSUME NEW n \in Nodes, pc'[n] \in {"joining", "joined"}
               PROVE  \E m \in Nodes : Flagged(m)'
    BY DEF JoinerHasCluster
  <2>1. pc[n] \in {"joining", "joined"} \/ SeesBootstrapped(n)
    BY ControlStep
  <2>2. \E m \in Nodes : Flagged(m)
    BY <2>1 DEF JoinerHasCluster, SeesBootstrapped, KnownIsTrue, TypeOK
  <2> QED BY <2>2, <1>3
<1>7. ClusterHasFounder'
  <2> SUFFICES ASSUME NEW n \in Nodes, Flagged(n)'
               PROVE  \E f \in Nodes : did'[f]
    BY DEF ClusterHasFounder
  <2>1. CASE \E m \in Nodes : Flagged(m)
    BY <2>1, <1>3 DEF ClusterHasFounder
  <2>2. CASE ~\E m \in Nodes : Flagged(m)
    <3>1. Announce(n)
      BY <1>3, <2>2 DEF Flagged
    <3>2. pc[n] = "founded"
      BY <3>1, <2>2 DEF Announce, JoinerHasCluster
    <3>3. did[n]
      BY <3>2 DEF FoundedDid
    <3> QED BY <3>3, <1>3
  <2> QED BY <2>1, <2>2
<1> QED BY <1>1, <1>2, <1>3, <1>4, <1>5, <1>6, <1>7

---------------------------------------------------------------------------
\* The initial states of the run loops are those of SingleFounder.
LEMMA RefinesInit == Init => Abstract!Init
  BY DEF Init, Abstract!Init, Role, Founder, Flagged

\* Every step of the run loops, of gossip or of failure detection is a Found,
\* a Join or a stutter of SingleFounder.
LEMMA RefinesNext ==
  ASSUME MaxHalts = 0, JoinInv, [Next]_vars, Reliable => FullMesh /\ IndInv
  PROVE  [Abstract!Next]_Role
<1> USE DEF JoinInv
<1>1. /\ \A n \in Nodes : Flagged(n) => Flagged(n)'
      /\ \A n \in Nodes : Founder(n) => Founder(n)'
      /\ \A n \in Nodes : \/ known'[n] \subseteq {m \in Nodes : Flagged(m)}
                          \/ Announce(n)
  BY FlagsStep
<1>2. CASE \E n \in Nodes : ~Founder(n) /\ Founder(n)'
  <2>1. PICK n \in Nodes : ~Founder(n) /\ Founder(n)'
    BY <1>2
  <2>2. /\ pc[n] = "rechecking" /\ known' = known
        /\ \A m \in Nodes : Founder(m)' => m = n \/ Founder(m)
        /\ \A m \in Nodes \ {n} : ~Meets(n, m)
        /\ GossipUp(n)
    BY <2>1, NewFounderIsAlone DEF EndRecheck
  <2>3. ~Flagged(n) /\ \A m \in Nodes : Flagged(m)' <=> Flagged(m)
    BY <2>2 DEF FlaggedIsRunning, Flagged
  <2>4. Reliable => \A m \in Nodes : ~Founder(m) /\ ~Flagged(m)
    BY <2>1, <2>2 DEF IndInv, FounderIsVisible, ClusterHasFounder, Founder
  <2>5. Role' = [Role EXCEPT ![n] = "founder"]
    BY <1>1, <2>1, <2>2, <2>3 DEF Role
  <2>6. Abstract!Found(n)
    BY <2>1, <2>3, <2>4, <2>5 DEF Abstract!Found, Role
  <2> QED BY <2>6 DEF Abstract!Next
<1>3. CASE \E n \in Nodes : Announce(n) /\ ~Founder(n)
  <2>1. PICK n \in Nodes : Announce(n) /\ ~Founder(n)
    BY <1>3
  <2>2. /\ pc[n] = "joined" /\ did' = did
        /\ pc' = [pc EXCEPT ![n] = "running"]
        /\ known' = [known EXCEPT ![n] = @ \cup {n}]
    BY <2>1 DEF Announce, Founder, Goto
  <2>3. ~Flagged(n) /\ Flagged(n)' /\ \A m \in Nodes \ {n} : Flagged(m)' <=> Flagged(m)
    BY <2>2 DEF FlaggedIsRunning, Flagged, TypeOK
  <2>4. \A m \in Nodes : Founder(m)' <=> Founder(m)
    BY <2>1, <2>2 DEF Founder, TypeOK
  <2>5. Role' = [Role EXCEPT ![n] = "member"]
    BY <2>1, <2>3, <2>4 DEF Role
  <2>6. \E m \in Nodes : Role[m] # "out"
    BY <2>2 DEF JoinerHasCluster, Role
  <2>7. Abstract!Join(n)
    BY <2>1, <2>3, <2>5, <2>6 DEF Abstract!Join, Role
  <2> QED BY <2>7 DEF Abstract!Next
<1>4. CASE /\ \A n \in Nodes : Founder(n)' => Founder(n)
           /\ \A n \in Nodes : Announce(n) => Founder(n)
  <2>1. \A n \in Nodes : Founder(n)' <=> Founder(n)
    BY <1>1, <1>4
  <2>2. \A n \in Nodes : ~Founder(n) => (Flagged(n)' <=> Flagged(n))
    BY <1>1, <1>4 DEF Flagged
  <2>3. Role' = Role
    BY <2>1, <2>2 DEF Role
  <2> QED BY <2>3
<1> QED BY <1>2, <1>3, <1>4

\* For every number of nodes, without crashes, the run loops implement
\* SingleFounder: a node runs as a joiner only if a cluster exists, and, with a
\* reliable full mesh, founds one only if none does.
THEOREM BootstrapImplementsSingleFounder ==
  ASSUME MaxHalts = 0, Reliable => FullMesh
  PROVE  Spec => ImplementsSingleFounder
<1>1. JoinInv /\ [Next]_vars => JoinInv'
  BY JoinInvNext
<1>2. Spec => [](Reliable => IndInv)
  <2>1. Init => (Reliable => IndInv)
    BY IndInvInit
  <2>2. (Reliable => IndInv) /\ [Next]_vars => (Reliable => IndInv)'
    BY IndInvNext
  <2> QED BY <2>1, <2>2, PTL DEF Spec
<1>3. JoinInv /\ (Reliable => IndInv) /\ [Next]_vars => [Abstract!Next]_Role
  BY RefinesNext
<1> QED
  BY JoinInvInit, RefinesInit, <1>1, <1>2, <1>3, PTL
  DEF Spec, ImplementsSingleFounder, Abstract!Spec

---------------------------------------------------------------------------
(* A joiner sees the founder *)

\* memberlist has the node itself in its view.
SelfMember == \A n \in Nodes : GossipUp(n) => n \in members[n]

LEMMA SelfMemberNext ==
  ASSUME TypeOK, SelfMember, [Next]_vars
  PROVE  SelfMember'
<1> SUFFICES ASSUME NEW m \in Nodes, GossipUp(m)' PROVE m \in members'[m]
  BY DEF SelfMember
<1> USE DEF TypeOK, SelfMember, Goto, GossipUp
<1>1. ASSUME NEW k \in Nodes, Start(k) \/ StartGossip(k) \/ Halt(k) PROVE m \in members'[m]
  BY <1>1 DEF Start, StartGossip, Halt
<1>2. ASSUME NEW k \in Nodes, BeginDiscovery(k) \/ SlotReached(k) \/ Found(k) \/ Announce(k)
      PROVE  m \in members'[m]
  BY <1>2 DEF BeginDiscovery, SlotReached, Found, Announce
<1>3. ASSUME NEW k \in Nodes, EndDiscovery(k) \/ EndJoin(k) \/ EndRecheck(k)
      PROVE  m \in members'[m]
  BY <1>3 DEF EndDiscovery, EndJoin, EndRecheck, Retry
<1>4. ASSUME NEW k \in Nodes, NEW p \in Nodes, Dial(k, p) PROVE m \in members'[m]
  BY <1>4 DEF Dial, Pull
<1>5. ASSUME NEW a \in Nodes, NEW b \in Nodes, NEW q \in Nodes, Gossip(a, b, q)
      PROVE  m \in members'[m]
  BY <1>5 DEF Gossip
<1>6. ASSUME NEW k \in Nodes, NEW l \in Nodes, Suspect(k, l) PROVE m \in members'[m]
  BY <1>6 DEF Suspect
<1>7. CASE UNCHANGED vars
  BY <1>7 DEF vars
<1> QED BY <1>1, <1>2, <1>3, <1>4, <1>5, <1>6, <1>7 DEF Next, Step

\* For every number of nodes, without crashes and with a reliable full mesh: a
\* node that tells the others it is bootstrapped has the founder of its cluster
\* in its own view (joinCluster, bootstrapper.go:310-329).
THEOREM JoinerSees ==
  ASSUME Reliable, FullMesh, MaxHalts = 0
  PROVE  Spec => []JoinerSeesFounder
<1>1. JoinInv /\ [Next]_vars => JoinInv'
  BY JoinInvNext
<1>2. JoinInv /\ SelfMember /\ [Next]_vars => SelfMember'
  BY SelfMemberNext DEF JoinInv
<1>3. Init => SelfMember
  BY DEF Init, SelfMember, GossipUp
<1>4. IndInv /\ JoinInv /\ SelfMember => JoinerSeesFounder
  <2> SUFFICES ASSUME IndInv, JoinInv, SelfMember, NEW n \in Nodes, Flagged(n)
               PROVE  \E f \in members[n] : did[f]
    BY DEF JoinerSeesFounder
  <2>1. pc[n] = "running"
    BY DEF JoinInv, FlaggedIsRunning
  <2>2. PICK f \in Nodes : did[f]
    BY DEF JoinInv, ClusterHasFounder
  <2>3. CASE f = n
    BY <2>1, <2>2, <2>3 DEF SelfMember, GossipUp
  <2>4. CASE f # n
    <3>1. Meets(n, f)
      BY <2>1, <2>2, <2>4 DEF IndInv, FounderIsVisible, Founder, GossipUp
    <3>2. f \in members[n]
      BY <2>1, <3>1 DEF Meets, Untried
    <3> QED BY <2>2, <3>2
  <2> QED BY <2>3, <2>4
<1> QED BY IndInvariance, JoinInvInit, <1>1, <1>2, <1>3, <1>4, PTL DEF Spec

---------------------------------------------------------------------------
(* The retry budget *)

\* One node's share of RetryBudget.
Budget(n) ==
    /\ attempt[n] <= MaxRetries
    /\ pc[n] = "failed" <=> MaxRetries # 0 /\ attempt[n] = MaxRetries

\* A step that neither enters nor leaves StateFailed and does not count.
LEMMA BudgetFrame ==
  ASSUME NEW n \in Nodes, Budget(n), attempt'[n] = attempt[n],
         pc'[n] = "failed" <=> pc[n] = "failed"
  PROVE  Budget(n)'
  BY DEF Budget

\* The counter of a node that has not given up is below the limit.
LEMMA RetryKeepsBudget ==
  ASSUME TypeOK, NEW k \in Nodes, NEW n \in Nodes, Budget(n), Retry(k), pc[k] # "failed"
  PROVE  Budget(n)'
<1>1. CASE n # k
  <2>1. attempt'[n] = attempt[n] /\ pc'[n] = pc[n]
    BY <1>1 DEF TypeOK, Retry, Goto
  <2> QED BY <2>1, BudgetFrame
<1>2. CASE n = k /\ MaxRetries = 0
  <2>1. attempt'[n] = attempt[n] /\ pc'[n] = "retrying"
    BY <1>2 DEF TypeOK, Retry, Goto, ShouldFail
  <2> QED BY <1>2, <2>1, BudgetFrame
<1>3. CASE n = k /\ MaxRetries # 0
  <2>1. /\ attempt'[n] = attempt[n] + 1
        /\ pc'[n] = IF attempt[n] + 1 >= MaxRetries THEN "failed" ELSE "retrying"
    BY <1>3 DEF TypeOK, Retry, Goto, ShouldFail
  <2>2. attempt[n] \in Nat /\ attempt[n] < MaxRetries
    BY <1>3, ConstantsAssumption DEF TypeOK, Budget
  <2> QED BY <1>3, <2>1, <2>2, ConstantsAssumption DEF Budget
<1> QED BY <1>1, <1>2, <1>3

LEMMA BudgetNext ==
  ASSUME TypeOK, [Next]_vars, NEW n \in Nodes, Budget(n)
  PROVE  Budget(n)'
<1> USE DEF TypeOK, Goto
<1>1. ASSUME NEW k \in Nodes, Start(k) \/ StartGossip(k) \/ Found(k) \/ Announce(k)
      PROVE  Budget(n)'
  BY <1>1, BudgetFrame DEF Start, StartGossip, Found, Announce
<1>2. ASSUME NEW k \in Nodes, BeginDiscovery(k) \/ SlotReached(k) PROVE Budget(n)'
  BY <1>2, BudgetFrame DEF BeginDiscovery, SlotReached
<1>3. ASSUME NEW k \in Nodes, EndDiscovery(k) PROVE Budget(n)'
  BY <1>3, BudgetFrame, RetryKeepsBudget DEF EndDiscovery
<1>4. ASSUME NEW k \in Nodes, EndJoin(k) PROVE Budget(n)'
  BY <1>4, BudgetFrame, RetryKeepsBudget DEF EndJoin
<1>5. ASSUME NEW k \in Nodes, EndRecheck(k) PROVE Budget(n)'
  BY <1>5, BudgetFrame, RetryKeepsBudget DEF EndRecheck
<1>6. ASSUME NEW k \in Nodes, Halt(k) PROVE Budget(n)'
  <2>1. CASE n = k
    <3>1. attempt'[n] = 0 /\ pc'[n] = "down"
      BY <1>6, <2>1 DEF Halt
    <3> QED BY <3>1, ConstantsAssumption DEF Budget
  <2>2. CASE n # k
    BY <1>6, <2>2, BudgetFrame DEF Halt
  <2> QED BY <2>1, <2>2
<1>7. ASSUME NEW k \in Nodes, NEW p \in Nodes, Dial(k, p) \/ Suspect(k, p) PROVE Budget(n)'
  BY <1>7, BudgetFrame DEF Dial, Suspect
<1>8. ASSUME NEW a \in Nodes, NEW b \in Nodes, NEW q \in Nodes, Gossip(a, b, q)
      PROVE  Budget(n)'
  BY <1>8, BudgetFrame DEF Gossip
<1>9. CASE UNCHANGED vars
  BY <1>9, BudgetFrame DEF vars
<1> QED BY <1>1, <1>2, <1>3, <1>4, <1>5, <1>6, <1>7, <1>8, <1>9 DEF Next, Step

\* In any environment a node gives up exactly when its last permitted round has
\* failed, and never when there is no limit (shouldFail, bootstrapper.go:383-388).
THEOREM BudgetIsKept == Spec => []RetryBudget
<1>1. Init => RetryBudget
  <2> SUFFICES ASSUME Init, NEW n \in Nodes
               PROVE  Budget(n)
    BY DEF RetryBudget, Budget
  <2>1. attempt[n] = 0 /\ pc[n] = "down"
    BY DEF Init
  <2> QED BY <2>1, ConstantsAssumption DEF Budget
<1>2. TypeOK /\ RetryBudget /\ [Next]_vars => RetryBudget'
  <2> SUFFICES ASSUME TypeOK, RetryBudget, [Next]_vars, NEW n \in Nodes
               PROVE  Budget(n)'
    BY DEF RetryBudget, Budget
  <2>1. Budget(n)
    BY DEF RetryBudget, Budget
  <2> QED BY <2>1, BudgetNext
<1> QED BY <1>1, <1>2, TypeCorrect, PTL DEF Spec
===========================================================================
