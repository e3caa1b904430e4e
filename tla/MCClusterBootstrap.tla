------------------------ MODULE MCClusterBootstrap ------------------------
(***************************************************************************)
(* Small deployments of ClusterBootstrap for TLC.                          *)
(***************************************************************************)
EXTENDS ClusterBootstrap, TLC

CONSTANTS n1, n2, n3

TwoNodes == {n1, n2}
ThreeNodes == {n1, n2, n3}

\* Every discoverer returns all nodes, the caller too (DNS SRV, mDNS).
MeshOfTwo == [n \in TwoNodes |-> TwoNodes]
\* STATIC_PEERS of test-cluster.sh: node1 has none, the others name node1.
StarOfThree == [n \in ThreeNodes |-> IF n = n1 THEN {} ELSE {n1}]
\* Static lists name the others.
OthersOfThree == [n \in ThreeNodes |-> ThreeNodes \ {n}]

\* The deployments above treat their nodes alike.
Symmetry == Permutations(Nodes)
===========================================================================
