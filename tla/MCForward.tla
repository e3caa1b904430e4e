----------------------------- MODULE MCForward -----------------------------
(***************************************************************************)
(* Forward for TLC: one call, on the first of three nodes.                 *)
(***************************************************************************)
EXTENDS Forward

CONSTANTS n1, n2, n3, c1

AllNodes == {n1, n2, n3}
OneCall == {c1}
FirstNode == [c \in OneCall |-> n1]
Others == {n2, n3}
===========================================================================
