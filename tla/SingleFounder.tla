--------------------------- MODULE SingleFounder ---------------------------
(***************************************************************************)
(* What the bootstrap protocol promises, with none of its mechanism: nodes *)
(* found a cluster or join an existing one.  A founder needs the field to  *)
(* itself (when Exclusive), a joiner needs a cluster to join.              *)
(***************************************************************************)
CONSTANTS Nodes, Exclusive

VARIABLE role   \* role[n]: "out", "founder" or "member"

Init == role = [n \in Nodes |-> "out"]

Found(n) ==
    /\ role[n] = "out"
    /\ Exclusive => \A m \in Nodes : role[m] = "out"
    /\ role' = [role EXCEPT ![n] = "founder"]

Join(n) ==
    /\ role[n] = "out"
    /\ \E m \in Nodes : role[m] # "out"
    /\ role' = [role EXCEPT ![n] = "member"]

Next == \E n \in Nodes : Found(n) \/ Join(n)

Spec == Init /\ [][Next]_role
===========================================================================
