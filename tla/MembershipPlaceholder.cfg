\* One peer that joins the cluster of this node.
SPECIFICATION FairSpec
CONSTANTS
    Peers = {p1}
    Addrs = {a1}
    Placeholder = zero
    None = none
    MaxEvents = 2
    MaxFaults = 0
    MaxTurns = 1
PROPERTY NoPlaceholderVoter
\* Gossip may settle, and then there is nothing to do.
CHECK_DEADLOCK FALSE
