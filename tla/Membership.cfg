\* Two peers that come, change and go; one failed operation; leadership is
\* won, lost and won again.
SPECIFICATION FairSpec
CONSTANTS
    Peers = {p1, p2}
    Addrs = {a1}
    Placeholder = zero
    None = none
    MaxEvents = 2
    MaxFaults = 1
    MaxTurns = 3
INVARIANT TypeOK
PROPERTY Converges
\* Gossip may settle, and then there is nothing to do.
CHECK_DEADLOCK FALSE
