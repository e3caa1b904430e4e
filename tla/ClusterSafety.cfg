\* Three nodes, static full mesh, reliable network, one crash anywhere.
SPECIFICATION Spec
CONSTANTS
    n1 = n1
    n2 = n2
    n3 = n3
    Nodes <- ThreeNodes
    Peers <- OthersOfThree
    CanBootstrap <- ThreeNodes
    Reliable = TRUE
    MaxRetries = 0
    MaxHalts = 1
INVARIANTS TypeOK PeersMeet FounderIsVisible AtMostOneFounder
SYMMETRY Symmetry
\* A behaviour may end: all nodes run and no crash is left.
CHECK_DEADLOCK FALSE
