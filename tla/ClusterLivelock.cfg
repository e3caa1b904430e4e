\* Two nodes that may both bootstrap and find each other, nothing fails.
SPECIFICATION FairSpec
CONSTANTS
    n1 = n1
    n2 = n2
    n3 = n3
    Nodes <- TwoNodes
    Peers <- MeshOfTwo
    CanBootstrap <- TwoNodes
    Reliable = TRUE
    MaxRetries = 0
    MaxHalts = 0
PROPERTY SomeNodeFounds
\* All nodes may run or have failed, and nothing is left to happen.
CHECK_DEADLOCK FALSE
