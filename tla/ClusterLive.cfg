\* Three nodes, one of which may not bootstrap, no crash, no retry limit.
SPECIFICATION FairSpec
CONSTANTS
    n1 = n1
    n2 = n2
    n3 = n3
    Nodes <- ThreeNodes
    Peers <- OthersOfThree
    CanBootstrap <- TwoNodes
    Reliable = TRUE
    MaxRetries = 0
    MaxHalts = 0
INVARIANT JoinerSeesFounder
PROPERTIES ImplementsSingleFounder StartedNodesJoin LoneNodeFounds
\* All nodes may run or have failed, and nothing is left to happen.
CHECK_DEADLOCK FALSE
