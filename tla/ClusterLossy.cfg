\* The topology of test-cluster.sh; discovery and dialling may fail, failure
\* detection may err, n3 may not bootstrap, the retry limit is reached.
SPECIFICATION Spec
CONSTANTS
    n1 = n1
    n2 = n2
    n3 = n3
    Nodes <- ThreeNodes
    Peers <- StarOfThree
    CanBootstrap <- TwoNodes
    Reliable = FALSE
    MaxRetries = 2
    MaxHalts = 0
INVARIANT RetryBudget
PROPERTY ImplementsSingleFounder
\* All nodes may run or have failed, and nothing is left to happen.
CHECK_DEADLOCK FALSE
