\* One call of Apply on one of three nodes; leaders come and go, at most two at a
\* time think they lead, one node is stopped.
SPECIFICATION FairSpec
CONSTANTS
    n1 = n1
    n2 = n2
    n3 = n3
    c1 = c1
    Nodes <- AllNodes
    NoNode = NoNode
    Calls <- OneCall
    origin <- FirstNode
    Listed <- Others
    maxRedirectHops = 2
    MaxLeaders = 2
    MaxStops = 1
INVARIANTS TypeOK CalmCallSucceeds
PROPERTIES ImplementsService ApplyReturns ServerDrains
\* The call has returned and nothing is left to happen.
CHECK_DEADLOCK FALSE
