\* One life of a node, stopped at any time, under fair scheduling.
SPECIFICATION FairOSpec
CONSTANTS
    MaxStarts = 1
    MaxCancels = 1
    LeaveMayFail = TRUE
    Capacity = 2
    MetaMaxSize = 512
    AddrSize = 21
    AppSizes = {330}
INVARIANTS
    OTypeOK ReadyIsAnnounced SubscriberIsInformed MDNSIsTruthful
    AddressComesWithFlag PeersReadWhatWasMeant
PROPERTIES StopReturns ReconcilersEnd ReadyIsNoticed PeersLearn
\* A node may stay stopped, and a panic ends the process.
CHECK_DEADLOCK FALSE
