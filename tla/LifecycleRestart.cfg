\* A node that is started, stopped at any time and started once more.
SPECIFICATION Spec
CONSTANTS
    MaxStarts = 2
    MaxCancels = 1
    LeaveMayFail = FALSE
INVARIANTS
    TypeOK QuietStopIsFinal QuietStopIsSafe OneRaftOnStorage ReconcilerServesRaft
    StopIsAwaited ClustersAreFounded
PROPERTY WipedOnlyWhenUnaccepted
\* A node may stay stopped, and a panic ends the process.
CHECK_DEADLOCK FALSE
