SPECIFICATION Spec
CONSTANTS
    MaxStarts = 1
    MaxCancels = 1
    LeaveMayFail = FALSE
INVARIANT NoRaftAfterStop
\* A node may stay stopped, and a panic ends the process.
CHECK_DEADLOCK FALSE
