\* Start, a Stop of the resting node, and once more.
SPECIFICATION Spec
CONSTANTS
    MaxStarts = 2
    MaxCancels = 0
    LeaveMayFail = FALSE
INVARIANT QuietStopsAreSafe
\* A node may stay stopped, and a panic ends the process.
CHECK_DEADLOCK FALSE
