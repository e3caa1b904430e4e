SPECIFICATION FairSpec
CONSTANTS
    MaxStarts = 1
    MaxCancels = 1
    LeaveMayFail = FALSE
PROPERTY CallbackDelivered
\* A node may stay stopped, and a panic ends the process.
CHECK_DEADLOCK FALSE
