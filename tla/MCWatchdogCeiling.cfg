\* Short limits, and a mode that is never found down.
SPECIFICATION Spec
CONSTANTS
    WatchdogReboot = TRUE
    WedgeReattach = 1
    WedgeRestart = 2
    RestartLimit = 1
    DownLimit = 10
    MaxReboots = 2
    RebootWindow = 12
INVARIANT BrokenNodeCeiling
CHECK_DEADLOCK FALSE
