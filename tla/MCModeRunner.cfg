CONSTANTS
    p1 = p1
    p2 = p2
    s1 = s1
    s2 = s2
    Pids <- MCPids
    NoPid = NoPid
    Stoppers <- MCStoppers
    RunModes <- MCModes
    HealthyRun = 3
    FailWindow = 3
    FailBurst = 2
    BackoffMin = 1
    BackoffMax = 2
SPECIFICATION FairSpec
INVARIANTS TypeOK OneGroup DoneMeansGone
PROPERTIES StoppedForGood GiveUpExactly StopIsNotAnEnd StopReturns ImplementsContract
CHECK_DEADLOCK FALSE
