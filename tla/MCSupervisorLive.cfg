CONSTANTS
    c1 = c1
    main = main
    r1 = r1
    r2 = r2
    r3 = r3
    Callers <- OneCaller
    Mains <- JustMain
    Runners <- TwoRunners
    NoRunner = NoRunner
    ModeSet <- CogModes
    Urls <- NoUrls
    InitialURL = "url"
    XVT = 7
    WaylandVT = 8
    ModeVT = 9
    ChvtMayFail = TRUE
SPECIFICATION FairSpec
INVARIANTS ForegroundVisible
PROPERTIES SwitchEnds ShutdownEnds
VIEW View
