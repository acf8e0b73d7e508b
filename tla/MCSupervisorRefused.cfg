CONSTANTS
    c1 = c1
    main = main
    r1 = r1
    r2 = r2
    r3 = r3
    Callers <- OneCaller
    Mains <- Nobody
    Runners <- TwoRunners
    NoRunner = NoRunner
    ModeSet <- AppModes
    Urls <- NoUrls
    InitialURL = "home"
    XVT = 7
    WaylandVT = 8
    ModeVT = 9
    ChvtMayFail = FALSE
SPECIFICATION Spec
INVARIANTS BaseVisible
