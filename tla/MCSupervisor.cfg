CONSTANTS
    c1 = c1
    main = main
    r1 = r1
    r2 = r2
    r3 = r3
    Callers <- OneCaller
    Mains <- Nobody
    Runners <- ThreeRunners
    NoRunner = NoRunner
    ModeSet <- DualModes
    Urls <- SameUrl
    InitialURL = "home"
    XVT = 7
    WaylandVT = 8
    ModeVT = 9
    ChvtMayFail = FALSE
SPECIFICATION Spec
INVARIANTS TypeOK TokenHeld NoOrphan OneOwner KmsOwnsScreen SwitchDelivers PortMatchesBase RecoveryShowsBase
PROPERTIES RecoveryRecordsScreen
SYMMETRY Symmetry
VIEW View
