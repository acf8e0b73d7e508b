\* A node in focus is one part; a part whose calls are used up may stop.
SPECIFICATION Spec
CHECK_DEADLOCK FALSE
CONSTANTS
    WatchdogReboot = TRUE
    WedgeReattach = 2
    WedgeRestart = 3
    RestartLimit = 2
    DownLimit = 2
    MaxReboots = 1
    RebootWindow = 4
    Callers = {c1, c2}
    Outputs = {hdmi1, hdmi2}
    First = hdmi1
    Listed = {hdmi1}
    Unnamed = Unnamed
    Degrees = {90}
    Zooms = {1}
    CecTv = FALSE
    MaxCalls = 2
    Requests = {r1}
    Pages = {page1}
    Films = {film}
    Doc = Doc
    Wizard = Wizard
    Cast = Cast
    Off = Off
    NoMode = NoMode
    Nobody = Nobody
    MaxMinutes = 1
    MaxJobs = 2
    MaxFailures = 1
    Delays = 1
    MaxStarts = 1
INVARIANTS WellFormed SetupNotPersisted RebootCeiling SleepIsRemembered
PROPERTIES WedgeEscalates PanelHeldOff CastEnds BaseComesBack
