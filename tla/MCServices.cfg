\* A part whose bounded calls are used up may stop.  Two connections of the
\* controller are enough for one to be lost, two Chromiums for one to die.
SPECIFICATION MCSpec
CHECK_DEADLOCK FALSE
CONSTANTS
    None = None
    Week = 2
    Slots = 4
    Horizon = 5
    MaxEntries = 3
    Schedules <- TheSchedules
    ScheduleFiles <- TheScheduleFiles
    Legacy <- Night
    Targets = {"a", "b", "c"}
    BadTime = BadTime
    NoAction = NoAction
    NoWindow = NoWindow
    Ids <- FourIds
    Names = {"a"}
    Typed <- TypedSlugs
    Modes <- OneMode
    Playlists = {"p"}
    MaxActions = 3
    MaxIndex = 2
    MaxKeys = 2
    ActionFiles <- TheActionFiles
    Customs <- TheCustoms
    NoId = NoId
    NoPlaylist = NoPlaylist
    Writers = {w1, w2}
    Shows <- TheShows
    CustomIds = {"x"}
    Launchers = {"l"}
    MaxHistory = 2
    MaxStates = 2
    NoMode = NoMode
    NoSnap = NoSnap
    Posters = {client1, client2}
    Lists <- TheLists
    ListFiles <- TheListFiles
    MaxItems = 2
    Interval = 8
    MaxPosts = 3
    NoItem = NoItem
    NoList = NoList
    Uploaders = {client1, client2}
    Paths <- ThePaths
    Inodes = {inode1, inode2}
    Chunks = 2
    MaxParts = 5
    Dir = Dir
    Absent = Absent
    Viewers = {v1, v2}
    Pinner = pinner
    Captures = {s1, s2}
    Conns = {conn1, conn2}
    Zooms = {1, 2}
    Schemes = {TRUE}
    MaxBrowsers = 2
    MaxCalls = 1
    MaxSwitches = 2
    Holders = {client1, client2}
    Keys = {key1, key2}
    Blank = Blank
    InitAuthKey = TRUE
    HasKeyFile = TRUE
    MaxRestarts = 1
    Cells = {1, 2}
    Signals = {30, 70}
    Labels = {"", "WPA2"}
    MaxRows = 2
    Joiners = {caller1, caller2}
    SSIDs = {ssid1}
    Passwords = {right, wrong, nopass}
    Right = right
    Open = nopass
    MaxJoins = 2
    Callers = {request1}
    Ticker = ticker
    Boot = boot
    MaxRevision = 2
    Jobs = {job1, job2}
    MaxUpgrades = 1
    Listeners = {s1, s2}
    MaxPairs = 2
INVARIANTS WellFormed DesiredIsLatest Addressable FilesSettle
           ServersKnown NetworksListed PageAsRecorded AccessSurvives
PROPERTIES ManualSticks OthersUntouched NeverGoesBack
SYMMETRY Symmetry
