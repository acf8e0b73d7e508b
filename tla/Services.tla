------------------------------- MODULE Services -------------------------------
(***************************************************************************)
(* The services of the node: the scheduler, the actions, the persisted     *)
(* state, the playlist and the library, the live view, the CDP controller, *)
(* the control key, the two sides of Wi-Fi, the overlay network, the       *)
(* packages and HTTPS.  They share no state, so a behaviour picks one of   *)
(* them, its focus, and runs that one alone: the state spaces add up, and  *)
(* a behaviour of the composition is, for each of them, one of its own.    *)
(***************************************************************************)
EXTENDS Integers, Sequences, FiniteSets

CONSTANTS
    None,         \* no process, no thread
    (* the scheduler *)
    Week, Slots, Horizon, MaxEntries, Schedules, ScheduleFiles, Legacy, Targets,
    BadTime, NoAction, NoWindow,
    (* the actions *)
    Ids, Names, Typed, Modes, Playlists, MaxActions, MaxIndex, MaxKeys,
    ActionFiles, Customs, NoId, NoPlaylist,
    (* the persisted state *)
    Writers, Shows, CustomIds, Launchers, MaxHistory, MaxStates, NoMode, NoSnap,
    (* the playlist *)
    Posters, Lists, ListFiles, MaxItems, Interval, MaxPosts, NoItem, NoList,
    (* the library *)
    Uploaders, Paths, Inodes, Chunks, MaxParts, Dir, Absent,
    (* the live view *)
    Viewers, Pinner, Captures,
    (* the CDP controller *)
    Conns, Zooms, Schemes, MaxBrowsers, MaxCalls, MaxSwitches,
    (* the control key *)
    Holders, Keys, Blank, InitAuthKey, HasKeyFile, MaxRestarts,
    (* the list of networks, and the joining of one *)
    Cells, Signals, Labels, MaxRows,
    Joiners, SSIDs, Passwords, Right, Open, MaxJoins,
    (* the overlay network *)
    Callers, Ticker, Boot, MaxRevision,
    (* the packages *)
    Jobs, MaxUpgrades,
    (* HTTPS *)
    Listeners, MaxPairs

\* The bounds are numbers, and what stands for nothing is none of the things.
ASSUME BoundAssumption ==
    {MaxStates, MaxRevision, MaxUpgrades, MaxRestarts, MaxPairs, MaxBrowsers, MaxJoins,
     MaxKeys} \subseteq Nat
ASSUME NothingAssumption ==
    /\ Blank \notin Keys
    /\ None \notin Captures \cup Viewers \cup {Pinner} \cup Writers \cup Posters
                 \cup Callers \cup {Ticker, Boot} \cup Conns \cup Listeners
    /\ IsFiniteSet(Viewers)
\* There are networks, and the right password is one of those that are tried.
ASSUME NetworkAssumption == SSIDs # {} /\ Right \in Passwords
\* A show is labelled by its kind first, so that only off has the label of off.
ASSUME ShowsAssumption ==
    /\ MaxHistory \in Nat
    /\ \A m \in Shows : m.off \in BOOLEAN
    /\ \A m, n \in Shows : m.label = n.label => m.off = n.off
\* A playlist is what JSON decodes into; an id that is made is not no id.
ASSUME PlaylistAssumption ==
    /\ MaxItems \in Nat /\ Interval \in Nat \ {0}
    /\ \A c \in Lists \cup (ListFiles \ {NoList}) :
           /\ c.interval \in Int
           /\ Len(c.items) \in Nat /\ c.items = [n \in 1 .. Len(c.items) |-> c.items[n]]
           /\ \A n \in 1 .. Len(c.items) :
                  LET i == c.items[n] IN
                  /\ i = [kind |-> i.kind, src |-> i.src, id |-> i.id,
                          seconds |-> i.seconds]
                  /\ i.seconds \in Int /\ NoItem # <<i.kind, i.src>>
\* The folder of a path is a path, and what is in a folder has a path in any other
\* of that depth; an inode is no folder, and not nothing.
ASSUME LibraryAssumption ==
    /\ {Chunks, MaxParts} \subseteq Nat
    /\ Dir # Absent /\ {Dir, Absent} \cap Inodes = {}
    /\ \A p \in Paths :
           /\ Len(p) \in Nat \ {0} /\ p = [i \in 1 .. Len(p) |-> p[i]]
           /\ Len(p) > 1 => [i \in 1 .. Len(p) - 1 |-> p[i]] \in Paths
    /\ \A p, x \in Paths :
           Len(p) < Len(x) =>
               [i \in 1 .. Len(x) |-> IF i <= Len(p) THEN p[i] ELSE x[i]] \in Paths
\* 100 percent is a zoom, and a page is dark or not.
ASSUME LookAssumption == 1 \in Zooms /\ Schemes \subseteq BOOLEAN
\* An SSID is a number of its own, 0 a hidden one; a signal is a percentage.
ASSUME ScanAssumption ==
    /\ Cells \subseteq Nat \ {0} /\ IsFiniteSet(Cells) /\ Signals \subseteq Nat
    /\ MaxRows \in Nat

\* A schedule, as JSON decodes into it: times that parse are slots of the day.
Times    == 0 .. Slots - 1 \cup {BadTime}
Entries  == Seq([at : Times, action : Targets \cup {NoAction}])
Windows  == [enabled : BOOLEAN, sleep : Times, wake : Times]
Calendar == [enabled : BOOLEAN, days : [0 .. Week - 1 -> Entries],
             exceptions : Seq([date : Nat \cup {BadTime}, entries : Entries]),
             nightly : Windows]
ASSUME ScheduleAssumption ==
    /\ {Week, Slots, Horizon - 1} \subseteq Nat \ {0} /\ MaxEntries \in Nat
    /\ Horizon \in Nat /\ BadTime \notin Nat
    /\ Schedules \subseteq Calendar
    /\ ScheduleFiles \subseteq [schedule : Calendar, nightlyLoaded : BOOLEAN]
    /\ Legacy \in Windows \cup {NoWindow}

\* The slugs that somebody wrote: typed, in a file, or made of a name.
Written ==
    LET in(f) == {f[i].slug : i \in DOMAIN f} \cup {<<f[i].name>> : i \in DOMAIN f}
    IN (Typed \cup {<<n>> : n \in Names} \cup {<<Customs[i]>> : i \in DOMAIN Customs}
        \cup UNION {in(f) : f \in ActionFiles}) \ {<<>>}
\* An id is a hash, which begins no slug, and there are ids enough; a file gives
\* an id to one action.
ASSUME ActionsAssumption ==
    /\ IsFiniteSet(Ids) /\ NoId \notin Ids
    /\ MaxActions \in Nat \ {0} /\ MaxActions < Cardinality(Ids)
    /\ \A s \in Written : /\ Len(s) \in Nat /\ s = [i \in 1 .. Len(s) |-> s[i]]
                          /\ \A i \in Ids : i[1] # s[1]
    /\ Len(Customs) \in Nat /\ DOMAIN Customs = 1 .. Len(Customs)
    /\ \A f \in ActionFiles :
           /\ Len(f) \in 0 .. Cardinality(Ids) /\ f = [i \in 1 .. Len(f) |-> f[i]]
           /\ \A i \in DOMAIN f :
                  LET a == f[i] IN
                  /\ a = [id |-> a.id, slug |-> a.slug, index |-> a.index,
                          name |-> a.name, mode |-> a.mode, playlist |-> a.playlist]
                  /\ a.id \in Ids \cup {NoId}
                  /\ a.playlist \in Playlists \cup {NoPlaylist}
           /\ \A i, j \in DOMAIN f : f[i].id = f[j].id => i = j \/ f[i].id = NoId

VARIABLES focus,
          schedule, nightlyLoaded, lastKey, scheduleFile, now, firing, looked,
          items, fileSeen, actionsFile,
          mem, version, saver, snap, tmp, stateFile, writerPc, stale,
          viewerPc, startMu, cmd, running, clients, pinned, armed, graceOver,
          capture, forsaken,
          saved, rows, networks, active, done,
          profiles, inRange, joinPc, req, exists, calls, kept, overwritten, contested,
          backend, cached, serve, serveFile, staged, refresher, tsPc, loc,
          checking, upgrading, lastResult, installing, installed,
          setupComplete, settled, busy, system, count, simulated, jobPc,
          mu, step, enabled, cert, srv, keyFile, certFile, flag, pairs,
          dead, listener, up,
          ctx, zoom, port, link, driven, browser, launched, base, threadPc,
          local, asked, alone, raced, connectors,
          awake, keyOption, liveKey, agentKey, agentKeyTmp, keyFd, cookie, wizardDone,
          authPc, newKey, restarts, keySource, keyed, rotations,
          list, listFile, listSaver, listSnap, listPc, playing, posts, unsaved,
          tree, partial, content, open, moving, requests, shared

-----------------------------------------------------------------------------
S == INSTANCE Scheduler WITH
         Submissions <- Schedules, Files <- ScheduleFiles,
         file <- scheduleFile, seen <- looked

A == INSTANCE Actions WITH Files <- ActionFiles, file <- actionsFile

P == INSTANCE PersistedState WITH
         MaxChanges <- MaxStates, NoOne <- None,
         file <- stateFile, pc <- writerPc

Y == INSTANCE Playlist WITH
         Requests <- Posters, Submissions <- Lists, Files <- ListFiles,
         NoId <- NoItem, NoOne <- None,
         file <- listFile, saver <- listSaver, snap <- listSnap, pc <- listPc,
         stale <- unsaved

B == INSTANCE Library WITH
         MaxCalls <- MaxParts, Nobody <- None, calls <- requests, crowded <- shared

L == INSTANCE LiveView WITH
         Servers <- Captures, pc <- viewerPc, expired <- graceOver,
         server <- capture

C == INSTANCE Chrome WITH
         pc <- threadPc, loc <- local, calls <- asked, crowded <- connectors

G == INSTANCE Auth WITH
         Clients <- Holders, NoKey <- Blank,
         up <- awake, authKey <- keyOption, live <- liveKey, file <- agentKey,
         tmp <- agentKeyTmp, fd <- keyFd, setupComplete <- wizardDone,
         pc <- authPc, new <- newKey, source <- keySource, crowded <- rotations

N == INSTANCE WifiScan WITH SSIDs <- Cells

J == INSTANCE WifiJoin WITH Callers <- Joiners, MaxCalls <- MaxJoins, pc <- joinPc

T == INSTANCE Tailscale WITH
         NoOne <- None, MaxChanges <- MaxRevision, file <- serveFile, pc <- tsPc

K == INSTANCE Packages WITH
         MaxChanges <- MaxUpgrades, seen <- simulated, pc <- jobPc

X == INSTANCE Tls WITH Servers <- Listeners, expired <- dead, server <- listener

-----------------------------------------------------------------------------
svars == <<schedule, nightlyLoaded, lastKey, scheduleFile, now, firing, looked>>
avars == <<items, fileSeen, actionsFile>>
pvars == <<mem, version, saver, snap, tmp, stateFile, writerPc, stale>>
lvars == <<viewerPc, startMu, cmd, running, clients, pinned, armed, graceOver,
           capture, forsaken>>
nvars == <<saved, rows, networks, active, done>>
jvars == <<profiles, inRange, joinPc, req, exists, calls, kept, overwritten,
           contested>>
tvars == <<backend, cached, serve, serveFile, staged, refresher, tsPc, loc>>
kvars == <<checking, upgrading, lastResult, installing, installed,
           setupComplete, settled, busy, system, count, simulated, jobPc>>
xvars == <<mu, step, enabled, cert, srv, keyFile, certFile, flag, pairs, dead,
           listener, up>>
cvars == <<ctx, zoom, port, link, driven, browser, launched, base, threadPc,
           local, asked, alone, raced, connectors>>
gvars == <<awake, keyOption, liveKey, agentKey, agentKeyTmp, keyFd, cookie,
           wizardDone, authPc, newKey, restarts, keySource, keyed, rotations>>
yvars == <<list, listFile, listSaver, listSnap, listPc, playing, posts,
           unsaved>>
bvars == <<tree, partial, content, open, moving, requests, shared>>
vars  == <<focus, svars, avars, pvars, yvars, bvars, lvars, cvars, gvars, nvars,
            jvars, tvars, kvars, xvars>>

\* A behaviour is one of the parts, its focus.
Init ==
    /\ focus \in {"scheduler", "actions", "state", "playlist", "library", "view",
                  "page", "key", "scan", "join", "tailscale", "packages", "tls"}
    /\ S!Init /\ A!Init /\ P!Init /\ Y!NewPlaylist /\ B!NewLibrary /\ L!Init
    /\ C!NewChrome /\ G!Init /\ N!Init /\ J!Init /\ T!Init /\ K!Init /\ X!Init

Next ==
    \/ focus = "scheduler" /\ S!Next
       /\ UNCHANGED <<focus, avars, pvars, yvars, bvars, lvars, cvars, gvars,
                      nvars, jvars, tvars, kvars, xvars>>
    \/ focus = "actions" /\ A!Next
       /\ UNCHANGED <<focus, svars, pvars, yvars, bvars, lvars, cvars, gvars,
                      nvars, jvars, tvars, kvars, xvars>>
    \/ focus = "state" /\ P!Next
       /\ UNCHANGED <<focus, svars, avars, yvars, bvars, lvars, cvars, gvars,
                      nvars, jvars, tvars, kvars, xvars>>
    \/ focus = "playlist" /\ Y!Next
       /\ UNCHANGED <<focus, svars, avars, pvars, bvars, lvars, cvars, gvars,
                      nvars, jvars, tvars, kvars, xvars>>
    \/ focus = "library" /\ B!Next
       /\ UNCHANGED <<focus, svars, avars, pvars, yvars, lvars, cvars, gvars,
                      nvars, jvars, tvars, kvars, xvars>>
    \/ focus = "view" /\ L!Next
       /\ UNCHANGED <<focus, svars, avars, pvars, yvars, bvars, cvars, gvars,
                      nvars, jvars, tvars, kvars, xvars>>
    \/ focus = "page" /\ C!Next
       /\ UNCHANGED <<focus, svars, avars, pvars, yvars, bvars, lvars, gvars,
                      nvars, jvars, tvars, kvars, xvars>>
    \/ focus = "key" /\ G!Next
       /\ UNCHANGED <<focus, svars, avars, pvars, yvars, bvars, lvars, cvars,
                      nvars, jvars, tvars, kvars, xvars>>
    \/ focus = "scan" /\ N!Next
       /\ UNCHANGED <<focus, svars, avars, pvars, yvars, bvars, lvars, cvars,
                      gvars, jvars, tvars, kvars, xvars>>
    \/ focus = "join" /\ J!Next
       /\ UNCHANGED <<focus, svars, avars, pvars, yvars, bvars, lvars, cvars,
                      gvars, nvars, tvars, kvars, xvars>>
    \/ focus = "tailscale" /\ T!Next
       /\ UNCHANGED <<focus, svars, avars, pvars, yvars, bvars, lvars, cvars,
                      gvars, nvars, jvars, kvars, xvars>>
    \/ focus = "packages" /\ K!Next
       /\ UNCHANGED <<focus, svars, avars, pvars, yvars, bvars, lvars, cvars,
                      gvars, nvars, jvars, tvars, xvars>>
    \/ focus = "tls" /\ X!Next
       /\ UNCHANGED <<focus, svars, avars, pvars, yvars, bvars, lvars, cvars,
                      gvars, nvars, jvars, tvars, kvars>>

Spec == Init /\ [][Next]_vars

-----------------------------------------------------------------------------
\* Every service keeps its types; what the scheduler keeps is sorted and parses.
WellFormed ==
    CASE focus = "scheduler" -> S!TypeOK
      [] focus = "actions"   -> A!TypeOK
      [] focus = "state"     -> P!TypeOK
      [] focus = "playlist"  -> Y!TypeOK
      [] focus = "library"   -> B!TypeOK
      [] focus = "view"      -> L!TypeOK
      [] focus = "page"      -> C!TypeOK
      [] focus = "key"       -> G!TypeOK
      [] focus = "scan"      -> N!TypeOK
      [] focus = "join"      -> J!TypeOK
      [] focus = "tailscale" -> T!TypeOK
      [] focus = "packages"  -> K!TypeOK
      [] focus = "tls"       -> X!TypeOK

\* The scheduler finds the transition that is due (weekly.go, desiredLocked).
DesiredIsLatest == focus = "scheduler" => S!DesiredIsLatest

\* A manual switch sticks until the next transition, and the legacy window is
\* migrated once (weekly.go, tick, MigrateNightly).
ManualSticks == S!ManualSticks /\ S!LegacyStaysGone

\* What the UI addresses by a slug, id, label or name is one thing: slugs and ids
\* tell the actions apart, their order outlives a restart, and a playlist action
\* plays its own items (actions.go); the history has one entry for each label,
\* the active one first, and the custom modes one for each id (state.go).  A name
\* in the library is one whole upload (library.go, SaveFile).
Addressable ==
    /\ focus = "actions" => A!Keyed /\ A!OrderedSlice /\ A!PlaysItsOwn
    /\ focus = "state"   => P!StateKeyed /\ P!ActiveHeadsHistory
    /\ focus = "library" => B!FilesAreWhole

\* A change of one action leaves the others as they are (actions.go).
OthersUntouched == A!OthersUntouched

\* The files hold what they should when nobody writes: state.json the state
\* (state.go), playlist.json the playlist (playlist.go).
FilesSettle ==
    /\ focus = "state"    => P!FileSettles
    /\ focus = "playlist" => Y!PlaylistSettles

\* What was written later is not undone by what was read or begun earlier:
\* state.json, the status of the overlay network, and the count of the packages
\* after an upgrade.
NeverGoesBack ==
    P!FileGoesForward /\ T!CacheNeverGoesBack /\ K!CountAfterUpgrade

\* A server that runs is the known one.  The live view has one capture server
\* at most, for somebody (vnc.go).  HTTPS is bound by the server on record only,
\* and has a certificate, also while a pair is made or after half of one was
\* (tls.go).
ServersKnown ==
    /\ focus = "view" => L!OneServer /\ L!ServerIsWatched
    /\ focus = "tls"  => X!ListenerKnown /\ X!AlwaysACert

\* The list of networks sums up the scan and the saved ones (net.go).
NetworksListed == focus = "scan" => N!ScanIsSummary

\* The page has the zoom and the colours on record, the controller is attached
\* to a Chromium that it drove and that lives, and no connection is left open,
\* whatever switches, exits and requests interleave (chrome.go).
PageAsRecorded ==
    focus = "page" => /\ C!AttachedWasDriven /\ C!AttachedToLive
                      /\ C!NothingLeaks /\ C!ShownAsRecorded

\* A failed or interrupted change of it takes away nothing that lets one in.  A
\* node that had a key has one whenever it serves, unless the key file could not
\* be read, and the one taken from the key file is the one in it, unless two
\* rotations overlapped (auth.go).  A saved network is lost to a Forget or a failed
\* query only, its password only to a save of another, failed or not, unless two
\* requests for that network overlapped (net.go).
AccessSurvives ==
    /\ focus = "key"  => G!KeyNeverLost /\ G!FileIsLive
    /\ focus = "join" => J!SavedNetworkSurvives
=============================================================================
