# A TLA+ verification of sideshow

sideshow turns a small Linux machine into a screen that shows one thing at a
time: a web page, a program, a film, a mirrored phone. A Go agent
(`agent/*.go`) decides what is on screen, launches and supervises the processes
that draw it, and takes requests over HTTP. This directory holds the models of
the agent, their TLC configurations, and the proofs about them. Source lines
are quoted as `file:line` below `agent/`.

Contents: 1 inventory, 2 the modules and the code, 3 what the runs check,
4 bounds and reductions, 5 fairness, 6 proofs, 7 divergences found,
8 not modelled, 9 plan.

## 1. Inventory

### The core: one screen, several owners

| Component | State | Operations | Interacts with |
|---|---|---|---|
| **Modes** (`modes.go`) | none: a `Mode` is a type, a display path and parameters | `validate`, `equivalent`, `foreground`, `isWaylandPrimary`, `retiresWhenDone` | used by everything below |
| **Mode runner** (`supervisor.go:948-1362`) | `mode`, `state`, `cmd`, `startedAt`, a context, the channel `done`; local to the loop: `burst`, `backoff` | `start`, `runLoop`, `Stop` | owned by the supervisor; calls back `onTerminal` from its own goroutine when a mode ends by itself |
| **Supervisor** (`supervisor.go:44-946`) | `runner` (the base, drawn by a compositor), `fgRunner` (a console or KMS mode on a VT of its own), `switching` (the switch token) | `Switch`, `RestartMode`, `ReattachWeb`, `NavigateIfWeb`, `AdvanceDocument`, `ReloadWeb`, `recoverForeground`, `recoverPrimary`, `Shutdown` | HTTP handlers, scheduler, playlist, watchdog and miracast guard call it; it drives runners, VTs and Chrome, and calls `onSettle` |
| **Chrome** (`chrome.go`) | target port, the connection to the page, the zoom it re-applies | `Target`, `Attach`, `Reattach`, `Navigate`, `SetZoom`, `SetTheme`, `Detach` | called by the supervisor, by runner loops without the token, and by requests; the browser may go away at any time |
| **State** (`state.go`) | active mode, history, custom modes, setup flag | setters under `mu`, each followed by `save` under `saveMu` | all handlers; read at boot to restore the mode |

What is hard here: requests, the runners' goroutines and the main goroutine
meet on two surfaces, one VT and one browser connection; nearly every step
blocks (exec, CDP attach, `Stop`, chvt) with the lock released, and the
serialisation of callers is a flag that answers 409, which the runner loops and
`Shutdown` do not wait for. What makes it correct: the token excludes, no child
is left unsupervised, each surface has one owner, what is reported is what is
on screen, every switch ends, and an unattended end of a mode does not leave a
dark screen. For a runner: one process group at a time, none after `done`, no
relaunch after `Stop`, a crash-loop limit that is exact, and a `Stop` that
returns.

### Around it

| Component | State, operations, hard behaviour | What makes it correct |
|---|---|---|
| Weekly scheduler (`weekly.go`) | schedule, key of the last transition; a `tick` against `Set`, restarts and a clock that moves | the transition due at a time; each fires once, and a manual switch sticks until the next |
| Watchdog (`watchdog.go`) | streaks of failed checks, reboot ledger on disk | recovers a wedged page, but reboots at most so often |
| Live view (`vnc.go`) | viewers, idle timer, pin, capture server | a server while somebody looks, one at most, none a while after |
| Display (`display.go`, `displaystate.go`), power (`power.go`), CEC (`cec.go`) | rotations, layout, zoom and sleep of the outputs; external commands between reading and recording | the record agrees with the outputs; listed panels stay off |
| Content (`content.go`), Miracast guard (`miracast.go`), handlers (`server.go`) | document owner, reload, time box; all act on the screen after having looked | what is persisted was asked for; a cast ends |
| Media playlist (`playlist.go`), media library (`library.go`) | a list and its file; a tree of uploads with no lock | the file holds the list; a name holds one whole upload |
| Actions (`actions.go`) | keyed, ordered list; upsert, delete, reorder, load | unique slugs and ids, stable order, no entry lost |
| Apt (`apt.go`), setup wizard (`setup.go`) | one slot per kind of job, pending count; first-run flag | the count is never older than an upgrade; the wizard is never persisted |
| Network (`net.go`, `netssid_*.go`, `exec.go`) | scan list; saved profiles in NetworkManager | the list sums up the scan; a failed join keeps the saved networks |
| TLS (`tls.go`) | certificate pair, listener, flag | one known listener, always a matching pair |
| Tailscale (`tailscale.go`) | cached status, serve flag | a newer status is not overwritten |
| Authentication (`auth.go`) | the control key in memory and on disk | a rotation never loses the key |
| X server (`xorg.go`) | three restart loops with one context | restarted until stopped |
| Timezone, SSH keys, screenshots, logs, statistics, heartbeat, vcgen, configuration writers, web UI, installation scripts | files, one lock at most, pure I/O | not concurrency problems |

`PROJECT.json` lists every component with its status, and every hazard at its
line.

## 2. The modules and the code

**Modes** translates the classification of modes. A mode is a record of type,
display path and one abstract parameter; the syntax of parameters is left out,
their presence is not (`validate`), and `equivalent` compares them where the
code does.

**ModeRunner** is the code of one `modeRunner`. `pc` is where the goroutine of
`start` and `runLoop` is, one action per step between two blocking calls;
`stop[s]` is where the `Stop` call of goroutine `s` is. The operating system is
part of the module: a pid names a process group with a leader (live, zombie or
reaped) and possibly other members, and is free to be reused when all of them
are gone. So `killGroup` of a stale pid, a fork that survives its leader, and a
child that ignores SIGTERM are all there. `Tick` is time: it advances the
uptime, the restart delay, and the ages of the recent exits. The list `burst` of
exit times is kept as the number of exits of each age.

**RunnerContract** is the abstract specification of a runner: what the
supervisor relies on. It has four booleans (owns processes, has decided on a
launch, was asked to stop, is over) and says that a restart is decided only
before a stop was asked, that nothing is launched while something is owned, that
the end leaves nothing behind and is final, and that once asked it ends.
`Contract` in ModeRunner is the refinement mapping.

**Supervisor** is the arbiter. `pc[t]` is where a goroutine is, `loc[t]` its
local variables (the mode asked for, the base and foreground runners it read
when it took the token, the runner it created). One action is one critical
section of `s.mu`, one blocking call, or calls on distinct objects with no lock
between them. A runner is seen from outside, as RunnerContract allows: points at
which it owns a child, waits to restart it, or is over; its own goroutine takes
the actions `ChildExits`, `BackoffOver`, `Respawn`, `RespawnAttach` and the two
recoveries. Correspondence:

| Code | Actions |
|---|---|
| `Switch` and the deferred release (`137-172`) | `Switch`, `Release` |
| `switchForeground` (`178-292`) | `SwitchForeground`: `ShowSameForeground`, `CogToFront`, `CogOpen`, `ForegroundRefused`, `ReplaceForeground`, `OldForegroundStopped`, `EarlyVT`, `StartForeground`, `BackToBase`, `InstallForeground`, `ShowForeground`, `NewForegroundStopped`, `FreeBase`, `BaseFreed` |
| `switchCompositor` | `SwitchCompositor`: `YieldForeground`, `ForegroundYielded`, `SwitchOff`, `BaseOff`, `ScreenOff`, `KeepBase`, `InPlaceWeb`, `ReplaceBase` |
| `startPrimary`, `restoreWebKiosk`, `restoreBase` | `Primary`: `PrimaryRefused`, `ReplacePrimary`, `PrevStopped`, `PrepareSurface`, `StartPrimary`, `Attach`, `InstallPrimary`, `StartFailed`, `Fallback`, `StartKiosk`, `InstallKiosk` |
| `recoverForeground`, `recoverPrimary` | `RecoveryBails`, `RecoverForeground`, `RecoverPrimary`, `ReturnToBase`, `IdleScreen`, `ToX`, then `Primary` |
| `recordActive` (`server.go`) and `onSettle` (`main.go`) | `ReadStatus`, `RecordMode` |
| `ReattachWeb`, `NavigateIfWeb`, `AdvanceDocument`, `RestartMode`, `Shutdown` | the actions of those names, `Reattach`, `Navigate`, `ScrollPage`, `ForegroundDown`, `BaseDown` |

A launch, an attach, a preflight, a navigation and (if `ChvtMayFail`) a chvt may
fail: each is a choice. A runner object is an element of `Runners`; one that
nobody refers to and whose goroutine is over is garbage and its name is reused,
as Go reuses memory.

### The services

Each of these modules stands alone; the state it shares with another is the
supervisor's, and where a service acts on the screen that part is in Programme.

| Module | Code | One action is | Left out |
|---|---|---|---|
| **Chrome** | `chrome.go`, and the attach paths of `supervisor.go` | one section of `c.mu`, or one run of commands on the browser: `Connect`, `PageTarget`, `Bind`, `Publish`, `Snapshot`, `Act`, `Record`, `Drop` | the page but for zoom and colours |
| **Programme** | handlers of `server.go`, `content.go`, `miracast.go`, `power.go`, boot in `main.go` | a piece of a job between two calls; the supervisor is its token and the mode on screen | surfaces and VTs, which Supervisor has |
| **PersistedState** | `state.go` | a change under `mu`; `Snapshot`, `Write`, `Rename` of `save` | fields that are only stored |
| **Scheduler** | `weekly.go` | `Set`, `Tick` (decide and mark), `Fire`, `Advance` of the clock, `Restart` | what the action does |
| **Actions** | `actions.go` | one operation with its save, or a restart with the repairs of `load` | text of slugs |
| **Playlist** | `playlist.go`, its handler | `Set`, `Snapshot`, `save`, playing, a restart | loop, shuffle, transition |
| **Library** | `library.go`, its handlers | one system call, one chunk of an upload | safe names, symbolic links, sizes |
| **Watchdog** | `watchdog.go` | a third of a round: `Check`, `Unwedge`, `Judge` | |
| **Display** | `displaystate.go`, `display.go`, the watch in `main.go` | the code between two external commands | xrandr's output |
| **LiveView** | `vnc.go` | one section of `mu`, a launch, the port | which program captures |
| **WifiScan**, **WifiJoin** | `net.go` | a row of a scan; one nmcli call, of any number of requests | nmcli's syntax |
| **Tls** | `tls.go` | an operation under `mu`, cut at the renames and the flag | names in the certificate |
| **Tailscale** | `tailscale.go` | one call of the CLI, one section of `mu` | |
| **Packages** | `apt.go`, the installer of `setup.go` | claiming a slot, one apt run, releasing it | package names |
| **Auth** | `auth.go`, the gate in `server.go`, the key file in `main.go` | the opening, the write and the rename of the temporary file, the use of a key; a start | what a key looks like |
| **XServer** | `xorg.go` | one step of a restart loop | arguments of the children |

A fact that only a property needs is a history variable, and says so in the
declaration (`crowded`, `raced`, `stale`, `kept`, `source` ...). Several
promises hold only under a condition that the code does not establish, and the
condition is part of the property: `crowded` in Auth and Library (two requests
that share a temporary file), `source` in Auth (a start that could not read the
key file), `overwritten` and `contested` in WifiJoin (a password replaced before
it was tried; two requests for one network), `crowded` and `raced` in Chrome (two
threads that connect, or change the look of the page, at once), `forsaken` in
LiveView. Section 7 says what happens outside of it.

**Services** and **Node** compose these modules. They share no state,
so a behaviour has a `focus`, the module that runs, while the others rest in
one of their initial states: the state spaces add up instead of multiplying,
and nothing is lost, because the next-state relation of the unfocused parts
would leave the focused one unchanged. Their properties collect those of the
modules that are about the same thing (`FilesSettle` is about two files).
Both leave the constants open and are what the proofs are about;
**MCServices** is the small instance of one, `MCNode.cfg` that of the other, and
**MCModeRunner** and **MCSupervisor** those of the core.

**Ranking** is what the modules of lists sort and filter with:
`sort.SliceStable` and the loops that append what passes a test, by counting
what precedes an element. `SetToSortSeq` and `SelectSeq` answer the same, but
the provers cannot look into them.

**ModeRunnerProofs**; **SupervisorProofs**, **SupervisorSafety** and
**SupervisorScreen**, each on top of the one before; **ListProofs** (the
services that keep lists in order) and **PageProofs**, with **ServicesProofs** on
top of both; and **NodeProofs** hold the theorems. Operators marked
`Mutation:` are not part of the specifications: each is a plausible error in the
code that the property named with it in `PROJECT.json` catches.

## 3. What the runs check

| Run | Question | Shows |
|---|---|---|
| `mode_runner` | a runner of each restart policy, two concurrent `Stop` calls, children that exit, fork or ignore signals at any moment | `OneGroup`, `DoneMeansGone`, `StopIsNotAnEnd`, `StoppedForGood`, `GiveUpExactly`, `StopReturns`, and `ImplementsContract`, fairness included |
| `supervisor` | a node with an X and a Wayland kiosk, a console and a KMS mode; every request against every exit | `TokenHeld`, `NoOrphan`, `OneOwner`, `KmsOwnsScreen`, `SwitchDelivers`, `PortMatchesBase`, `RecoveryShowsBase`, `RecoveryRecordsScreen` |
| `supervisor_live` | an X node with a console mode and the cog kiosk, a chvt that may fail, and a shutdown at any time, under fairness | `ForegroundVisible`: what is installed is what the screen shows; `SwitchEnds`, `ShutdownEnds` |
| `services` | every service above, with requests, timers, failures and crashes in any order | what is written last is kept (`FilesSettle`, `NeverGoesBack`), the transition that is due and only that one fires (`DesiredIsLatest`, `ManualSticks`), what the UI names is one thing (`Addressable`, `OthersUntouched`), a failed change keeps key and networks (`AccessSurvives`), `ServersKnown`, `NetworksListed`, `PageAsRecorded` |
| `node` | watchdog, display, programme, X server, under fairness | `RebootCeiling`, `SleepIsRemembered`, `SetupNotPersisted`; `WedgeEscalates`, `PanelHeldOff`, `CastEnds`, `BaseComesBack` |
| `stranded_foreground`, `lost_base`, `refused_switch`, `wayland_respawn`, `watchdog_ceiling`, `standby_recorded`, `wifi_dropped` | what a comment of the code says, each on the least node that shows otherwise | section 7 |

How the properties relate to each other: `OneOwner` and `NoOrphan` together are
"no two Chromiums": at any moment, in the middle of a switch as well, at most one
child draws on each surface, and it is installed or in the hands of whoever
holds the token. `TokenHeld` is what makes the rest possible. `SwitchDelivers`
relates the answer a caller gets to what is installed when it gets it.
`RecoveryRecordsScreen` relates the disk to the screen at the end of an
unattended recovery. `FilesSettle` relates a file to memory at rest, after any
order of changes, saves, failures and crashes; `NeverGoesBack` is the step form:
no snapshot taken earlier overwrites one taken later. `DesiredIsLatest` compares
the code's search through the merged lists of two days with the set of all
transitions of the calendar, in an order of time and rank. `PageAsRecorded` is
four claims about one connection: it was driven onto the page, it leads to the
Chromium that lives, none is left open, and the page looks as recorded.
`AccessSurvives` relates what lets one in to what callers were told: the live key
to the key file and to the fact that there ever was one, and the saved networks
to those that were there or were answered with success, passwords included.
`RebootCeiling` counts the reboots the watchdog asked for while every check found
the mode down, through the restarts that wipe all but its ledger.

## 4. Bounds and reductions

* `mode_runner`: two pids (a third would never be used: `OneGroup` is proved for
  any number, and reuse of a pid needs one), two `Stop` calls, `FailBurst = 2`,
  `FailWindow = HealthyRun = 3` ticks, delays of 1 to 2 ticks. Crash loops,
  healthy runs that forget the burst, an exit that just leaves the window, and
  a delay that saturates all occur. The uptime saturates at `HealthyRun`, past
  which the code does not tell uptimes apart. Counts need no bound: the loop
  ends at `FailBurst` exits within the window. `FailWindow <= HealthyRun` holds
  of the code's 30 s and 30 s, and the exact crash-loop rule needs it.
* `supervisor*`: one caller. Two callers exclude each other by the token (a
  second one is answered 409 and changes nothing, which `TokenHeld` shows, and
  the theorem `SwitchesExclude` proves for any number), so a second caller adds
  nothing but the order of their `recordActive`, which waits for State (section
  9). The concurrency is between that caller, the goroutines of up to three
  runners (a base, a foreground and the one being started) and `main`.
* `supervisor_live` has two runners: enough for a base and a foreground, each
  replaced after it ended. A foreground that replaces another over a base takes
  a third, which `supervisor` has; `ForegroundVisible` is proved for any number
  (`ForegroundShown`). That the token comes back is stated as "always
  eventually free", and that Shutdown ends as "always eventually not under way",
  which says the same as leads-to does and is cheaper to check.
* `SYMMETRY`, in `supervisor` (runners, all interchangeable) and in `services`
  (clients; neither run checks liveness), and `VIEW`: the view drops what no
  action and no checked property reads: the fields of a runner that is garbage,
  the hook of one whose goroutine is over, and the mode recorded before (`active`
  occurs in the properties primed only).
  `supervisor_live` uses the view without symmetry: two states with the same
  view have the same successors up to the view, and its properties read `pc`,
  `switching`, `vt` and the surfaces, which the view keeps.
* After `Shutdown` the process exits; the model instead lets other goroutines
  go on, so `ShutdownEnds` is checked against their interference. `Shutdown`
  takes the surfaces without the token, so a switch or a recovery that meets it
  may install a child nobody stops, or leave two on a surface: the safety
  properties but `TokenHeld` and `SwitchDelivers` are claims about the time
  until it begins (`operating`). The safety runs that have no `main` do not tell
  the difference; the proofs, for any set of mains, did.
* `services`: the scheduler has a week of two days of four slots and runs for
  five days, over a tie, a disorder, an exception without and one with entries,
  a window that wraps, and a hand-edited file; three actions and one more that
  is refused, with indices up to two, enough for two actions to leave a gap
  before them (a deletion and an addition); two writers, a viewer more than a server's slot needs (two
  viewers and the pin); two rotations, two uploads and two posts at a time, so
  that each can overlap another, the latter with `MaxParts` system calls in all,
  one more than it takes for an upload whose folder was renamed to rename the
  partial file of another; two connections and two Chromiums, one of which
  dies, with two calls of the switcher and one request, and a zoom that a
  navigation resets; two Wi-Fi requests at once for one network, with the right
  password, a wrong one or none; a key that is an option, in the file, in both or
  in neither, and two rotations with two keys; two rows of a scan, which may
  share an SSID; one apt upgrade and one install. Bounds are named constants of
  the modules (`MaxIndex`, `MaxChanges`, `MaxCalls`, `MaxKeys`, `MaxPosts`,
  `MaxItems`, `MaxRows`, `MaxPairs`, `MaxRestarts`).
* `node`: the watchdog's limits are scaled down in the order they have in the
  code (re-attach before restart before reboot), with a window of four rounds and one
  reboot; two outputs, one listed, and two callers of the display; one request
  beside the schedule, the guard, the content timer and the boot; one doubling
  of the X server's delay. `MaxFailures` bounds launches that fail, without
  which a cast could be given back and fail for ever.
* `watchdog_ceiling` has its own limits: two reboots in a window of twelve
  rounds, and a mode that is never found down. `standby_recorded` has two
  requests and three jobs. `wifi_dropped` has two requests.
* `CHECK_DEADLOCK FALSE` for `mode_runner`, because a runner that is over stays
  so, and for the runs of Services, Node and their parts, because a service
  whose bounded calls are used up stops. In Supervisor no step ever leaves everybody waiting.

## 5. Fairness

Weak fairness of the goroutines the Go scheduler runs: a runner's loop, a `Stop`
call that has begun, a switch that has begun, `main` once it shuts down, and a
recovery. Timers expire (`Tick`, `GraceExpires`). In Supervisor a child whose
runner was told to stop goes away: that is what `StopReturns` shows of
ModeRunner, where it follows from SIGKILL and not from an assumption about the
child. No request, no exit of a healthy child and no failure is ever assumed.

In `node`: the watchdog's loop and the display's watch have tickers, so their
rounds go on; the Miracast guard has one too, and a job that has begun goes on,
the holder of the switch token included (Supervisor's `SwitchEnds`); each
restart loop of the X server goes on, and a child whose context is cancelled is
killed. Nobody has to switch, plug in an output, or let a launch succeed.
`WedgeEscalates` is stated for a node where the network stays up and no reboot is
under way.

## 6. Proofs

All theorems hold for every value of the constants that satisfies the named
assumptions: `PidAssumption`, `PolicyAssumption` (positive policy constants,
`BackoffMin <= BackoffMax`, `FailWindow <= HealthyRun`), for Supervisor
`ThreadAssumption`, `VTAssumption` and `ModeAssumption`, and those that
Services.tla and Node.tla name:

| Assumption | Why the code justifies it |
|---|---|
| `BoundAssumption`, `NothingAssumption` | bounds are numbers; what stands for "none" is none of the things; there are finitely many viewers |
| `NetworkAssumption`, `ScanAssumption` | a join has a network and the right password among those tried; a signal is a percentage, an SSID stands for itself |
| `ScheduleAssumption` | a schedule is what JSON decodes into: times that parse are slots of a day, of a week of at least one day |
| `ActionsAssumption` | an id is a hash of 16 hex digits, of which enough are left, and no slug that somebody wrote begins with one, so a key is not both; `actions.json` has no id twice (section 7) |
| `ShowsAssumption` | a label begins with the kind of the mode (`modes.go:300-329`), so only off has the label of off |
| `PlaylistAssumption` | items are what JSON decodes into, and an id made of kind and source is not the empty one |
| `LibraryAssumption` | the folder of a path is a path; that what is in a folder has a path in every folder of the same depth is the shape of the bounded tree, not a restriction of the code |
| `LookAssumption` | 100 % is a zoom (`chrome.go:352-362`), and a colour scheme is dark or not |
| Node's `LimitAssumption`, `PolicyAssumption`, `OutputAssumption`, `GoroutineAssumption`, `BoundAssumption` | the watchdog's limits are positive and re-attaching comes before restarting; "" is no output and no caller; the wizard's page is not "off"; a goroutine is one of the loops or a request, never two of them |

**A runner never owns two process groups and leaves none behind**
(`NeverTwoGroups`, `NothingLeftBehind`). Neither is inductive: that a launch
finds nothing to collide with depends on where the loop is. `IInv` says for each
program point which groups can exist: none before a launch and after an end;
while a child runs, at most the one the loop's local variable names; after
`LoopTop` killed it, no fork of it; at `top` the recorded child is that one.
`LoopIInv` and `StopIInv` show that the loop and a concurrent `Stop` (which may
kill a stale pid) keep it. `EndInv` adds that `done` means the loop has ended
and that a `Stop` that returned has seen it: `StopIsFinal`.

**Stopping** (`IntentionalStop`) is an action property: the three checks of the
context come before the retire and crash decisions. That a restart is not
decided on once a stop was asked, and that a launch decided on before is killed
all the same, is in the refinement.

**The crash-loop rule** (`CrashLoopRule`) relates the loop's own list, which it
empties after a healthy run, to all exits in the last `failWindow`, a history
variable. `RateInv` says the two are equal, because until its own exit is
accounted no exit younger than the current child counts; so whatever a healthy
run (at least `FailWindow` long) forgets has left the window already. This is
where `FailWindow <= HealthyRun` is needed, and a change of one constant in the
code would break it. `WellTyped` is its typing half.

**Refinement** (`RunnerKeepsContract`): the initial states map to the contract's,
and every step maps to a step or a stutter; the loop invariant supplies that a
launch happens with nothing owned and an end leaves nothing. Only the safety
part is proved.

**The switch token** (`SwitchesExclude`): for any number of callers, runners and
modes the token is taken exactly while one goroutine runs token code. The
inductive form adds that `pc` is a function on the threads; each action either
claims a free token from `idle`, releases it from `release`, or moves within the
points that hold it, or within those that do not, which is one lemma per group
of actions.

**Types of the supervisor** (`SupervisorTyped`): a recovery
or a navigation never makes up a mode nobody asked for. `AnyMode` is closed under
everything the code does to a mode (`ModeFacts`, which needs `ModeAssumption`:
modes are records of three fields). A navigation computes the new mode when it
takes the token and stores it later, so the proof carries `NavigateInv`, which
survives the steps in between only because of `TokenHeld`.

**Who owns the surfaces** (SupervisorSafety: `NoChildOrphaned`,
`EachSurfaceOwned`, `KmsAloneOnScreen`, `SwitchesDeliver`, `RecoveriesRecord`).
None of them is inductive: between two blocking calls a runner is in the hands
of whoever holds the token, in a local variable. `Arranged(t)` says, for each
point at which the holder `t` can be, which of its locals name which installed
or uninstalled runner (`Surfaces`, `InHand`), what mode it works for (`Wanted`),
that everything with a child is installed or in one of those locals (`Homed`),
and what a switch that will report success has installed (`Delivers`).
`ScreenInv` asks it of the holder, or, when the token is free, of a goroutine
that is idle, so that a claim of the token starts from it. The loops of the
runners act without the token: `LoopStep` is all that such a step can do to a
runner (its child comes and goes, its hook is set, its mode stays), and
`LoopKeeps` shows that nobody's arrangement notices. There is a lemma for each
group of the holder's actions. That a mode is foreground or of a base is a
matter of its type, which a navigation keeps; this is where the typing theorem
is used (`TypeInv`).

**What is on screen** (SupervisorScreen: `PortFollowsBase`, `RecoveryShown`,
`ForegroundShown`). Three notes go with the arrangement: the port the holder has
aimed the controller at, the VT it has activated for a base, and the VT under an
installed foreground. `ForegroundShown` assumes `XNode`, a node that offers no
Wayland mode, because on the others it is false (`wayland_respawn`), and both
VT theorems assume VT numbers that are not 0: with 0 the code does not switch.

**The services** (ServicesProofs). A behaviour of Services is, for each part,
one of that part (the lemmas named `Alone`: a step of another focus stutters), so
each part has an inductive invariant of its own, over the locals of its calls.

* `RunningServersKnown`. The live view: only the call that holds `startMu`
  launches, and then nothing is recorded as running; the count of viewers is the
  number of those inside (`Inside`), which makes "for somebody" inductive.
  HTTPS: what listens next has a certificate and what is renamed next was made,
  at whichever step the holder of `mu` is cut off by a crash.
* `WrittenFilesSettle`. Whoever holds `saveMu` has a snapshot that is no older
  than the file, and unless another save is still to come it is what is in
  memory; `PlaylistInv` is the same of the playlist. Hence also the state's part of
  `LaterPrevails`; the others are Tailscale's (the refresh lock orders the polls,
  and what a holder has fetched is not older than the cache) and the packages'
  (the count after an upgrade was simulated after it).
* `AccessKept`, for any number of clients and requests at once. A rotation
  opens a temporary file, writes it, renames it, then uses the key: as long as no
  two rotations overlapped, `RotationInv` says which of the three holds the new
  key at each point, that nobody has the key file itself open, and that what a
  restart would resolve (the option, else the file) is not empty once there was a
  key. `JoinInv` says that a request about to drop or add a profile works on a
  network of which nothing is kept, and that two requests at work on one network
  are on record as having contested it, so that what the proof says of one
  request is not undone by another. What the property excepts is in
  section 7: shared temporary files, the unreadable file, the replaced password,
  the failed query, and what the run `wifi_dropped` shows.

**The page** (PageProofs: `PageShown`). Three threads call the CDP controller,
and each reads the fields, runs commands with no lock held and records what it
did, while the browser may die at any point. `PageInv` says of every call in
progress what it owes: the connection it is about to publish is open, to the
Chromium that runs, and nobody else's (`Published`); one that was published and
not driven yet belongs to a call that will navigate on it or drop it
(`WillBeDriven`); a connection to a Chromium that died is about to be replaced
(`LeadsToLive`). For the look of the page, what a call has read is still so as
long as it runs alone (`Alone`), and `LooksRight` says that the page is as
recorded, or that a call is about to make it so, or that the last change of the
look overlapped another call or failed. The proof first reduces each action to
what it does to single fields (`PageStep`, with a lemma from each definition) and
then takes the parts of the invariant one by one. It assumes nothing of zooms and
colour schemes but that "no connection" is not a connection.

**The watchdog and the display** (NodeProofs). `CeilingKept`: a reboot wipes
every counter but the ledger, so the proof relates the ledger to the history:
`CeilingInv` says that every recent reboot asked for while the mode was down is
on it, and that it holds at most `MaxReboots` recent ones. `clearLedger` is what
makes this delicate: the ledger is wiped when a round finds the mode up, and the
invariant adds that in such a round the history is empty too. (Of the wider
promise, for any broken mode, that is not so: `watchdog_ceiling`.) It adds as
well that no age of 0 is on the ledger until a round asks, which is why a set of
ages stands for the file. `Aging` bounds the recent ages of the next round by an
injection into those of this one. `SleepKept`: between powering an output and
recording it the two disagree. `SleepInv` says that only the holder of `screenMu`
can be there, that the output then is as that call asked unless a layout or the
compositor powered it meanwhile, and that every other output is as recorded;
nothing is assumed of rotations, layouts, mode switches and restarts, which run
without that lock.

**What is persisted** (NodeProofs: `SetupKept`). That the setup page is not
persisted is not inductive: between reading the status and writing it a job has
no token, and whatever is on screen then has nothing to do with what it writes.
`ProgrammeInv` adds that a job about to persist has not read the setup page
(`recordActive` looks), and that the Miracast guard, which persists nothing but
what it switches to, switches to another page: it takes it from the history, so
the history has to be free of the setup page too. `Without`, `PutFirst` and
`LeastIndex` are the lemmas about the history. `NodeTyped` is the types of the
four parts: a counter of the watchdog stays below the limit at which it acts.

**Lists in order** (ListProofs). It starts with the lemmas about Ranking, for
every finite set and strict total order: `ArrangedFacts` (each element once, in
order), `KeptFacts`, `SortFacts` and `SortedInPlace` (what is sorted stays as it
is), and with `Iterates`, what a list built one element at a time has in the
end. The library's theorems on induction take an operator and cannot be used, so
a list is walked along the least position at which a claim would fail
(`LeastNumber`, from the well-foundedness of the natural numbers).

* *The schedule* (`DueIsLatest`, `SwitchSticks`). `SanitizeClean`: whatever is
  submitted or read becomes clean (sorted, parsing, short), and what is clean is
  not changed by cleaning, so the file is the memory after a restart.
  `EffectiveFacts`: the merge with the window is sorted and has the transitions
  of that day, exceptions included; hence `DesiredLatest`, for the search of two
  days. `SchedInv` says further that `lastKey` is what was due when `tick` last
  looked, and `DueSticks` that the same stays due until a transition is crossed:
  this is what a midnight, which changes the day searched but not the transition,
  needs.
* *The networks* (`ScanSumsUp`). `ScanInv`: after each row the list has one
  entry for each SSID seen so far, and it says what those rows together say
  (`RowStep`); the end sorts it and adds the saved ones (`FinishStep`).
* *The actions* (`OthersKept`, and `NamesApart` below). `GoodLists` are the lists
  in which slugs and ids tell apart, indices grow and playlists play themselves.
  Every operation keeps them (`UpsertGood`, `KeptGood`, `ReorderedGood`,
  `NormalizedFile` for a file edited by hand, `SeededGood` for the migration);
  `UniqueSlug` finds a free slug by counting. `ActInv` adds that what loading the
  file would give is the list in memory up to its numbering, which is what a
  restart needs.

**Names** (ServicesProofs: `NamesApart`). For the actions, `ActInv`. For the
state, `GoodState` of what is in memory, in every snapshot under way and in the
file, because a restart takes up what some interrupted save left: the history
has one entry for each label, only its first can be the active mode, and custom
modes have ids of their own. For the library, `LibInv`: whatever bears a name or
is being uploaded stands in a folder (`Standing`), so a move takes all of a folder;
and, until two uploads shared a temporary file, no inode is under two temporary
names or open twice, what is open has no name yet, and all its chunks so far are
of the request that has it open (`Sound`). A move brings to each path what was at its
place below the source, and at most one path gets it (`Drawn`).

**Types of the services** (ServicesProofs: `ServicesTyped`). Most are parts of the
invariants above. Two are not plain: the counter of launches bounds what every
call in PageProofs remembers of a Chromium (`Bounded` in `PageInv`), and the
playlist in memory is what cleaning leaves of any submission or file
(`PlaylistTypes`), cleaning being idempotent for what is clean.

**What is not proved.** Every safety property, invariant and action property that
a passing run checks is a theorem. Liveness under fairness is out of the prover's
reach and stays with TLC: `StopReturns`, `SwitchEnds`, `ShutdownEnds`,
`WedgeEscalates`, `PanelHeldOff`, `CastEnds`, `BaseComesBack`, and the fairness
half of `ImplementsContract`. So do the runs that show a violation. One theorem
assumes more than the run's property: `ForegroundShown` a node without a Wayland
mode.

## 7. Divergences found

1. `stranded_foreground`. `recoverForeground` (`supervisor.go:303`) gives up
   when a switch is in progress, on the assumption that the switch owns the
   screen; but that switch may be the one that has just installed the runner
   which ended. It stays installed, dead, on the mode VT, and nothing retries.
   The comment at `963-967` says the hook exists so that this cannot happen.
2. `lost_base`. `switchForeground` (`217`) notes the base to bring back from
   the installed base. After a KMS mode there is none, though the KMS mode's
   runner knew it: kiosk, film, console app, exit ends on an idle screen.
3. `refused_switch`. `switchCompositor` (`379`) stops the foreground mode
   before preflight can refuse the new one; the screen stays on the mode's VT
   although comments at `445` and `878-880` promise the opposite.
4. `wayland_respawn`. A Wayland base that is restarted while a foreground mode
   covers it activates its own VT (`1132`).
5. `watchdog_ceiling`. A wedged kiosk runs, so `health` is "ok" and
   `clearLedger` (`watchdog.go:107`) erases what `allowReboot` wrote in the same
   round. The ceiling that comments at `75-76` and `130-133` promise does not
   hold on the wedge path: a reboot about every six minutes, without end.
6. `standby_recorded`. `recordActive` (`server.go:1213`) reads the status after
   the token is released, so a switch that a standby overtakes persists "off",
   against the comment at `1211-1212`.
7. `wifi_dropped`. Two joins of one new network both find nothing saved
   (`net.go:425`); the one that fails deletes by name what the other, answered
   with success, has saved (`468`), against the comment at `458-459`.

Smaller ones have no run:

* `supervisor.go:36` says "more than failBurst times", the code gives up at the
  `failBurst`-th (`GiveUpExactly` states what the code does).
* `RestartMode` (`supervisor.go:673`) of a running console or KMS mode asks
  `switchForeground` for the mode that is already running, which only shows it
  (`179`): the child is not replaced, against the comments at `647` and `673`.
* A hidden join of a saved network writes its password into the profile
  (`net.go:438`) before it tries it (`461`). When it is wrong, the join fails and
  the password that worked is gone, against the comment at `434` ("a failed change
  never destroys the working profile"); `SavedNetworkSurvives` excepts just these
  passwords (`overwritten`) and still claims that the network stays saved.
* Two key rotations at once share `key.tmp` (`main.go:534`): the rename of one
  makes the file that the other has just emptied the key file, which a crash
  leaves empty, against the comment at `526-529`. The key that counts may also
  differ from the one in the file until the next restart.
* A start that cannot read the key file serves without a key (`main.go:467`),
  also with `-init-auth-key`, of which the comment at `456-460` says that the node
  is keyed "before it serves a request"; and a `Stat` that fails makes
  `ensureAuthKeyFile` mint over the key that is there (`508`). A start with
  `-auth-key` goes back to that key after a rotation (`461`), and the key file
  is then not the live key. `KeyNeverLost` excepts the first, `FileIsLive`
  the third.
* `handleAuth` reads the key twice. Two uploads of one name share `<name>.uploading`
  (`library.go:195`) and may leave a file with parts of both; partial files stay
  after a crash. An upload ends with a rename by name (`library.go:215`): if its
  folder was moved away and made again meanwhile, it renames the partial file of
  another upload that is still being written (`Addressable` excepts it).
* `chrome.go:71-73` says the target "is only set between attachments"; the
  runner's loop calls `Target` (`supervisor.go:1133`) and attaches while a
  switch may be attaching. The connection published first is then leaked.
  A zoom that races a navigation may leave the page and the record apart.
* The handlers of a mode, of media and of a custom launch do not disable the
  document owner, which goes on suppressing reloads; the URL handler, a saved
  action and an output's content disable it before a switch that may be refused.
* `Content.save` and `Display.save` write in place, without a save lock.
* After a standby whose switch is answered 409 the screen is dark over a running
  mode; a rotation that ends while Screen() wakes the output is overwritten.
* The listed panel of a Wayland kiosk is not relit when the other output goes.
* `handleUpgrade` asks whether the node is busy before it claims the slot, and
  the wizard's install has a slot of its own.
* When the query of the saved networks fails, a saved one counts as new
  (`net.go:425`, `540`), and a wrong password then deletes it.
* `tls.go:217` (regenerate an expired pair) is not reached while the process has
  the pair in memory, and a crash between the two renames leaves a mismatched
  pair although the comment at `361-363` excludes it; it is replaced at the next
  start.
* Identical playlist items get identical ids. `normalizeActions`
  (`actions.go:159-192`) gives an action without an id a new one, but keeps two
  actions that a hand-edited `actions.json` gives the same id; `NamesApart`
  assumes there are none.
* The window manager is never started when the X socket takes longer than
  Start() waits for it.

## 8. Not modelled, and why

* Of the supervisor: `ReloadWeb` of the cog kiosk and `CaptureCompositor`, one
  command each; `Busy` and `OnWaylandPrimary` only read. What `Shutdown` leaves
  behind when the process exits in the middle of a switch is listed as a hazard
  and not yet stated; so is the re-attach of a base that gives up meanwhile.
* Of the page: everything but its zoom and colours; messages, scrolling and
  screenshots run on it and change nothing that is recorded.
* Of the display: resolutions, the parsing of xrandr and wlr-randr, and the
  restart of the GUI surface after a wake. CEC is a constant.
* Of the network: wired and static addressing, hostname, and the reading of the
  connected SSID through netlink: one command each, mostly parsing.
* Of the content: the conversion and paging of documents.
* Simplified: a `Set` of the schedule and its save are one step that succeeds; a
  rename in the library keeps the depth of the path; the display's primary
  output is fixed; keys have one length, so that of two writes to one file the
  later is what it holds.
* Of the services as a whole: their composition. Programme has the screen, the
  schedule's actuator, content, guard and boot together; the rest only shares
  the disk, where each has a file of its own.
* The argument building of external commands, output parsing, file formats,
  the web UI, statistics, heartbeat, configuration writers and installation
  scripts are pure data or I/O.

## 9. What could follow

1. Abstract specifications: a screen of two surfaces that Supervisor implements,
   and a register that PersistedState and Playlist implement. The invariants of
   SupervisorSafety and `StateInv` are most of what the refinement proofs need.
2. Two callers of `recordActive` in Supervisor, and the exit of the process in
   the middle of a switch (hazards listed without a property).
3. Addressing and hostname of `net.go`, `lockdown.go` and `cec.go`, which are
   left out (section 8).
