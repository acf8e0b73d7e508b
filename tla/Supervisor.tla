----------------------------- MODULE Supervisor -----------------------------
(***************************************************************************)
(* The arbiter of the screen (agent/supervisor.go, type Supervisor).       *)
(*                                                                         *)
(* Goroutines: callers (HTTP handlers, the scheduler, the playlist, the    *)
(* watchdog) run Switch, RestartMode, ReattachWeb, NavigateIfWeb and       *)
(* AdvanceDocument; each mode runner has a goroutine that supervises its   *)
(* child and, when the mode ends on its own, runs recoverForeground or     *)
(* recoverPrimary; and the main goroutine runs Shutdown.  One action is    *)
(* one critical section of s.mu, one blocking call (start, attach, Stop,   *)
(* chvt), or a run of calls on distinct objects without a lock between     *)
(* them.  pc[t] is where goroutine t is, loc[t] its local variables.       *)
(*                                                                         *)
(* A runner is what ModeRunner specifies, seen from outside: the points of *)
(* its loop at which it owns a child, waits to restart it, or is over.     *)
(* Whether an exit is one too many, and whether a launch, an attach or a   *)
(* chvt works, is a choice.                                                *)
(***************************************************************************)
EXTENDS Naturals, FiniteSets, Modes

CONSTANTS
    Callers,     \* goroutines that ask for mode changes
    Mains,       \* the goroutine that shuts down, or {} to leave it out
    Runners,     \* identities of modeRunner objects, reused when garbage
    NoRunner,    \* nil
    ModeSet,     \* the modes callers ask for
    Urls,        \* the URLs the playlist navigates to
    InitialURL,  \* the configured kiosk URL
    XVT, WaylandVT, ModeVT,   \* VT numbers; 0 means "do not switch"
    ChvtMayFail

ASSUME ThreadAssumption ==
    /\ Callers \cap Mains = {} /\ Callers \cap Runners = {}
    /\ Mains \cap Runners = {} /\ NoRunner \notin Runners

ASSUME VTAssumption ==
    XVT \in Nat /\ WaylandVT \in Nat /\ ModeVT \in Nat /\ ChvtMayFail \in BOOLEAN

\* Modes are records of these three fields, as in Modes.
ASSUME ModeAssumption ==
    \A m \in ModeSet :
        m = [type |-> m.type, display |-> m.display, param |-> m.param]

VARIABLES
    runner,     \* the compositor surface, or NoRunner
    fgRunner,   \* the foreground surface, or NoRunner
    switching,  \* the switch token is taken
    rn,         \* the runner objects
    vt,         \* the active virtual terminal
    attached,   \* the CDP controller holds a connection ...
    port,       \* ... and the browser it is targeted at
    active,     \* the mode persisted for the next boot
    pc, loc

surfaces == <<runner, fgRunner>>
cdp      == <<attached, port>>
vars == <<surfaces, switching, rn, vt, cdp, active, pc, loc>>

Threads == Callers \cup Mains \cup Runners

\* Goroutines that run this code while holding the switch token.
TokenPoints ==
    {"foreground", "cogOpen", "fgStopping", "earlyVT", "startFg",
     "installFg", "showFg", "newStopping", "freeBase", "baseStopping",
     "backToBase",
     "compositor", "yielding", "yielded", "offStopping", "off",
     "inPlace",
     "primary", "prevStopping", "surface", "startPrimary", "attachPrimary",
     "installPrimary", "startFailed", "fallback", "kiosk", "attachKiosk",
     "installKiosk",
     "returnVT", "idleScreen", "toX", "settle", "settleRecord",
     "reattach", "navigate", "scroll", "release"}

FreePoints == {"idle", "status", "record",
               "downFg", "downBase", "down"}

\* Points of a runner's own goroutine.  At ChildPoints it owns a child.
ChildPoints == {"attaching", "up", "reattaching"}
OverPoints  == {"hook", "recovering", "ended"}
RunnerPoints == {"free", "backoff", "respawn"} \cup ChildPoints \cup OverPoints

\* setURL: a web mode as it is after a navigation.
setURL(m, url) == [m EXCEPT !.param = url]

AnyMode == ModeSet \cup {ZeroMode, OffMode}
             \cup {WebKiosk(u) : u \in Urls \cup {InitialURL}}
             \cup {setURL(m, u) : m \in {n \in ModeSet : n.type = "web"},
                                 u \in Urls}
             \cup {WebKiosk(m.param) : m \in {n \in ModeSet :
                                                   n.type \in {"web", "media"}}}

RunnerRecord ==
    [mode : AnyMode, st : {"starting", "running", "failed", "stopped"},
     pt : RunnerPoints, cancel : BOOLEAN,
     hook : {"none", "foreground", "primary"}, back : AnyMode]

Ops == {"none", "switch", "restart", "other", "fgEnded", "primaryEnded"}

Locals ==
    [op : Ops, m : AnyMode, base : Runners \cup {NoRunner},
     fg : Runners \cup {NoRunner}, r : Runners \cup {NoRunner}, ok : BOOLEAN]

TypeOK ==
    /\ runner \in Runners \cup {NoRunner} /\ fgRunner \in Runners \cup {NoRunner}
    /\ switching \in BOOLEAN
    /\ rn \in [Runners -> RunnerRecord]
    /\ vt \in {XVT, WaylandVT, ModeVT}
    /\ attached \in BOOLEAN /\ port \in {"x", "wayland"}
    /\ active \in AnyMode
    /\ pc \in [Threads -> TokenPoints \cup FreePoints]
    /\ loc \in [Threads -> Locals]

-----------------------------------------------------------------------------
NoLocals == [op |-> "none", m |-> ZeroMode, base |-> NoRunner,
             fg |-> NoRunner, r |-> NoRunner, ok |-> TRUE]

FreeRunner == [mode |-> ZeroMode, st |-> "stopped", pt |-> "free",
               cancel |-> FALSE, hook |-> "none", back |-> ZeroMode]

Init ==
    /\ runner = NoRunner /\ fgRunner = NoRunner /\ switching = FALSE
    /\ rn = [r \in Runners |-> FreeRunner]
    /\ vt = XVT /\ attached = FALSE /\ port = "x"
    /\ active = ZeroMode
    /\ pc = [t \in Threads |-> "idle"]
    /\ loc = [t \in Threads |-> NoLocals]

\* A runner object nobody refers to and whose goroutine is over.
garbage(r) ==
    \/ rn[r].pt = "free"
    \/ /\ rn[r].pt = "ended" /\ r \notin {runner, fgRunner}
       /\ \A t \in Threads : r \notin {loc[t].base, loc[t].fg, loc[t].r}

isDone(r)  == rn[r].pt \in OverPoints        \* r.done is closed
gone(r)    == r \in {NoRunner} \cup {q \in Runners : isDone(q)}
alive(r)   == rn[r].st \in {"running", "starting"}

\* Mutation: any running mode is taken for the requested one.
runningAny(r, m)  == rn[r].st = "running"

runningMode(r, m) == rn[r].st = "running" /\ equivalent(rn[r].mode, m)
cogUp(r)   == alive(r) /\ isCogKiosk(rn[r].mode)

primaryVT(m) == IF isWaylandPrimary(m) THEN WaylandVT ELSE XVT
cdpPort(m)   == IF isWayland(m) THEN "wayland" ELSE "x"

\* Mutation: recovery always lands on X.
baseVTIsX == XVT

\* The VT of the installed base.
baseVT       == IF runner # NoRunner THEN primaryVT(rn[runner].mode) ELSE XVT

\* m.str("url"): a media file is a URL as well.
urlOf(m) == IF m.type \in {"web", "media"} THEN m.param ELSE InitialURL

\* Status(): the mode on screen.
Status == IF fgRunner # NoRunner THEN rn[fgRunner].mode
          ELSE IF runner # NoRunner THEN rn[runner].mode ELSE OffMode

activateVT(n) == vt' = IF n > 0 THEN n ELSE vt
chvtFails(n)  == n > 0 /\ ChvtMayFail /\ UNCHANGED vt
tryVT(n)      == activateVT(n) \/ chvtFails(n)

\* Stop(r) begins: r.cancel().
cancelled(r) == [rn EXCEPT ![r].cancel = TRUE]

goto(t, point)   == pc' = [pc EXCEPT ![t] = point]
finish(t, ok)    == /\ goto(t, "release")
                    /\ loc' = [loc EXCEPT ![t].ok = ok]

\* Goroutine t, or the goroutine of runner r, runs and is at a point.
at(t, point)     == pc[t] = point
loopAt(r, point) == rn[r].pt = point

-----------------------------------------------------------------------------
(* Claiming and releasing the switch token. *)

\* Mutation: the token is taken without looking whether it is free.
claimBlindly(t, point, locals) ==
    /\ at(t, "idle")
    /\ switching' = TRUE
    /\ goto(t, point)
    /\ loc' = [loc EXCEPT ![t] = locals]

claim(t, point, locals) ==
    /\ ~switching /\ at(t, "idle")
    /\ switching' = TRUE
    /\ goto(t, point)
    /\ loc' = [loc EXCEPT ![t] = locals]

\* A Switch to an invalid mode answers 400, one while the token is taken 409;
\* neither changes anything.
Switch(t, m) ==
    /\ validate(m)
    /\ claim(t,
         IF ~foreground(m) THEN "compositor"
         ELSE IF /\ runner # NoRunner /\ isWaylandPrimary(rn[runner].mode)
                 /\ ModeVT = WaylandVT
         THEN "release" ELSE "foreground",
         [op |-> "switch", m |-> m, base |-> runner, fg |-> fgRunner,
          r |-> NoRunner,
          ok |-> ~ /\ foreground(m) /\ runner # NoRunner
                   /\ isWaylandPrimary(rn[runner].mode) /\ ModeVT = WaylandVT])
    /\ UNCHANGED <<surfaces, rn, vt, cdp, active>>

\* RestartMode relaunches what is on screen.
RestartMode(t) ==
    /\ claim(t,
         IF fgRunner # NoRunner THEN "foreground"
         ELSE IF runner # NoRunner THEN "primary" ELSE "release",
         [op |-> "restart",
          m |-> IF fgRunner # NoRunner \/ runner # NoRunner
                THEN Status ELSE ZeroMode,
          base |-> runner, fg |-> fgRunner, r |-> NoRunner, ok |-> TRUE])
    /\ UNCHANGED <<surfaces, rn, vt, cdp, active>>

webOnScreen == /\ fgRunner = NoRunner /\ runner # NoRunner
               /\ rn[runner].mode.type = "web" /\ alive(runner)

onBase(m) == [NoLocals EXCEPT !.op = "other", !.m = m, !.base = runner]

\* ReattachWeb only when a live web base is on screen and CDP is detached;
\* NavigateIfWeb and AdvanceDocument only when a live web base is on screen.
ReattachWeb(t) ==
    /\ webOnScreen /\ ~attached
    /\ claim(t, "reattach", onBase(rn[runner].mode))
    /\ UNCHANGED <<surfaces, rn, vt, cdp, active>>

NavigateIfWeb(t, url) ==
    /\ webOnScreen
    /\ claim(t, "navigate", onBase(setURL(rn[runner].mode, url)))
    /\ UNCHANGED <<surfaces, rn, vt, cdp, active>>

AdvanceDocument(t) ==
    /\ webOnScreen
    /\ claim(t, "scroll", onBase(ZeroMode))
    /\ UNCHANGED <<surfaces, rn, vt, cdp, active>>

\* The deferred release.  The handler of a successful switch goes on to
\* record what is on screen; a recovery ends its runner's goroutine.
Release(t) ==
    /\ at(t, "release")
    /\ switching' = FALSE
    /\ goto(t, IF loc[t].op = "switch" /\ loc[t].ok THEN "status" ELSE "idle")
    /\ loc' = [loc EXCEPT ![t] = NoLocals]
    /\ rn' = IF t \in Runners THEN [rn EXCEPT ![t].pt = "ended"] ELSE rn
    /\ UNCHANGED <<surfaces, vt, cdp, active>>

\* Mutation: the status is turned into a mode without its parameters.
ReadStatusBare(t, from, to) ==
    /\ at(t, from)
    /\ loc' = [loc EXCEPT ![t].m = [Status EXCEPT !.param = ""]]
    /\ goto(t, to)
    /\ UNCHANGED <<surfaces, switching, rn, vt, cdp, active>>

\* recordActive: read Status(), then persist it.
ReadStatus(t, from, to) ==
    /\ at(t, from)
    /\ loc' = [loc EXCEPT ![t].m = Status]
    /\ goto(t, to)
    /\ UNCHANGED <<surfaces, switching, rn, vt, cdp, active>>

RecordMode(t) ==
    /\ at(t, "record") \/ at(t, "settleRecord")
    /\ active' = loc[t].m
    /\ IF pc[t] = "record"
       THEN goto(t, "idle") /\ loc' = [loc EXCEPT ![t] = NoLocals]
       ELSE goto(t, "release") /\ UNCHANGED loc
    /\ UNCHANGED <<surfaces, switching, rn, vt, cdp>>

-----------------------------------------------------------------------------
(* switchForeground. *)

sameForeground(t) ==
    loc[t].fg # NoRunner /\ runningMode(loc[t].fg, loc[t].m)

cogInPlace(t) ==
    loc[t].fg # NoRunner /\ cogUp(loc[t].fg) /\ isCogKiosk(loc[t].m)

ShowSameForeground(t) ==
    /\ at(t, "foreground") /\ sameForeground(t)
    /\ \/ activateVT(ModeVT) /\ finish(t, TRUE)
       \/ chvtFails(ModeVT) /\ finish(t, FALSE)
    /\ UNCHANGED <<surfaces, switching, rn, cdp, active>>

CogToFront(t) ==
    /\ at(t, "foreground") /\ ~sameForeground(t) /\ cogInPlace(t)
    /\ \/ activateVT(ModeVT) /\ goto(t, "cogOpen") /\ UNCHANGED loc
       \/ chvtFails(ModeVT) /\ finish(t, FALSE)
    /\ UNCHANGED <<surfaces, switching, rn, cdp, active>>

\* cogctl open, and the mode recorded on the runner if it is still installed.
CogOpen(t) ==
    /\ at(t, "cogOpen")
    /\ \/ /\ finish(t, TRUE)
          /\ rn' = IF fgRunner = loc[t].fg
                   THEN [rn EXCEPT ![loc[t].fg].mode = loc[t].m] ELSE rn
       \/ finish(t, FALSE) /\ UNCHANGED rn
    /\ UNCHANGED <<surfaces, switching, vt, cdp, active>>

\* preflight refuses: nothing was torn down yet.
ForegroundRefused(t) ==
    /\ at(t, "foreground") /\ ~sameForeground(t) /\ ~cogInPlace(t)
    /\ finish(t, FALSE)
    /\ UNCHANGED <<surfaces, switching, rn, vt, cdp, active>>

\* The mode VT is free: note the base that a KMS mode will have to bring back.
foregroundFree(t) ==
    /\ goto(t, IF isCogKiosk(loc[t].m) THEN "earlyVT" ELSE "startFg")
    /\ loc' = [loc EXCEPT ![t].base = runner]

\* preflight passes: the current foreground mode is uninstalled and stopped.
ReplaceForeground(t) ==
    /\ at(t, "foreground") /\ ~sameForeground(t) /\ ~cogInPlace(t)
    /\ loc[t].m.type # "off"
    /\ IF loc[t].fg # NoRunner
       THEN /\ fgRunner' = NoRunner /\ rn' = cancelled(loc[t].fg)
            /\ goto(t, "fgStopping") /\ UNCHANGED loc
       ELSE foregroundFree(t) /\ UNCHANGED <<fgRunner, rn>>
    /\ UNCHANGED <<runner, switching, vt, cdp, active>>

OldForegroundStopped(t) ==
    /\ at(t, "fgStopping") /\ isDone(loc[t].fg)
    /\ foregroundFree(t)
    /\ UNCHANGED <<surfaces, switching, rn, vt, cdp, active>>

\* Mutation: a failed chvt does not stop the launch.
EarlyVTIgnored(t) ==
    /\ at(t, "earlyVT")
    /\ tryVT(ModeVT)
    /\ goto(t, "startFg")
    /\ UNCHANGED <<surfaces, switching, rn, cdp, active, loc>>

\* cog needs the mode VT before it starts.
EarlyVT(t) ==
    /\ at(t, "earlyVT")
    /\ \/ activateVT(ModeVT) /\ goto(t, "startFg")
       \/ chvtFails(ModeVT) /\ goto(t, "backToBase")
    /\ UNCHANGED <<surfaces, switching, rn, cdp, active, loc>>

\* currentBaseMode(): what a mode that tears the base down must bring back.
currentBaseMode(base) == IF base = NoRunner THEN ZeroMode ELSE rn[base].mode

newRunner(m, point, hook, back) ==
    [mode |-> m, st |-> IF point = "up" THEN "running" ELSE "starting",
     pt |-> point, cancel |-> FALSE, hook |-> hook, back |-> back]

\* newModeRunner and start(): foreground children have no controller to
\* attach, so the runner is up when start() returns.
StartForeground(t) ==
    /\ at(t, "startFg")
    /\ \/ \E r \in Runners :
            /\ garbage(r)
            /\ rn' = [rn EXCEPT ![r] = newRunner(loc[t].m, "up", "foreground",
                                     currentBaseMode(loc[t].base))]
            /\ loc' = [loc EXCEPT ![t].r = r]
            /\ goto(t, "installFg")
       \/ goto(t, "backToBase") /\ UNCHANGED <<rn, loc>>
    /\ UNCHANGED <<surfaces, switching, vt, cdp, active>>

BackToBase(t) ==
    /\ at(t, "backToBase")
    /\ tryVT(baseVT)
    /\ finish(t, FALSE)
    /\ UNCHANGED <<surfaces, switching, rn, cdp, active>>

InstallForeground(t) ==
    /\ at(t, "installFg")
    /\ fgRunner' = loc[t].r
    /\ goto(t, IF isCogKiosk(loc[t].m) THEN "freeBase" ELSE "showFg")
    /\ UNCHANGED <<runner, switching, rn, vt, cdp, active, loc>>

\* chvt to the mode VT; if it fails the new foreground is torn down again.
ShowForeground(t) ==
    /\ at(t, "showFg")
    /\ \/ /\ activateVT(ModeVT) /\ goto(t, "freeBase")
          /\ UNCHANGED <<fgRunner, rn>>
       \/ /\ chvtFails(ModeVT) /\ goto(t, "newStopping")
          /\ fgRunner' = IF fgRunner = loc[t].r THEN NoRunner ELSE fgRunner
          /\ rn' = cancelled(loc[t].r)
    /\ UNCHANGED <<runner, switching, cdp, active, loc>>

NewForegroundStopped(t) ==
    /\ at(t, "newStopping") /\ isDone(loc[t].r)
    /\ finish(t, FALSE)
    /\ UNCHANGED <<surfaces, switching, rn, vt, cdp, active>>

\* Mutation: the base stays behind a KMS mode.
KeepBaseBehind(t) ==
    /\ at(t, "freeBase")
    /\ finish(t, TRUE)
    /\ UNCHANGED <<surfaces, switching, rn, vt, cdp, active>>

\* stopSuspendedBaseForKMS: a KMS mode owns the whole screen, so the base
\* behind it is uninstalled, detached and stopped.
FreeBase(t) ==
    /\ at(t, "freeBase")
    /\ IF loc[t].m.display = "kms" /\ runner # NoRunner
       THEN /\ runner' = NoRunner /\ attached' = FALSE
            /\ rn' = cancelled(runner)
            /\ goto(t, "baseStopping")
            /\ loc' = [loc EXCEPT ![t].base = runner]
       ELSE finish(t, TRUE) /\ UNCHANGED <<runner, attached, rn>>
    /\ UNCHANGED <<fgRunner, switching, vt, port, active>>

BaseFreed(t) ==
    /\ at(t, "baseStopping") /\ isDone(loc[t].base)
    /\ finish(t, TRUE)
    /\ UNCHANGED <<surfaces, switching, rn, vt, cdp, active>>

SwitchForeground(t) ==
    \/ ShowSameForeground(t) \/ CogToFront(t) \/ CogOpen(t)
    \/ ForegroundRefused(t) \/ ReplaceForeground(t)
    \/ OldForegroundStopped(t) \/ EarlyVT(t) \/ StartForeground(t)
    \/ BackToBase(t) \/ InstallForeground(t) \/ ShowForeground(t)
    \/ NewForegroundStopped(t) \/ FreeBase(t) \/ BaseFreed(t)

-----------------------------------------------------------------------------
(* switchCompositor. *)

\* Mutation: the foreground is uninstalled and waited for, but not stopped.
YieldUnasked(t) ==
    /\ at(t, "compositor")
    /\ fgRunner' = NoRunner
    /\ goto(t, IF loc[t].fg # NoRunner THEN "yielding" ELSE "yielded")
    /\ UNCHANGED <<runner, switching, rn, vt, cdp, active, loc>>

\* Any foreground mode yields first.
YieldForeground(t) ==
    /\ at(t, "compositor")
    /\ IF loc[t].fg # NoRunner
       THEN /\ fgRunner' = NoRunner /\ rn' = cancelled(loc[t].fg)
            /\ goto(t, "yielding")
       ELSE goto(t, "yielded") /\ UNCHANGED <<fgRunner, rn>>
    /\ UNCHANGED <<runner, switching, vt, cdp, active, loc>>

ForegroundYielded(t) ==
    /\ at(t, "yielding") /\ isDone(loc[t].fg)
    /\ goto(t, "yielded")
    /\ UNCHANGED <<surfaces, switching, rn, vt, cdp, active, loc>>

SwitchOff(t) ==
    /\ at(t, "yielded") /\ loc[t].m.type = "off"
    /\ IF loc[t].base # NoRunner
       THEN /\ runner' = NoRunner /\ rn' = cancelled(loc[t].base)
            /\ goto(t, "offStopping")
       ELSE goto(t, "off") /\ UNCHANGED <<runner, rn>>
    /\ UNCHANGED <<fgRunner, switching, vt, cdp, active, loc>>

BaseOff(t) ==
    /\ at(t, "offStopping") /\ isDone(loc[t].base)
    /\ goto(t, "off")
    /\ UNCHANGED <<surfaces, switching, rn, vt, cdp, active, loc>>

ScreenOff(t) ==
    /\ at(t, "off")
    /\ attached' = FALSE
    /\ tryVT(XVT)
    /\ finish(t, TRUE)
    /\ UNCHANGED <<surfaces, switching, rn, port, active>>

sameBackend(t) ==
    /\ loc[t].base # NoRunner /\ alive(loc[t].base)
    /\ rn[loc[t].base].mode.type = loc[t].m.type
    /\ rn[loc[t].base].mode.display = loc[t].m.display

cameFromForeground(t) == loc[t].fg # NoRunner

reuse(t) == /\ sameBackend(t)
            /\ \/ loc[t].m.type = "web"
               \/ equivalent(rn[loc[t].base].mode, loc[t].m)

\* The running base is kept: show its VT if a foreground mode hid it.
KeepBase(t) ==
    /\ at(t, "yielded") /\ loc[t].m.type # "off" /\ reuse(t)
    /\ IF cameFromForeground(t) THEN tryVT(primaryVT(loc[t].m)) ELSE UNCHANGED vt
    /\ IF loc[t].m.type = "web"
       THEN goto(t, "inPlace") /\ UNCHANGED loc
       ELSE finish(t, TRUE)
    /\ UNCHANGED <<surfaces, switching, rn, cdp, active>>

\* In-place web to web: re-attach (best effort) after a VT excursion or a lost
\* connection, navigate otherwise; only a failed navigation is an error.
InPlaceWeb(t) ==
    /\ at(t, "inPlace")
    /\ port' = cdpPort(loc[t].m)
    /\ \/ /\ cameFromForeground(t) \/ ~attached
          /\ attached' \in BOOLEAN
          /\ finish(t, TRUE)
          /\ rn' = IF runner = loc[t].base
                   THEN [rn EXCEPT ![runner].mode = loc[t].m] ELSE rn
       \/ /\ ~cameFromForeground(t) /\ attached
          /\ finish(t, TRUE)
          /\ rn' = IF runner = loc[t].base
                   THEN [rn EXCEPT ![runner].mode = loc[t].m] ELSE rn
          /\ UNCHANGED attached
       \/ /\ ~cameFromForeground(t) /\ attached
          /\ finish(t, FALSE)
          /\ UNCHANGED <<attached, rn>>
    /\ UNCHANGED <<surfaces, switching, vt, active>>

ReplaceBase(t) ==
    /\ at(t, "yielded") /\ loc[t].m.type # "off" /\ ~reuse(t)
    /\ goto(t, "primary")
    /\ UNCHANGED <<surfaces, switching, rn, vt, cdp, active, loc>>

SwitchCompositor(t) ==
    \/ YieldForeground(t) \/ ForegroundYielded(t)
    \/ SwitchOff(t) \/ BaseOff(t) \/ ScreenOff(t)
    \/ KeepBase(t) \/ InPlaceWeb(t) \/ ReplaceBase(t)

-----------------------------------------------------------------------------
(* startPrimary and restoreWebKiosk. *)

\* An error of startPrimary goes to the caller of Switch or RestartMode; in
\* restoreBase it leads to the default kiosk.
failPrimary(t) ==
    IF loc[t].op = "fgEnded" THEN goto(t, "fallback") /\ UNCHANGED loc
    ELSE finish(t, FALSE)

PrimaryRefused(t) ==
    /\ at(t, "primary")
    /\ failPrimary(t)
    /\ UNCHANGED <<surfaces, switching, rn, vt, cdp, active>>

\* Mutation: the old base is uninstalled and forgotten.
ForgetPrimary(t) ==
    /\ at(t, "primary")
    /\ runner' = IF runner = loc[t].base THEN NoRunner ELSE runner
    /\ goto(t, "surface")
    /\ UNCHANGED <<fgRunner, switching, rn, vt, cdp, active, loc>>

ReplacePrimary(t) ==
    /\ at(t, "primary")
    /\ IF loc[t].base # NoRunner
       THEN /\ runner' = IF runner = loc[t].base THEN NoRunner ELSE runner
            /\ rn' = cancelled(loc[t].base)
            /\ goto(t, "prevStopping")
       ELSE goto(t, "surface") /\ UNCHANGED <<runner, rn>>
    /\ UNCHANGED <<fgRunner, switching, vt, cdp, active, loc>>

\* Mutation: nobody waits for the old base to be gone.
PrevStopping(t) ==
    /\ at(t, "prevStopping")
    /\ goto(t, "surface")
    /\ UNCHANGED <<surfaces, switching, rn, vt, cdp, active, loc>>

PrevStopped(t) ==
    /\ at(t, "prevStopping") /\ isDone(loc[t].base)
    /\ goto(t, "surface")
    /\ UNCHANGED <<surfaces, switching, rn, vt, cdp, active, loc>>

\* Detach, the VT handoff (its failure is ignored), and the CDP target.
PrepareSurface(t) ==
    /\ at(t, "surface")
    /\ attached' = FALSE
    /\ tryVT(primaryVT(loc[t].m))
    /\ port' = cdpPort(loc[t].m)
    /\ goto(t, "startPrimary")
    /\ UNCHANGED <<surfaces, switching, rn, active, loc>>

\* start() up to the child being launched; a Wayland primary carries the
\* recovery hook, with the URL it was started for.
StartPrimary(t) ==
    /\ at(t, "startPrimary")
    /\ \/ \E r \in Runners :
            /\ garbage(r)
            /\ rn' = [rn EXCEPT ![r] =
                        newRunner(loc[t].m,
                          IF usesChrome(loc[t].m) THEN "attaching" ELSE "up",
                          IF isWaylandPrimary(loc[t].m) THEN "primary" ELSE "none",
                          IF isWaylandPrimary(loc[t].m)
                          THEN WebKiosk(urlOf(loc[t].m)) ELSE ZeroMode)]
            /\ loc' = [loc EXCEPT ![t].r = r]
            /\ goto(t, IF usesChrome(loc[t].m) THEN "attachPrimary"
                       ELSE "installPrimary")
       \/ goto(t, "startFailed") /\ UNCHANGED <<rn, loc>>
    /\ UNCHANGED <<surfaces, switching, vt, cdp, active>>

\* postStart: the CDP attach works or not, the mode is running either way.
Attach(t, from, to) ==
    /\ at(t, from)
    /\ attached' \in BOOLEAN
    /\ rn' = [rn EXCEPT ![loc[t].r].st = "running", ![loc[t].r].pt = "up"]
    /\ goto(t, to)
    /\ UNCHANGED <<surfaces, switching, vt, port, active, loc>>

\* After startPrimary or restoreWebKiosk: a recovery settles, a caller
\* returns.
returnFrom(t, ok) ==
    IF t \in Runners THEN goto(t, "settle") /\ UNCHANGED loc
    ELSE finish(t, ok)

InstallPrimary(t) ==
    /\ at(t, "installPrimary")
    /\ runner' = loc[t].r
    /\ returnFrom(t, TRUE)
    /\ UNCHANGED <<fgRunner, switching, rn, vt, cdp, active>>

\* The start failed: back to X, and to a web kiosk if a base was destroyed.
StartFailed(t) ==
    /\ at(t, "startFailed")
    /\ tryVT(XVT)
    /\ port' = "x"
    /\ IF loc[t].base # NoRunner THEN goto(t, "kiosk") /\ UNCHANGED loc
       ELSE failPrimary(t)
    /\ UNCHANGED <<surfaces, switching, rn, attached, active>>

\* restoreBase gives up on the hidden base: the default kiosk on X.
Fallback(t) ==
    /\ at(t, "fallback")
    /\ tryVT(XVT)
    /\ port' = "x"
    /\ loc' = [loc EXCEPT ![t].m = WebKiosk(InitialURL)]
    /\ goto(t, "kiosk")
    /\ UNCHANGED <<surfaces, switching, rn, attached, active>>

\* restoreWebKiosk: best effort, the runner is installed only if it started.
StartKiosk(t) ==
    /\ at(t, "kiosk")
    /\ \/ \E r \in Runners :
            /\ garbage(r)
            /\ rn' = [rn EXCEPT ![r] = newRunner(WebKiosk(urlOf(loc[t].m)),
                                                 "attaching", "none", ZeroMode)]
            /\ loc' = [loc EXCEPT ![t].r = r]
            /\ goto(t, "attachKiosk")
       \/ returnFrom(t, FALSE) /\ UNCHANGED rn
    /\ UNCHANGED <<surfaces, switching, vt, cdp, active>>

InstallKiosk(t) ==
    /\ at(t, "installKiosk")
    /\ runner' = loc[t].r
    /\ returnFrom(t, FALSE)
    /\ UNCHANGED <<fgRunner, switching, rn, vt, cdp, active>>

Primary(t) ==
    \/ PrimaryRefused(t) \/ ReplacePrimary(t) \/ PrevStopped(t)
    \/ PrepareSurface(t) \/ StartPrimary(t)
    \/ Attach(t, "attachPrimary", "installPrimary") \/ InstallPrimary(t)
    \/ StartFailed(t) \/ Fallback(t) \/ StartKiosk(t)
    \/ Attach(t, "attachKiosk", "installKiosk") \/ InstallKiosk(t)

-----------------------------------------------------------------------------
(* CDP operations under the token. *)

Reattach(t) ==
    /\ at(t, "reattach")
    /\ port' = cdpPort(loc[t].m)
    /\ attached' \in BOOLEAN
    /\ finish(t, attached')
    /\ UNCHANGED <<surfaces, switching, rn, vt, active>>

\* Navigate, and remember the URL on the runner's mode if it worked.
Navigate(t) ==
    /\ at(t, "navigate")
    /\ \/ /\ attached
          /\ rn' = [rn EXCEPT ![loc[t].base].mode = setURL(@, loc[t].m.param)]
          /\ finish(t, TRUE)
       \/ finish(t, FALSE) /\ UNCHANGED rn
    /\ UNCHANGED <<surfaces, switching, vt, cdp, active>>

ScrollPage(t) ==
    /\ at(t, "scroll")
    /\ finish(t, TRUE)
    /\ UNCHANGED <<surfaces, switching, rn, vt, cdp, active>>

-----------------------------------------------------------------------------
(* Recovery, in the goroutine of the runner that ended on its own. *)

\* A switch owns the screen, or this is not the installed surface any more.
RecoveryBails(r) ==
    /\ loopAt(r, "hook")
    /\ switching \/ r # (IF rn[r].hook = "foreground" THEN fgRunner ELSE runner)
    /\ rn' = [rn EXCEPT ![r].pt = "ended"]
    /\ UNCHANGED <<surfaces, switching, vt, cdp, active, pc, loc>>

RecoverForeground(r) ==
    /\ loopAt(r, "hook") /\ rn[r].hook = "foreground" /\ fgRunner = r
    /\ claim(r,
         IF runner # NoRunner THEN "returnVT"
         ELSE IF rn[r].back.type \in {"", "off"} THEN "idleScreen"
         ELSE "primary",
         [NoLocals EXCEPT !.op = "fgEnded", !.m = rn[r].back])
    /\ fgRunner' = NoRunner
    /\ rn' = [rn EXCEPT ![r].pt = "recovering"]
    /\ UNCHANGED <<runner, vt, cdp, active>>

RecoverPrimary(r) ==
    /\ loopAt(r, "hook") /\ rn[r].hook = "primary" /\ runner = r
    /\ claim(r, "toX", [NoLocals EXCEPT !.op = "primaryEnded",
                                        !.m = rn[r].back])
    /\ runner' = NoRunner
    /\ rn' = [rn EXCEPT ![r].pt = "recovering"]
    /\ UNCHANGED <<fgRunner, vt, cdp, active>>

\* The base is still there: show it.
ReturnToBase(r) ==
    /\ at(r, "returnVT")
    /\ tryVT(baseVT)
    /\ goto(r, "settle")
    /\ UNCHANGED <<surfaces, switching, rn, cdp, active, loc>>

\* restoreBase without a base to restore.
IdleScreen(r) ==
    /\ at(r, "idleScreen")
    /\ attached' = FALSE
    /\ tryVT(XVT)
    /\ goto(r, "settle")
    /\ UNCHANGED <<surfaces, switching, rn, port, active, loc>>

\* Mutation: the controller is left aimed at the Wayland browser.
ToXUntargeted(r) ==
    /\ at(r, "toX")
    /\ attached' = FALSE
    /\ tryVT(XVT)
    /\ goto(r, "kiosk")
    /\ UNCHANGED <<surfaces, switching, rn, port, active, loc>>

ToX(r) ==
    /\ at(r, "toX")
    /\ attached' = FALSE /\ port' = "x"
    /\ tryVT(XVT)
    /\ goto(r, "kiosk")
    /\ UNCHANGED <<surfaces, switching, rn, active, loc>>

-----------------------------------------------------------------------------
(* The runners' own loops (modeRunner.runLoop). *)

terminal(r, st) ==
    [rn EXCEPT ![r].st = st,
               ![r].pt = IF rn[r].hook # "none" THEN "hook" ELSE "ended"]

\* The child is gone: killed on request, done, crashed once too often, or to
\* be restarted.
ChildExits(r) ==
    /\ loopAt(r, "up")
    /\ \/ /\ rn[r].cancel
          /\ rn' = [rn EXCEPT ![r].st = "stopped", ![r].pt = "ended"]
          /\ attached' \in IF usesChrome(rn[r].mode)
                           THEN {attached, FALSE} ELSE {attached}
       \/ /\ ~rn[r].cancel
          /\ foreground(rn[r].mode) /\ retiresWhenDone(rn[r].mode)
          /\ rn' = terminal(r, "stopped")
          /\ UNCHANGED attached
       \/ /\ ~rn[r].cancel
          /\ ~ (retiresWhenDone(rn[r].mode) /\ rn[r].mode.display = "console")
          /\ \/ rn' = terminal(r, "failed")
             \/ rn' = [rn EXCEPT ![r].st = "starting", ![r].pt = "backoff"]
          /\ attached' = IF usesChrome(rn[r].mode) THEN FALSE ELSE attached
    /\ UNCHANGED <<surfaces, switching, vt, port, active, pc, loc>>

\* The restart delay is over; a Wayland primary re-asserts its VT and port.
BackoffOver(r) ==
    /\ loopAt(r, "backoff")
    /\ \/ /\ rn[r].cancel
          /\ rn' = [rn EXCEPT ![r].st = "stopped", ![r].pt = "ended"]
          /\ UNCHANGED <<vt, port>>
       \/ /\ ~rn[r].cancel
          /\ rn' = [rn EXCEPT ![r].pt = "respawn"]
          /\ IF isWaylandPrimary(rn[r].mode)
             THEN tryVT(WaylandVT) /\ port' = cdpPort(rn[r].mode)
             ELSE UNCHANGED <<vt, port>>
    /\ UNCHANGED <<surfaces, switching, attached, active, pc, loc>>

Respawn(r) ==
    /\ loopAt(r, "respawn")
    /\ \/ rn' = terminal(r, "failed")
       \/ rn' = IF usesChrome(rn[r].mode)
                THEN [rn EXCEPT ![r].pt = "reattaching"]
                ELSE [rn EXCEPT ![r].pt = "up", ![r].st = "running"]
    /\ UNCHANGED <<surfaces, switching, vt, cdp, active, pc, loc>>

RespawnAttach(r) ==
    /\ loopAt(r, "reattaching")
    /\ rn' = [rn EXCEPT ![r].pt = "up", ![r].st = "running"]
    /\ attached' \in BOOLEAN
    /\ UNCHANGED <<surfaces, switching, vt, port, active, pc, loc>>

-----------------------------------------------------------------------------
(* Shutdown, which does not take the token.  The process exits after it; the
   other goroutines are left running until then, and for good here. *)

Shutdown(t) ==
    /\ t \in Mains /\ at(t, "idle")
    /\ loc' = [loc EXCEPT ![t].base = runner, ![t].fg = fgRunner]
    /\ runner' = NoRunner /\ fgRunner' = NoRunner
    /\ rn' = IF fgRunner # NoRunner THEN cancelled(fgRunner) ELSE rn
    /\ goto(t, "downFg")
    /\ UNCHANGED <<switching, vt, cdp, active>>

\* Mutation: Shutdown waits for a base it has not stopped.
ForegroundDownOnly(t) ==
    /\ at(t, "downFg") /\ gone(loc[t].fg)
    /\ goto(t, "downBase")
    /\ UNCHANGED <<surfaces, switching, rn, vt, cdp, active, loc>>

ForegroundDown(t) ==
    /\ at(t, "downFg") /\ gone(loc[t].fg)
    /\ rn' = IF loc[t].base # NoRunner THEN cancelled(loc[t].base) ELSE rn
    /\ goto(t, "downBase")
    /\ UNCHANGED <<surfaces, switching, vt, cdp, active, loc>>

BaseDown(t) ==
    /\ at(t, "downBase") /\ gone(loc[t].base)
    /\ attached' = FALSE
    /\ tryVT(XVT)
    /\ goto(t, "down")
    /\ loc' = [loc EXCEPT ![t] = NoLocals]
    /\ UNCHANGED <<surfaces, switching, rn, port, active>>

-----------------------------------------------------------------------------
Request(t) ==
    \/ \E m \in ModeSet : Switch(t, m)
    \/ RestartMode(t) \/ ReattachWeb(t) \/ AdvanceDocument(t)
    \/ \E url \in Urls : NavigateIfWeb(t, url)

\* What a goroutine does once it has begun.
Step(t) ==
    \/ SwitchForeground(t) \/ SwitchCompositor(t) \/ Primary(t)
    \/ Reattach(t) \/ Navigate(t) \/ ScrollPage(t)
    \/ Release(t)
    \/ ReadStatus(t, "status", "record")
    \/ ReadStatus(t, "settle", "settleRecord")
    \/ RecordMode(t)
    \/ ReturnToBase(t) \/ IdleScreen(t) \/ ToX(t)
    \/ ForegroundDown(t) \/ BaseDown(t)

\* What a runner's goroutine does without waiting for its child.
RunnerStep(r) ==
    \/ RecoveryBails(r) \/ RecoverForeground(r) \/ RecoverPrimary(r)
    \/ BackoffOver(r) \/ Respawn(r) \/ RespawnAttach(r)

Next ==
    \/ \E t \in Callers : Request(t)
    \/ \E t \in Threads : Step(t)
    \/ \E r \in Runners : RunnerStep(r) \/ ChildExits(r)
    \/ \E t \in Mains : Shutdown(t)

Spec == Init /\ [][Next]_vars

\* Goroutines are scheduled, and a child whose runner was told to stop is
\* killed (ModeRunner shows it); no request, and no other exit, is forced.
Fairness ==
    /\ \A t \in Callers \cup Mains : WF_vars(Step(t))
    /\ \A r \in Runners : /\ WF_vars(Step(r) \/ RunnerStep(r))
                          /\ WF_vars(rn[r].cancel /\ ChildExits(r))

FairSpec == Spec /\ Fairness
-----------------------------------------------------------------------------
(* Properties. *)

holds(t) == pc[t] \in TokenPoints

\* Shutdown has not begun.
operating == \A t \in Mains : pc[t] = "idle"

\* The token is taken exactly while one goroutine, and no second one, runs
\* code that needs it: every early return and every recovery gives it back,
\* and none gives back a token that is somebody else's.
TokenHeld ==
    /\ \A t, u \in Threads : holds(t) /\ holds(u) => t = u
    /\ switching <=> \E t \in Threads : holds(t)

\* No child runs unsupervised until Shutdown, which takes the surfaces without
\* the token: a runner that has a child, or is about to restart one, is an
\* installed surface or in the hands of the goroutine that holds the token
\* ("could be clobbered/orphaned and leave two Chromiums on screen").
restless(r) == rn[r].pt \in ChildPoints \cup {"backoff", "respawn"}

NoOrphan ==
    operating => \A r \in Runners : restless(r) =>
        \/ r \in {runner, fgRunner}
        \/ \E t \in Threads : holds(t) /\ r \in {loc[t].base, loc[t].fg, loc[t].r}

\* Each surface has one owner at a time: a new base (or foreground) child is
\* not started before the old one is gone, in whatever way either of them ends.
OneOwner ==
    operating => \A q, r \in Runners :
        /\ restless(q) /\ restless(r)
        /\ foreground(rn[q].mode) <=> foreground(rn[r].mode)
        => q = r

\* "Exactly one VT is active, so exactly one surface is visible": between
\* switches, and until Shutdown, an installed foreground surface is the one on
\* screen, whether or not chvt works.
ForegroundVisible ==
    operating /\ ~switching /\ fgRunner # NoRunner => vt = ModeVT

\* Between switches, a full-screen KMS mode is never running over a base that
\* nobody can see ("any full-screen mode stops the previous one").
KmsOwnsScreen ==
    operating /\ ~switching /\ fgRunner # NoRunner =>
        (rn[fgRunner].mode.display = "kms" => runner = NoRunner)

\* A Switch that reports success has installed what it was asked for, and
\* nothing over it, unless Shutdown has taken it away again.
SwitchDelivers ==
    \A t \in Callers :
        operating /\ pc[t] = "release" /\ loc[t].op = "switch" /\ loc[t].ok =>
            LET m == loc[t].m IN
            CASE m.type = "off" -> runner = NoRunner /\ fgRunner = NoRunner
              [] m.type # "off" /\ foreground(m) ->
                    fgRunner # NoRunner /\ equivalent(rn[fgRunner].mode, m)
              [] OTHER -> /\ runner # NoRunner /\ fgRunner = NoRunner
                          /\ equivalent(rn[runner].mode, m)

\* Between switches the CDP controller is aimed at the browser that is the
\* base, so a re-attach never drives the browser of the other backend.
PortMatchesBase ==
    operating /\ ~switching /\ runner # NoRunner /\ usesChrome(rn[runner].mode)
        => port = cdpPort(rn[runner].mode)

\* When a foreground mode has ended on its own, the screen ends up with no
\* foreground installed and, if chvt works, on the VT of the base that was kept
\* behind it or brought back.
RecoveryShowsBase ==
    \A r \in Runners :
        operating /\ pc[r] = "release" /\ loc[r].op = "fgEnded" =>
            /\ fgRunner = NoRunner
            /\ runner # NoRunner /\ ~ChvtMayFail
                   => vt = primaryVT(rn[runner].mode)

\* What an unattended return to base persists is what it left on screen, so a
\* reboot does not relaunch the mode that retired.
RecoveryRecordsScreen ==
    [][\A r \in Runners :
           operating /\ pc[r] = "settleRecord" /\ pc'[r] = "release"
               => active' = Status]_vars

\* Every switch, restart, re-attach and recovery ends: none waits for a child,
\* a runner or a token that never comes.
SwitchEnds == []<>(~switching)

\* Shutdown ends, whatever switch or recovery it interrupts.
ShutdownEnds == \A t \in Mains : []<>(pc[t] \notin {"downFg", "downBase"})

\* The comment on onTerminal: foreground runners use it so that "a console app
\* quitting (or a console/kms crash) can't strand the only screen on the mode
\* VT".  So no foreground whose goroutine is over stays installed.
NotStranded == ~switching /\ fgRunner # NoRunner => rn[fgRunner].pt # "ended"

\* The comment on restoreBase: with no base recorded the node is one that
\* "never had" a kiosk.  So a foreground mode that replaces one with a base to
\* bring back has a base to bring back.
BaseRemembered ==
    \A t \in Callers :
        /\ fgRunner # NoRunner /\ fgRunner = loc[t].r /\ loc[t].fg # NoRunner
        /\ rn[loc[t].fg].back.type \notin {"", "off"}
        => rn[fgRunner].back.type \notin {"", "off"}

\* The comment on preflight: "a bad switch returns 400 with the working mode
\* intact rather than blanking the screen".  So, where chvt works and no Wayland
\* base moves the VT, a working base that nothing covers is on screen.
BaseVisible ==
    ~switching /\ fgRunner = NoRunner /\ runner # NoRunner /\ alive(runner)
        => vt = baseVT
=============================================================================
