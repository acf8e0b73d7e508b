--------------------------------- MODULE Node ---------------------------------
(***************************************************************************)
(* The parts of the node that decide what its screen shows and that it     *)
(* shows something: the watchdog, the display service, the programme and   *)
(* the X server.  They share no state, so a behaviour picks one of them,   *)
(* its focus, and runs that one alone: the state spaces add up, and a      *)
(* behaviour of the composition is, for each of them, one of its own.      *)
(***************************************************************************)
EXTENDS Naturals, FiniteSets

CONSTANTS
    (* the watchdog *)
    WatchdogReboot, WedgeReattach, WedgeRestart, RestartLimit, DownLimit,
    MaxReboots, RebootWindow,
    (* the display service *)
    Callers, Outputs, First, Listed, Unnamed, Degrees, Zooms, CecTv, MaxCalls,
    (* the programme *)
    Requests, Pages, Films, Doc, Wizard, Cast, Off, NoMode, Nobody,
    MaxMinutes, MaxJobs, MaxFailures,
    (* the X server *)
    Delays, MaxStarts

\* The limits have the order they have in the code and the policy is of natural
\* numbers; "" is neither an output nor a caller, and a zoom of 1 the default;
\* the setup page is a mode, and the node's own goroutines are not those of
\* requests.
ASSUME LimitAssumption ==
    /\ WatchdogReboot \in BOOLEAN
    /\ {WedgeReattach, WedgeRestart, DownLimit} \subseteq Nat \ {0}
    /\ WedgeReattach <= WedgeRestart
ASSUME PolicyAssumption == MaxReboots \in Nat /\ RebootWindow \in Nat
ASSUME OutputAssumption ==
    First \in Outputs /\ Unnamed \notin Outputs \cup Callers /\ 1 \in Zooms
ASSUME GoroutineAssumption ==
    /\ Wizard \notin {Off, NoMode}
    /\ Requests \cap {"scheduler", "guard", "boot", "timer", Nobody} = {}
    /\ Nobody \notin {"scheduler", "guard", "boot", "timer"}
ASSUME BoundAssumption ==
    {MaxCalls, MaxMinutes, MaxJobs, MaxFailures, Delays, MaxStarts} \subseteq Nat

VARIABLES focus,
          netUp, kiosk, pc, online, st, wedge, wedgeRestarts, downStreak,
          ledger, goingDown, unhealed, undowned,
          backend, lit, shown, rotations, asleeps, zoom, primary, layout,
          file, screenMu, call, calls, powered,
          token, base, page, parked, docEnabled, reloading, asleep, active,
          history, setupComplete, job, castTicks, jobs, failures,
          starter, cancelled, loop, backoff, accepts, xFailures

W == INSTANCE Watchdog
D == INSTANCE Display
P == INSTANCE Programme
X == INSTANCE XServer WITH MaxFailures <- MaxStarts, failures <- xFailures

wvars == <<netUp, kiosk, pc, online, st, wedge, wedgeRestarts, downStreak,
           ledger, goingDown, unhealed, undowned>>
dvars == <<backend, lit, shown, rotations, asleeps, zoom, primary, layout,
           file, screenMu, call, calls, powered>>
pvars == <<token, base, page, parked, docEnabled, reloading, asleep, active,
           history, setupComplete, job, castTicks, jobs, failures>>
xvars == <<starter, cancelled, loop, backoff, accepts, xFailures>>
vars  == <<focus, wvars, dvars, pvars, xvars>>

Init ==
    /\ focus \in {"watchdog", "display", "programme", "xserver"}
    /\ W!Init /\ D!Init /\ P!Init /\ X!Init
    /\ focus # "watchdog" => netUp /\ kiosk = "other"

Next ==
    \/ focus = "watchdog"  /\ W!Next /\ UNCHANGED <<focus, dvars, pvars, xvars>>
    \/ focus = "display"   /\ D!Next /\ UNCHANGED <<focus, wvars, pvars, xvars>>
    \/ focus = "programme" /\ P!Next /\ UNCHANGED <<focus, wvars, dvars, xvars>>
    \/ focus = "xserver"   /\ X!Next /\ UNCHANGED <<focus, wvars, dvars, pvars>>

\* The fairness of the part in focus.
Fairness ==
    /\ WF_wvars(focus = "watchdog" /\ W!Check)
    /\ WF_wvars(focus = "watchdog" /\ W!Unwedge)
    /\ WF_wvars(focus = "watchdog" /\ W!Judge)
    /\ WF_dvars(focus = "display" /\ D!applyWaylandDisabledOutputs)
    /\ WF_pvars(focus = "programme" /\ P!guardTick)
    /\ \A g \in P!Goroutines :
           WF_pvars(focus = "programme" /\ P!Run(g))
    /\ \A c \in {"Xorg", "wm", "cursor"} :
           WF_xvars(focus = "xserver" /\ X!goesOn(c))

Spec == Init /\ [][Next]_vars /\ Fairness

-----------------------------------------------------------------------------
\* Every part keeps its types.
WellFormed ==
    CASE focus = "watchdog"  -> W!TypeOK
      [] focus = "display"   -> D!TypeOK
      [] focus = "programme" -> P!TypeOK
      [] focus = "xserver"   -> X!TypeOK

\* A mode that stays down makes the watchdog ask for at most MaxReboots
\* reboots in the window, across the reboots (watchdog.go, allowReboot).
RebootCeiling == focus = "watchdog" => W!RebootCeiling

\* A kiosk that stays without CDP while the network is up is restarted again
\* and again (watchdog.go, loop).
WedgeEscalates == focus = "watchdog" => W!WedgeEscalates

\* What Screen() recorded of an X output that it powered last is what the
\* output shows, whoever raced it (displaystate.go, Screen).
SleepIsRemembered == focus = "display" => D!SleepIsRemembered

\* The setup page is not persisted (server.go, recordActive).
SetupNotPersisted == focus = "programme" => P!SetupNotPersisted

\* A listed output does not stay on beside another one in the Wayland kiosk
\* (main.go, watchWaylandDisabledOutputs).
PanelHeldOff == D!PanelHeldOff

\* A cast ends, whatever held the token when its time was over (miracast.go).
CastEnds == P!CastEnds

\* The X server, its window manager and the cursor hider come back whenever
\* they are gone, and end after Stop (xorg.go, supervise).
BaseComesBack == X!BaseComesBack
=============================================================================
