------------------------------ MODULE Watchdog ------------------------------
(***************************************************************************)
(* The watchdog (agent/watchdog.go): checks the node every 30 s, reloads   *)
(* the page when the network returns, re-attaches and then restarts a web  *)
(* kiosk whose browser cannot be driven, and as a last resort reboots the  *)
(* node, at most so often, by a ledger on disk that outlives the reboot.   *)
(*                                                                         *)
(* One round of the loop is three steps, because the mode is restarted and *)
(* re-attached in between: Check reads the status, Unwedge acts on a kiosk *)
(* without CDP, Judge on a mode that is down.  Both act on what Check      *)
(* read.  `systemctl reboot` only asks: the loop goes on until Reboot.     *)
(***************************************************************************)
EXTENDS Naturals, FiniteSets

CONSTANTS
    WatchdogReboot,   \* the flag -watchdog-reboot
    WedgeReattach,    \* 2 rounds: try a re-attach
    WedgeRestart,     \* 4 rounds: restart the mode
    RestartLimit,     \* 3 restarts that did not help: reboot
    DownLimit,        \* 10 rounds down: reboot
    MaxReboots,       \* maxRebootsPerWindow
    RebootWindow      \* rebootWindow, in rounds

\* What Status() and CDPAttached() tell apart: a CDP web kiosk that runs with or
\* without a connection, a mode that is being started, one that was given up,
\* and everything else (cog, an app, off).
Kiosks == {"attached", "wedged", "starting", "failed", "other"}

VARIABLES
    netUp,            \* the network is reachable
    kiosk,            \* the mode, as Status() would show it now
    pc,               \* the loop: waiting for the ticker, or in a round
    online, st,       \* what this and the last round saw
    wedge, wedgeRestarts, downStreak,
    ledger,           \* the recorded reboots, on disk: their ages in rounds,
                      \* which differ, as a round asks for one at most
    goingDown,        \* the node was told to reboot
    unhealed,         \* history: ages of the reboots asked for since the
                      \* mode was last seen otherwise
    undowned          \* history: the same since it was last seen not down

env    == <<netUp, kiosk>>
memory == <<pc, online, st, wedge, wedgeRestarts, downStreak>>
hist   == <<unhealed, undowned>>
vars   == <<env, memory, ledger, goingDown, hist>>

older(ages) == {IF a > RebootWindow THEN a ELSE a + 1 : a \in ages}
inWindow(ages) == {a \in ages : a <= RebootWindow}

health(k) == CASE k = "failed" -> "down"
               [] k = "starting" -> "degraded"
               [] OTHER -> "ok"
broken(k) == k \in {"failed", "wedged"}

Init ==
    /\ netUp \in BOOLEAN /\ kiosk \in Kiosks
    /\ pc = "wait" /\ online = netUp /\ st = "starting"
    /\ wedge = 0 /\ wedgeRestarts = 0 /\ downStreak = 0
    /\ ledger = {} /\ goingDown = FALSE
    /\ unhealed = {} /\ undowned = {}

\* The world: the network comes and goes, the mode changes for any reason.
Disturb ==
    /\ \/ netUp' = ~netUp /\ UNCHANGED kiosk
       \/ kiosk' \in Kiosks \ {kiosk} /\ UNCHANGED netUp
    /\ UNCHANGED <<memory, ledger, goingDown, hist>>

(* One round. *)

\* ReloadWeb: the page is reloaded, or the mode restarted when CDP is lost.
reloaded(k) == IF k = "wedged" THEN Kiosks ELSE {k}

Check ==
    /\ pc = "wait" /\ pc' = "unwedge"
    /\ kiosk' \in IF netUp /\ ~online THEN reloaded(kiosk) ELSE {kiosk}
    /\ online' = netUp /\ st' = kiosk'
    /\ ledger' = older(ledger)
    /\ unhealed' = IF ~broken(st') THEN {} ELSE inWindow(older(unhealed))
    /\ undowned' = IF health(st') # "down" THEN {}
                   ELSE inWindow(older(undowned))
    /\ UNCHANGED <<netUp, wedge, wedgeRestarts, downStreak, goingDown>>

\* Mutation: one more than the maximum.
allowRebootOnceMore == Cardinality(inWindow(ledger)) <= MaxReboots

\* allowReboot, and the reboot it allows, which may fail.
allowReboot == Cardinality(inWindow(ledger)) < MaxReboots

TryReboot ==
    IF allowReboot
    THEN /\ ledger' = inWindow(ledger) \cup {0}
         /\ goingDown' \in {TRUE, goingDown}
         /\ unhealed' = unhealed \cup {0}
         /\ undowned' = IF health(st) = "down" THEN undowned \cup {0}
                        ELSE undowned
    ELSE /\ ledger' = inWindow(ledger)
         /\ UNCHANGED <<goingDown, unhealed, undowned>>

wedged == online /\ st = "wedged"

NotWedged ==
    /\ ~wedged
    /\ wedge' = 0 /\ wedgeRestarts' = 0
    /\ UNCHANGED <<kiosk, ledger, goingDown, unhealed, undowned>>

KeepWatching ==
    /\ wedged /\ wedge + 1 < WedgeReattach
    /\ wedge' = wedge + 1
    /\ UNCHANGED <<kiosk, wedgeRestarts, ledger, goingDown, unhealed, undowned>>

\* Mutation: a re-attach that failed starts the count again as well.
ReattachResets ==
    /\ wedged /\ wedge + 1 \in WedgeReattach .. WedgeRestart - 1
    /\ \/ kiosk \in {"wedged", "attached"} /\ kiosk' = "attached"
       \/ kiosk # "attached" /\ UNCHANGED kiosk
    /\ wedge' = 0
    /\ UNCHANGED <<wedgeRestarts, ledger, goingDown, unhealed, undowned>>

\* ReattachWeb: fails, is answered 409, or finds nothing to do, unless the
\* connection is there afterwards.
Reattach ==
    /\ wedged /\ wedge + 1 \in WedgeReattach .. WedgeRestart - 1
    /\ \/ kiosk \in {"wedged", "attached"} /\ kiosk' = "attached" /\ wedge' = 0
       \/ kiosk # "attached" /\ UNCHANGED kiosk /\ wedge' = wedge + 1
    /\ UNCHANGED <<wedgeRestarts, ledger, goingDown, unhealed, undowned>>

\* RestartMode may fail or be answered 409; it counts all the same.
RestartKiosk ==
    /\ wedged /\ wedge + 1 >= WedgeRestart
    /\ kiosk' \in Kiosks
    /\ wedge' = 0
    /\ IF WatchdogReboot /\ wedgeRestarts + 1 >= RestartLimit
       THEN TryReboot /\ wedgeRestarts' = 0
       ELSE /\ wedgeRestarts' = wedgeRestarts + 1
            /\ UNCHANGED <<ledger, goingDown, unhealed, undowned>>

Unwedge ==
    /\ pc = "unwedge" /\ pc' = "judge"
    /\ NotWedged \/ KeepWatching \/ Reattach \/ RestartKiosk
    /\ UNCHANGED <<netUp, online, st, downStreak>>

ModeDown ==
    /\ health(st) = "down"
    /\ IF WatchdogReboot /\ downStreak + 1 >= DownLimit
       THEN TryReboot /\ downStreak' = 0
       ELSE /\ downStreak' = IF WatchdogReboot THEN downStreak + 1 ELSE 0
            /\ UNCHANGED <<ledger, goingDown, unhealed, undowned>>

\* clearLedger: the past reboots are forgotten.
ModeUp ==
    /\ health(st) # "down"
    /\ downStreak' = 0 /\ ledger' = {}
    /\ UNCHANGED <<goingDown, unhealed, undowned>>

Judge ==
    /\ pc = "judge" /\ pc' = "wait"
    /\ ModeDown \/ ModeUp
    /\ UNCHANGED <<env, online, st, wedge, wedgeRestarts>>

\* The node reboots.  All but the ledger starts afresh, after a grace period
\* that the mode may need to come up or to be given up.
Reboot ==
    /\ goingDown /\ goingDown' = FALSE
    /\ kiosk' \in Kiosks /\ pc' = "wait" /\ online' = netUp /\ st' = "starting"
    /\ wedge' = 0 /\ wedgeRestarts' = 0 /\ downStreak' = 0
    /\ UNCHANGED <<netUp, ledger, unhealed, undowned>>

Next == Disturb \/ Check \/ Unwedge \/ Judge \/ Reboot

Spec == Init /\ [][Next]_vars
FairSpec == Spec /\ WF_vars(Check) /\ WF_vars(Unwedge) /\ WF_vars(Judge)

-----------------------------------------------------------------------------
Ages == SUBSET (0 .. RebootWindow + 1)

TypeOK ==
    /\ netUp \in BOOLEAN /\ online \in BOOLEAN /\ goingDown \in BOOLEAN
    /\ kiosk \in Kiosks /\ st \in Kiosks /\ pc \in {"wait", "unwedge", "judge"}
    /\ wedge \in 0 .. WedgeRestart - 1 /\ wedgeRestarts \in Nat
    /\ downStreak \in 0 .. DownLimit - 1
    /\ ledger \in Ages /\ unhealed \in Ages /\ undowned \in Ages

\* A mode that is found down in every round, after every reboot as well, makes
\* the watchdog ask for at most MaxReboots reboots in RebootWindow: the ledger
\* survives the reboots, the counters do not.
RebootCeiling == Cardinality(inWindow(undowned)) <= MaxReboots

\* What allowReboot and the comment at the wedge path promise of any node whose
\* mode never works: the same ceiling, whichever way the mode is broken.
BrokenNodeCeiling == Cardinality(inWindow(unhealed)) <= MaxReboots

\* While the network is up, a kiosk that stays without CDP for good is
\* restarted again and again: no round of re-attaches keeps it from that.
WedgeEscalates ==
    <>[](netUp /\ kiosk = "wedged" /\ ~goingDown) => []<><<RestartKiosk>>_vars
=============================================================================
