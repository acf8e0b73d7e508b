------------------------------ MODULE Packages ------------------------------
(***************************************************************************)
(* Debian packages (agent/apt.go, agent/setup.go and their handlers).      *)
(*                                                                         *)
(* Apt has one slot for a check or an upgrade (checking, upgrading), Setup *)
(* one of its own for an install (installing): each is claimed under a     *)
(* lock that is free while apt-get runs, in a goroutine, for minutes.      *)
(* What is on the system is a count of the upgrades and of the installs    *)
(* that were done; the list of pending packages that a check finds is      *)
(* that count at the time of the check.                                    *)
(***************************************************************************)
EXTENDS Naturals

CONSTANTS
    Jobs,         \* goroutines: the cadence of Start, and requests
    MaxChanges    \* bound: upgrades, and installs

VARIABLES
    checking, upgrading,      \* Apt's slot
    lastResult,
    installing, installed,    \* Setup's slot, its lastResult
    setupComplete,
    settled,    \* readUptime() is past the cold boot window
    busy,       \* sup.Busy()
    system,     \* what was done to the packages so far
    count,      \* Apt's result: system as the check saw it
    seen,       \* what each goroutine's simulation saw
    pc

apt     == <<checking, upgrading, lastResult, count>>
setup   == <<installing, installed, setupComplete>>
machine == <<settled, busy, system>>
vars    == <<apt, setup, machine, seen, pc>>

Results == {"", "ok", "failed"}
Nothing == [upgrades |-> 0, installs |-> 0]

Init ==
    /\ checking = FALSE /\ upgrading = FALSE /\ lastResult = ""
    /\ installing = FALSE /\ installed = "" /\ setupComplete = FALSE
    /\ settled = FALSE /\ busy = FALSE
    /\ system = Nothing /\ count = Nothing
    /\ seen = [j \in Jobs |-> Nothing] /\ pc = [j \in Jobs |-> "idle"]

at(j, from, to) == pc[j] = from /\ pc' = [pc EXCEPT ![j] = to]

taken == checking \/ upgrading

(* Check.  An update of the lists comes first, or not, and may fail. *)

Check(j) ==
    /\ ~taken /\ checking' = TRUE
    /\ \E from \in {"idle", "recheck"} : at(j, from, "simulate")
    /\ UNCHANGED <<upgrading, lastResult, count, setup, machine, seen>>

CheckSkipped(j) ==
    /\ taken /\ at(j, "recheck", "idle")
    /\ UNCHANGED <<apt, setup, machine, seen>>

Simulate(j) ==
    /\ at(j, "simulate", "record")
    /\ seen' = [seen EXCEPT ![j] = system]
    /\ UNCHANGED <<apt, setup, machine>>

SimulateFails(j) ==
    /\ at(j, "simulate", "release")
    /\ UNCHANGED <<apt, setup, machine, seen>>

Record(j) ==
    /\ at(j, "record", "release")
    /\ count' = seen[j] /\ seen' = [seen EXCEPT ![j] = Nothing]
    /\ UNCHANGED <<checking, upgrading, lastResult, setup, machine>>

CheckDone(j) ==
    /\ at(j, "release", "idle")
    /\ checking' = FALSE
    /\ UNCHANGED <<upgrading, lastResult, count, setup, machine, seen>>

(* handleUpgrade, BeginUpgrade, RunClaimedUpgrade *)

AskUpgrade(j) ==
    /\ settled /\ ~busy /\ at(j, "idle", "claim")
    /\ UNCHANGED <<apt, setup, machine, seen>>

BeginUpgrade(j) ==
    /\ ~taken /\ at(j, "claim", "upgrade")
    /\ upgrading' = TRUE /\ lastResult' = ""
    /\ UNCHANGED <<checking, count, setup, machine, seen>>

UpgradeBusy(j) ==
    /\ taken /\ at(j, "claim", "idle")
    /\ UNCHANGED <<apt, setup, machine, seen>>

\* apt-get, within 30 minutes; one that fails may have done a part.
Upgrade(j) ==
    /\ system.upgrades < MaxChanges /\ at(j, "upgrade", "upgraded")
    /\ system' = [system EXCEPT !.upgrades = @ + 1]
    /\ UNCHANGED <<apt, setup, settled, busy, seen>>

UpgradeDone(j) ==
    /\ \/ at(j, "upgraded", "recheck") /\ lastResult' \in {"ok", "failed"}
       \/ at(j, "upgrade", "recheck") /\ lastResult' = "failed"
    /\ upgrading' = FALSE
    /\ UNCHANGED <<checking, count, setup, machine, seen>>

(* Setup: BeginInstall, RunInstall, and the end of the wizard *)

BeginInstall(j) ==
    /\ ~installing /\ at(j, "idle", "install")
    /\ installing' = TRUE /\ installed' = ""
    /\ UNCHANGED <<apt, setupComplete, machine, seen>>

Install(j) ==
    /\ system.installs < MaxChanges /\ at(j, "install", "installed")
    /\ system' = [system EXCEPT !.installs = @ + 1]
    /\ UNCHANGED <<apt, setup, settled, busy, seen>>

InstallDone(j) ==
    /\ \/ at(j, "installed", "idle") /\ installed' \in {"ok", "failed"}
       \/ at(j, "install", "idle") /\ installed' = "failed"
    /\ installing' = FALSE
    /\ UNCHANGED <<apt, setupComplete, machine, seen>>

\* handleSetupFinish: Installing(), and then Finish().
AskFinish(j) ==
    /\ ~installing /\ at(j, "idle", "finish")
    /\ UNCHANGED <<apt, setup, machine, seen>>

Finish(j) ==
    /\ at(j, "finish", "idle") /\ setupComplete' = TRUE
    /\ UNCHANGED <<apt, installing, installed, machine, seen>>

(* The node *)

Settle ==
    /\ ~settled /\ settled' = TRUE
    /\ UNCHANGED <<apt, setup, busy, system, seen, pc>>

Busy ==
    /\ busy' = ~busy
    /\ UNCHANGED <<apt, setup, settled, system, seen, pc>>

Next ==
    \/ \E j \in Jobs :
         \/ Check(j) \/ CheckSkipped(j) \/ Simulate(j) \/ SimulateFails(j)
         \/ Record(j) \/ CheckDone(j)
         \/ AskUpgrade(j) \/ BeginUpgrade(j) \/ UpgradeBusy(j) \/ Upgrade(j)
         \/ UpgradeDone(j)
         \/ BeginInstall(j) \/ Install(j) \/ InstallDone(j)
         \/ AskFinish(j) \/ Finish(j)
    \/ Settle \/ Busy

Spec == Init /\ [][Next]_vars

-----------------------------------------------------------------------------
Changes == [upgrades : 0 .. MaxChanges, installs : 0 .. MaxChanges]
TypeOK ==
    /\ {checking, upgrading, installing, setupComplete, settled, busy} \subseteq BOOLEAN
    /\ {lastResult, installed} \subseteq Results
    /\ {system, count} \subseteq Changes /\ seen \in [Jobs -> Changes]
    /\ pc \in [Jobs -> {"idle", "simulate", "record", "release", "claim",
                        "upgrade", "upgraded", "recheck", "install",
                        "installed", "finish"}]

\* The pending count that the UI shows never goes back behind an upgrade: a
\* check that was under way when the upgrade ran does not record what it saw
\* before, and no two upgrades run at once.  (An install of the wizard has a
\* slot of its own, so it may overtake a check.)
CountAfterUpgrade ==
    [][count' # count => count'.upgrades = system.upgrades]_vars
=============================================================================
