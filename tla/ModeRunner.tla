----------------------------- MODULE ModeRunner -----------------------------
(***************************************************************************)
(* One running mode (agent/supervisor.go, type modeRunner): the goroutine  *)
(* that launches the child process, waits for it and restarts it, racing   *)
(* any number of goroutines that call Stop().                              *)
(*                                                                         *)
(* A pid names a process GROUP: leader[p] is the state of its leader       *)
(* ("live", or a zombie that exited "clean" or with "error", or "none"     *)
(* once it has been waited for) and p \in forks says that other processes  *)
(* of the group are left.  A pid is free, and may be used again by the     *)
(* kernel, when both are gone.  Time advances by Tick.  The times of the   *)
(* recent exits are kept as the number of exits of each age, up to the age *)
(* at which filterAfter drops them; the uptime saturates where the code    *)
(* stops telling longer ones apart.                                        *)
(***************************************************************************)
EXTENDS Integers, Functions, Modes

CONSTANTS
    Pids,        \* process group ids
    NoPid,       \* "no child recorded"
    Stoppers,    \* goroutines that call Stop(), once each
    RunModes,    \* the modes a runner may be created for
    HealthyRun, FailWindow, FailBurst, BackoffMin, BackoffMax

ASSUME PidAssumption == NoPid \notin Pids

ASSUME PolicyAssumption ==
    /\ {HealthyRun, FailWindow, FailBurst, BackoffMin, BackoffMax}
           \subseteq Nat \ {0}
    /\ BackoffMin <= BackoffMax
    /\ FailWindow <= HealthyRun

VARIABLES
    mode,       \* r.mode; its type and display never change
    state,      \* r.state, what Status() reports
    cancelled,  \* r.ctx is cancelled
    done,       \* r.done is closed
    cmd,        \* r.cmd: the recorded child
    pc,         \* where the launching / supervising goroutine is
    proc,       \* its local: the child it started or is waiting for
    code,       \* its local: how the child it waited for exited
    retire,     \* its local: the mode is done, not crashed
    hooked,     \* onTerminal has been called
    stop,       \* where each Stop() call is
    target,     \* each Stop() call's local: the pid it is about to kill
    leader, forks,              \* the operating system's process groups
    uptime,     \* age of r.startedAt
    burst,      \* the recent exits the loop remembers, by age
    backoff, timer,             \* restart delay, and what is left of it
    exits       \* history: all exits accounted within FailWindow, by age

runVars  == <<state, done, cmd, pc, proc, code, retire, hooked>>
stopVars == <<cancelled, stop, target>>
osVars   == <<leader, forks>>
timeVars == <<uptime, burst, backoff, timer, exits>>
vars == <<mode, runVars, stopVars, osVars, timeVars>>

States == {"starting", "running", "failed", "stopped"}

Zombie == {"clean", "error"}

\* Program points of start() and of runLoop().
StartPoints == {"build", "launched", "attach"}
LoopPoints  == {"top", "reap", "wait", "exited", "account", "backoff",
                "recheck", "respawn", "relaunched", "reattach", "closing"}
EndPoints   == {"hook", "end"}

StopPoints == {"idle", "signal", "grace", "reread", "kill", "final",
               "returned"}

\* Ages at which an exit still counts: those below FailWindow.
Ages == 0..FailWindow - 1

TypeOK ==
    /\ mode \in RunModes
    /\ state \in States
    /\ cancelled \in BOOLEAN /\ done \in BOOLEAN
    /\ cmd \in Pids \cup {NoPid} /\ proc \in Pids \cup {NoPid}
    /\ pc \in StartPoints \cup LoopPoints \cup EndPoints
    /\ code \in Zombie
    /\ retire \in BOOLEAN /\ hooked \in BOOLEAN
    /\ stop \in [Stoppers -> StopPoints]
    /\ target \in [Stoppers -> Pids \cup {NoPid}]
    /\ leader \in [Pids -> {"none", "live"} \cup Zombie]
    /\ forks \subseteq Pids
    /\ uptime \in 0..HealthyRun
    /\ burst \in [Ages -> Nat] /\ exits \in [Ages -> Nat]
    /\ backoff \in BackoffMin..BackoffMax /\ timer \in 0..BackoffMax

-----------------------------------------------------------------------------
Least(a, b) == IF a <= b THEN a ELSE b

\* The processes a pid still stands for.
Occupied(p) == leader[p] # "none" \/ p \in forks

\* Mutation: an exit exactly FailWindow ago is kept.
olderKept(counts) ==
    [a \in 0..FailWindow |-> IF a = 0 THEN 0 ELSE counts[a - 1]]

\* One tick later; filterAfter drops what is FailWindow old by then.
older(counts) == [a \in Ages |-> IF a = 0 THEN 0 ELSE counts[a - 1]]

noExits == [a \in Ages |-> 0]

exitNow(counts) == [counts EXCEPT ![0] = @ + 1]

\* len(burst).
total(counts) == FoldFunction(+, 0, counts)

\* Which modes carry an onTerminal hook: foreground modes and Wayland
\* primaries; the X kiosk has none.
hasHook == foreground(mode) \/ isWaylandPrimary(mode)

\* Mutation: only the leader is killed, not its group.
killLeader(p) ==
    /\ leader' = IF p \in Pids /\ leader[p] = "live"
                 THEN [leader EXCEPT ![p] = "error"] ELSE leader
    /\ UNCHANGED forks

\* killGroup(pid, SIGKILL): the leader becomes a zombie, the rest is gone.
killGroup(p) ==
    /\ leader' = IF p \in Pids /\ leader[p] = "live"
                 THEN [leader EXCEPT ![p] = "error"] ELSE leader
    /\ forks' = forks \ {p}

Init ==
    /\ mode \in {m \in RunModes : validate(m)}
    /\ state = "starting" /\ cancelled = FALSE /\ done = FALSE
    /\ cmd = NoPid /\ proc = NoPid /\ pc = "build"
    /\ code = "clean" /\ retire = FALSE /\ hooked = FALSE
    /\ stop = [s \in Stoppers |-> "idle"]
    /\ target = [s \in Stoppers |-> NoPid]
    /\ leader = [p \in Pids |-> "none"] /\ forks = {}
    /\ uptime = 0 /\ burst = noExits /\ exits = noExits
    /\ backoff = BackoffMin /\ timer = 0

-----------------------------------------------------------------------------
(* start(): the first launch. *)

\* Mutation: start() fails without closing done.
StartFailsOpen ==
    /\ pc = "build"
    /\ state' = "failed" /\ pc' = "end"
    /\ UNCHANGED <<mode, done, cmd, proc, code, retire, hooked,
                   stopVars, osVars, timeVars>>

\* buildCmd or the exec fails: no loop will run, so start() closes done.
StartFails ==
    /\ pc = "build"
    /\ state' = "failed" /\ done' = TRUE /\ pc' = "end"
    /\ UNCHANGED <<mode, cmd, proc, code, retire, hooked,
                   stopVars, osVars, timeVars>>

\* exec succeeded: the child runs, in a group that may fork, before anybody
\* else can see its pid.
Launch(from, to) ==
    /\ pc = from
    /\ \E p \in Pids :
          /\ ~Occupied(p)
          /\ leader' = [leader EXCEPT ![p] = "live"]
          /\ forks' \in {forks, forks \cup {p}}
          /\ proc' = p
    /\ pc' = to
    /\ UNCHANGED <<mode, state, done, cmd, code, retire, hooked,
                   stopVars, timeVars>>

\* record(cmd): the child becomes visible to Stop().
record(from, to) ==
    /\ pc = from
    /\ cmd' = proc /\ uptime' = 0 /\ pc' = to
    /\ UNCHANGED <<mode, state, done, proc, code, retire, hooked,
                   stopVars, osVars, burst, backoff, timer, exits>>

\* postStart: the CDP attach ends, with or without success, and the mode is
\* reported running either way.
postStart(from) ==
    /\ pc = from
    /\ state' = "running" /\ pc' = "top"
    /\ UNCHANGED <<mode, done, cmd, proc, code, retire, hooked,
                   stopVars, osVars, timeVars>>

-----------------------------------------------------------------------------
(* runLoop(). *)

\* Mutation: a cancelled loop ends without killing and reaping its child.
LoopTopLeaves ==
    /\ pc = "top"
    /\ proc' = cmd
    /\ IF cancelled THEN pc' = "closing" /\ state' = "stopped"
       ELSE pc' = "wait" /\ UNCHANGED state
    /\ UNCHANGED <<mode, done, cmd, code, retire, hooked,
                   stopVars, osVars, timeVars>>

\* Read the child and the context atomically.
LoopTop ==
    /\ pc = "top"
    /\ proc' = cmd
    /\ IF cancelled
       THEN pc' = "reap" /\ killGroup(cmd)
       ELSE pc' = "wait" /\ UNCHANGED osVars
    /\ UNCHANGED <<mode, state, done, cmd, code, retire, hooked,
                   stopVars, timeVars>>

\* cmd.Wait() after the kill.
Reap ==
    /\ pc = "reap" /\ leader[proc] \in Zombie
    /\ leader' = [leader EXCEPT ![proc] = "none"]
    /\ state' = "stopped" /\ pc' = "closing"
    /\ UNCHANGED <<mode, done, cmd, proc, code, retire, hooked,
                   stopVars, forks, timeVars>>

\* cmd.Wait() returns because the child exited.
Wait ==
    /\ pc = "wait" /\ leader[proc] \in Zombie
    /\ code' = leader[proc]
    /\ leader' = [leader EXCEPT ![proc] = "none"]
    /\ pc' = "exited"
    /\ UNCHANGED <<mode, state, done, cmd, proc, retire, hooked,
                   stopVars, forks, timeVars>>

\* A foreground mode that ended may be done, not crashed: a console app on any
\* exit, a KMS player on a clean one.
finished == /\ foreground(mode) /\ retiresWhenDone(mode)
            /\ mode.display = "console" \/ code = "clean"

\* Mutation: the retire check comes before the check of the context.
AfterExitRetireFirst ==
    /\ pc = "exited"
    /\ killGroup(proc)
    /\ \/ finished /\ state' = "stopped" /\ pc' = "closing" /\ retire' = TRUE
       \/ /\ ~finished /\ cancelled
          /\ state' = "stopped" /\ pc' = "closing" /\ UNCHANGED retire
       \/ /\ ~finished /\ ~cancelled
          /\ pc' = "account" /\ UNCHANGED <<state, retire>>
    /\ UNCHANGED <<mode, done, cmd, proc, code, hooked, stopVars, timeVars>>

\* Kill the stragglers of the group; then stop, retire, or go on to restart.
AfterExit ==
    /\ pc = "exited"
    /\ killGroup(proc)
    /\ \/ /\ cancelled
          /\ state' = "stopped" /\ pc' = "closing" /\ UNCHANGED retire
       \/ /\ ~cancelled /\ finished
          /\ state' = "stopped" /\ pc' = "closing" /\ retire' = TRUE
       \/ /\ ~cancelled /\ ~finished
          /\ pc' = "account" /\ UNCHANGED <<state, retire>>
    /\ UNCHANGED <<mode, done, cmd, proc, code, hooked, stopVars, timeVars>>

\* Mutation: a run as long as a restart delay already counts as healthy.
rememberedBriefly == IF uptime >= BackoffMin THEN noExits ELSE burst

\* What the loop remembers of earlier exits: nothing after a healthy run.
remembered == IF uptime >= HealthyRun THEN noExits ELSE burst

tooMany(n) == n >= FailBurst

\* An unexpected exit: restart-on-exit, unless it is a crash loop.
Account ==
    /\ pc = "account"
    /\ burst' = exitNow(remembered)
    /\ exits' = exitNow(exits)
    /\ backoff' = IF uptime >= HealthyRun THEN BackoffMin ELSE backoff
    /\ IF tooMany(total(burst'))
       THEN state' = "failed" /\ pc' = "closing" /\ UNCHANGED timer
       ELSE state' = "starting" /\ pc' = "backoff" /\ timer' = backoff'
    /\ UNCHANGED <<mode, done, cmd, proc, code, retire, hooked,
                   stopVars, osVars, uptime>>

\* select: the cancelled context wins ...
BackoffCancelled ==
    /\ pc = "backoff" /\ cancelled
    /\ state' = "stopped" /\ pc' = "closing"
    /\ UNCHANGED <<mode, done, cmd, proc, code, retire, hooked,
                   stopVars, osVars, timeVars>>

\* ... or the timer does, even when the context is cancelled as well.
BackoffExpires ==
    /\ pc = "backoff" /\ timer = 0
    /\ pc' = "recheck"
    /\ UNCHANGED <<mode, state, done, cmd, proc, code, retire, hooked,
                   stopVars, osVars, timeVars>>

Recheck ==
    /\ pc = "recheck"
    /\ IF cancelled
       THEN state' = "stopped" /\ pc' = "closing" /\ UNCHANGED backoff
       ELSE /\ pc' = "respawn" /\ UNCHANGED state
            /\ backoff' = Least(2 * backoff, BackoffMax)
    /\ UNCHANGED <<mode, done, cmd, proc, code, retire, hooked,
                   stopVars, osVars, uptime, burst, timer, exits>>

\* buildCmd or the exec of the replacement fails.
RespawnFails ==
    /\ pc = "respawn"
    /\ state' = "failed" /\ pc' = "closing"
    /\ UNCHANGED <<mode, done, cmd, proc, code, retire, hooked,
                   stopVars, osVars, timeVars>>

\* The deferred closeDone(), and whether the hook is due.
closeDone ==
    /\ pc = "closing"
    /\ done' = TRUE
    /\ pc' = IF (state = "failed" \/ retire) /\ hasHook THEN "hook" ELSE "end"
    /\ UNCHANGED <<mode, state, cmd, proc, code, retire, hooked,
                   stopVars, osVars, timeVars>>

onTerminal ==
    /\ pc = "hook"
    /\ hooked' = TRUE /\ pc' = "end"
    /\ UNCHANGED <<mode, state, done, cmd, proc, code, retire,
                   stopVars, osVars, timeVars>>

Loop ==
    \/ StartFails
    \/ Launch("build", "launched") \/ Launch("respawn", "relaunched")
    \/ record("launched", "attach") \/ record("relaunched", "reattach")
    \/ postStart("attach") \/ postStart("reattach")
    \/ LoopTop \/ Reap \/ Wait \/ AfterExit \/ Account
    \/ BackoffCancelled \/ BackoffExpires \/ Recheck \/ RespawnFails
    \/ closeDone \/ onTerminal

-----------------------------------------------------------------------------
(* Stop().  A runner is handed to others once start() has returned. *)

stopStep(s, from, to) ==
    /\ stop[s] = from
    /\ stop' = [stop EXCEPT ![s] = to]
    /\ UNCHANGED <<mode, runVars, timeVars>>

StopCancel(s) ==
    /\ pc \notin StartPoints
    /\ stopStep(s, "idle", "signal")
    /\ cancelled' = TRUE
    /\ UNCHANGED <<target, osVars>>

\* SIGTERM to the child recorded now.  A child may act on it at once or
\* never: LeaderExits and ForksExit may happen to it at any time anyway.
StopTerm(s) ==
    /\ stopStep(s, "signal", "grace")
    /\ UNCHANGED <<cancelled, target, osVars>>

\* Mutation: Stop() does not wait for done.
StopHasty(s, from) ==
    /\ stopStep(s, from, "returned")
    /\ UNCHANGED <<cancelled, target, osVars>>

StopDone(s, from) ==
    /\ done
    /\ stopStep(s, from, "returned")
    /\ UNCHANGED <<cancelled, target, osVars>>

\* stopGrace is over (it may be over even though done is closed too).
GraceExpires(s) ==
    /\ stopStep(s, "grace", "reread")
    /\ UNCHANGED <<cancelled, target, osVars>>

\* Re-read: it may be a restarted child.
StopReread(s) ==
    /\ stopStep(s, "reread", "kill")
    /\ target' = [target EXCEPT ![s] = cmd]
    /\ UNCHANGED <<cancelled, osVars>>

StopKill(s) ==
    /\ stopStep(s, "kill", "final")
    /\ killGroup(target[s])
    /\ UNCHANGED <<cancelled, target>>

Stop(s) ==
    \/ StopCancel(s) \/ StopTerm(s) \/ GraceExpires(s)
    \/ StopReread(s) \/ StopKill(s)
    \/ StopDone(s, "grace") \/ StopDone(s, "final")

-----------------------------------------------------------------------------
(* The environment: processes exit, time passes. *)

LeaderExits(p) ==
    /\ leader[p] = "live"
    /\ \E how \in Zombie : leader' = [leader EXCEPT ![p] = how]
    /\ UNCHANGED <<mode, runVars, stopVars, forks, timeVars>>

ForksExit(p) ==
    /\ p \in forks
    /\ forks' = forks \ {p}
    /\ UNCHANGED <<mode, runVars, stopVars, leader, timeVars>>

\* Time passes where the goroutine waits: for the attach, for the child, or
\* for the restart delay.
Tick ==
    /\ pc \in {"attach", "reattach", "wait", "backoff"}
    /\ uptime' = Least(uptime + 1, HealthyRun)
    /\ burst' = older(burst) /\ exits' = older(exits)
    /\ timer' = IF timer > 0 THEN timer - 1 ELSE 0
    /\ UNCHANGED <<mode, runVars, stopVars, osVars, backoff>>

Next ==
    \/ Loop
    \/ \E s \in Stoppers : Stop(s)
    \/ \E p \in Pids : LeaderExits(p) \/ ForksExit(p)
    \/ Tick

\* The scheduler runs the goroutine and every Stop() that has begun, timers
\* expire, and time goes on.  Nothing makes a child exit or anyone call
\* Stop(); a failing launch is never forced.
Fairness ==
    /\ WF_vars(Loop)
    /\ WF_vars(Tick)
    /\ \A s \in Stoppers : WF_vars(Stop(s) /\ stop[s] # "idle")

Spec == Init /\ [][Next]_vars

FairSpec == Spec /\ Fairness

-----------------------------------------------------------------------------
(* Properties. *)

\* The runner never owns two process groups at once, not even one that is
\* dying: a restart launches only after the previous child was waited for and
\* its stragglers killed ("Every child started is Wait()ed exactly once").
OneGroup ==
    \A p, q \in Pids : Occupied(p) /\ Occupied(q) => p = q

\* Once done is closed nothing of the mode is left on the machine: neither a
\* child, nor a zombie, nor a fork of the browser.  What Stop() returns on is
\* therefore proof that the screen is free for the next owner.
DoneMeansGone == done => \A p \in Pids : ~Occupied(p)

\* A Stop() that has returned left a runner in a terminal state that nothing
\* leaves any more.
StoppedForGood ==
    [][(\E s \in Stoppers : stop[s] = "returned")
          => /\ state \in {"stopped", "failed"}
             /\ UNCHANGED <<state, cmd, leader, forks>>]_vars

\* The loop gives a mode up for crash-looping exactly when FailBurst exits lie
\* within FailWindow, although it forgets its own record of them after a healthy
\* run: old exits are never held against a mode, and none that counts is lost.
GiveUpExactly ==
    [][pc = "account" /\ pc' # "account"
          => (state' = "failed" <=> total(exits') >= FailBurst)]_vars

\* A Stop() that comes while the child is up, has just exited, or is waiting
\* to be restarted is never mistaken for the mode's own end: the loop ends as
\* stopped, so the hook that moves the screen back to the base does not run
\* ("NOT on an intentional Stop").  Only a loop that is already past its check
\* of the context ("account", "respawn") may still end as failed.
StopIsNotAnEnd ==
    [][cancelled /\ pc \notin {"account", "respawn"} /\ pc # "closing"
          /\ pc' = "closing" => state' = "stopped" /\ ~retire']_vars

\* The runner implements its contract: it decides on restarts only while
\* nobody asked it to stop, launches only what it decided on and only when it
\* owns nothing, ends owning nothing, and, once asked, does end.
Contract == INSTANCE RunnerContract WITH
                owned     <- \E p \in Pids : Occupied(p),
                launching <- pc \in {"build", "respawn"},
                asked     <- cancelled,
                over      <- done

ImplementsContract == Contract!Spec

\* Stop() never hangs: not when the first launch failed, not when the child
\* ignores SIGTERM, not when it races a restart.
StopReturns ==
    \A s \in Stoppers : stop[s] = "signal" ~> stop[s] = "returned"
=============================================================================
