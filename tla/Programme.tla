------------------------------ MODULE Programme ------------------------------
(***************************************************************************)
(* What decides what the node shows: the request handlers that change it   *)
(* (server.go), the document owner and the periodic reload (content.go),   *)
(* the weekly schedule's actuator, the Miracast guard (miracast.go),       *)
(* standby (power.go) and the boot of main.go, all acting on the           *)
(* supervisor's screen and on the persisted active mode.  The supervisor   *)
(* is abstracted to its switch token, taken by every switch and refused to *)
(* a second one (409), and to the mode on screen; Supervisor.tla has the   *)
(* detail.  A goroutine runs a job, cut wherever another may interleave.   *)
(***************************************************************************)
EXTENDS Naturals, Sequences, SequencesExt

CONSTANTS Requests,     \* goroutines of the HTTP server
          Pages,        \* web modes a user chooses
          Films,        \* modes that are not web pages
          Doc, Wizard,  \* the document viewer's page and the setup page
          Cast, Off,    \* the miracast mode and the off mode
          NoMode,       \* no active mode was ever persisted
          Nobody,       \* the switch token is free
          MaxMinutes,   \* the time-box of a cast, in ticks of the guard
          MaxJobs,      \* bound: jobs started by users and the schedule
          MaxFailures   \* bound: switches that fail to launch

VARIABLES token,        \* Supervisor.switching
          base,         \* the mode on screen, as Status() reports it
          page,         \* what the browser really displays in a web mode
          parked,       \* history: the mode went off for standby
          docEnabled, reloading,        \* Content's document owner and reload
          asleep,       \* the screen is powered off
          active, history, setupComplete,  \* State, as persisted
          job,          \* what each goroutine is doing
          castTicks,    \* ticks since the guard first saw the cast
          jobs, failures

screen == <<token, base, page, parked>>
owners == <<docEnabled, reloading>>
persisted == <<active, history, setupComplete>>
counters == <<jobs, failures>>
vars == <<screen, owners, asleep, persisted, job, castTicks, counters>>

Web == Pages \cup {Doc, Wizard}
Shows == Web \cup Films \cup {Cast}
Goroutines == Requests \cup {"scheduler", "guard", "boot", "timer"}
NoJob == [at |-> "idle", want |-> Off, records |-> FALSE, seen |-> Off]
SwitchJob(m, records) == [NoJob EXCEPT !.at = "switch", !.want = m, !.records = records]

Init ==
    /\ token = Nobody /\ base = Off /\ page = Off /\ parked = FALSE
    /\ docEnabled = FALSE /\ reloading = FALSE /\ asleep = FALSE
    /\ active = NoMode /\ history = <<>> /\ setupComplete = FALSE
    /\ job = [g \in Goroutines |->
                 IF g = "boot" THEN SwitchJob(Wizard, TRUE) ELSE NoJob]
    /\ castTicks = 0 /\ jobs = 0 /\ failures = 0

Become(g, j) == job' = [job EXCEPT ![g] = j]
Goto(g, label) == job' = [job EXCEPT ![g].at = label]
Finish(g) == Become(g, NoJob)
Start(g, j) ==
    /\ job[g].at = "idle" /\ jobs < MaxJobs
    /\ jobs' = jobs + 1
    /\ Become(g, j)
AtOnce(g) == Start(g, NoJob)   \* a handler with nothing to wait for

----------------------------------------------------------------------------
(* Switch, and the record of what came up.                                 *)

\* Another switch holds the token: 409, and the job ends there.
SwitchRefused(g) ==
    /\ job[g].at = "switch" /\ token # Nobody
    /\ Finish(g)
    /\ UNCHANGED <<screen, owners, asleep, persisted, castTicks, counters>>

SwitchBegin(g) ==
    /\ job[g].at = "switch" /\ token = Nobody
    /\ token' = g
    /\ Goto(g, "switching")
    /\ UNCHANGED <<base, page, parked, owners, asleep, persisted, castTicks, counters>>

SwitchDone(g) ==
    /\ job[g].at = "switching"
    /\ token' = Nobody
    /\ base' = job[g].want /\ page' = IF base' \in Web THEN base' ELSE page
    /\ parked' = (base' = Off /\ ~job[g].records)
    /\ IF g = "guard" THEN job' = [job EXCEPT ![g].at = "write", ![g].seen = base']
       ELSE IF job[g].records THEN Goto(g, "read") ELSE Finish(g)
    /\ UNCHANGED <<owners, asleep, persisted, castTicks, counters>>

\* Mutation: a switch that failed goes on holding the token.
SwitchFailsHolding(g) ==
    /\ job[g].at = "switching" /\ failures < MaxFailures
    /\ failures' = failures + 1
    /\ Finish(g)
    /\ UNCHANGED <<screen, owners, asleep, persisted, castTicks, jobs>>

\* The launch fails: the mode on screen stays the one before.
SwitchFails(g) ==
    /\ job[g].at = "switching" /\ failures < MaxFailures
    /\ token' = Nobody /\ failures' = failures + 1
    /\ Finish(g)
    /\ UNCHANGED <<base, page, parked, owners, asleep, persisted, castTicks, jobs>>

\* Mutation: the setup page is recorded like any other.
recordActiveAny(g) ==
    /\ job[g].at = "read"
    /\ job' = [job EXCEPT ![g].at = "write", ![g].seen = base]
    /\ UNCHANGED <<screen, owners, asleep, persisted, castTicks, counters>>

\* recordActive reads the live status, and never records the setup page ...
recordActive(g) ==
    /\ job[g].at = "read"
    /\ IF base = Wizard THEN Finish(g)
       ELSE job' = [job EXCEPT ![g].at = "write", ![g].seen = base]
    /\ UNCHANGED <<screen, owners, asleep, persisted, castTicks, counters>>

\* A history that has every mode once, without this one.
Without(past, m) ==
    IF \A i \in DOMAIN past : past[i] # m THEN past
    ELSE LET i == CHOOSE i \in DOMAIN past : past[i] = m
         IN SubSeq(past, 1, i - 1) \o SubSeq(past, i + 1, Len(past))

\* ... and RecordMode persists what was read.
RecordMode(g) ==
    /\ job[g].at = "write"
    /\ active' = job[g].seen
    /\ history' = IF active' = Off THEN history
                  ELSE <<active'>> \o Without(history, active')
    /\ Finish(g)
    /\ castTicks' = IF g = "guard" THEN 0 ELSE castTicks
    /\ UNCHANGED <<screen, owners, asleep, setupComplete, counters>>

----------------------------------------------------------------------------
(* The handlers.                                                           *)

\* /api/mode, /api/media, /api/custom/launch: switch and record.
handleMode(g, m) ==
    /\ Start(g, SwitchJob(m, TRUE))
    /\ UNCHANGED <<screen, owners, asleep, persisted, castTicks, failures>>

\* /api/url, a fired action and a played playlist: DisableOwners comes first.
handleURL(g, m) ==
    /\ Start(g, SwitchJob(m, TRUE))
    /\ docEnabled' = FALSE
    /\ UNCHANGED <<screen, reloading, asleep, persisted, castTicks, failures>>

\* /api/outputs/content of the primary: "mirror" switches nothing, and every
\* assignment is recorded.
SetOutputContent(g, m) ==
    /\ IF m = NoMode
       THEN /\ Start(g, [NoJob EXCEPT !.at = "read", !.want = NoMode])
            /\ UNCHANGED docEnabled
       ELSE /\ Start(g, SwitchJob(m, TRUE))
            /\ docEnabled' = FALSE
    /\ UNCHANGED <<screen, reloading, asleep, persisted, castTicks, failures>>

\* /api/standby: the screen goes dark, then the mode goes off, unrecorded.
Standby(g) ==
    /\ Start(g, SwitchJob(Off, FALSE))
    /\ asleep' = TRUE
    /\ UNCHANGED <<screen, owners, persisted, castTicks, failures>>

\* /api/document: the owner is set first, the navigation follows.
SetDocument(g, enabled) ==
    /\ docEnabled' = enabled
    /\ IF enabled THEN Start(g, [NoJob EXCEPT !.at = "navigate", !.want = Doc])
       ELSE AtOnce(g)
    /\ UNCHANGED <<screen, reloading, asleep, persisted, castTicks, failures>>

NavigateIfWeb(g) ==
    /\ job[g].at = "navigate"
    /\ IF token = Nobody /\ base \in Web
       THEN base' = job[g].want /\ page' = job[g].want
       ELSE UNCHANGED <<base, page>>
    /\ Finish(g)
    /\ UNCHANGED <<token, parked, owners, asleep, persisted, castTicks, counters>>

SetReload(g, on) ==
    /\ AtOnce(g)
    /\ reloading' = on
    /\ UNCHANGED <<screen, docEnabled, asleep, persisted, castTicks, failures>>

\* ReloadWeb reads the mode without the token and navigates later.
ReloadWeb(g) ==
    /\ base \in Web
    /\ \/ g \in Requests /\ Start(g, [NoJob EXCEPT !.at = "reload", !.want = base])
       \/ g = "timer" /\ Become(g, [NoJob EXCEPT !.at = "reload", !.want = base])
          /\ UNCHANGED jobs
    /\ UNCHANGED <<screen, owners, asleep, persisted, castTicks, failures>>

ReloadNavigate(g) ==
    /\ job[g].at = "reload"
    /\ page' = IF base \in Web THEN job[g].want ELSE page
    /\ Finish(g)
    /\ UNCHANGED <<token, base, parked, owners, asleep, persisted, castTicks, counters>>

\* /api/restart: the same mode again, under the token.
RestartMode(g) ==
    /\ token = Nobody /\ base # Off
    /\ Start(g, [SwitchJob(base, FALSE) EXCEPT !.at = "switching"])
    /\ token' = g
    /\ UNCHANGED <<base, page, parked, owners, asleep, persisted, castTicks, failures>>

\* /api/screen, and "@sleep" and "@wake" of the schedule, which skip a screen
\* that is in that state already.
handleScreen(g, on) ==
    /\ g = "scheduler" => asleep = on
    /\ AtOnce(g)
    /\ asleep' = ~on
    /\ UNCHANGED <<screen, owners, persisted, castTicks, failures>>

\* A scheduled action wakes the screen and runs like a fired action.
fireScheduled(m) ==
    /\ Start("scheduler", SwitchJob(m, TRUE))
    /\ asleep' = FALSE /\ docEnabled' = FALSE
    /\ UNCHANGED <<screen, reloading, persisted, castTicks, failures>>

\* /api/setup/finish.
SetupFinish(g) ==
    /\ AtOnce(g)
    /\ setupComplete' = TRUE
    /\ UNCHANGED <<screen, owners, asleep, active, history, castTicks, failures>>

Handle(g) ==
    \/ \E m \in (Shows \ {Doc}) \cup {Off} : handleMode(g, m)
    \/ \E m \in Pages \cup Films : handleURL(g, m)
    \/ \E m \in Pages \cup Films \cup {Off, NoMode} : SetOutputContent(g, m)
    \/ Standby(g)
    \/ \E b \in BOOLEAN : SetDocument(g, b) \/ SetReload(g, b) \/ handleScreen(g, b)
    \/ RestartMode(g)
    \/ SetupFinish(g)

----------------------------------------------------------------------------
(* The node's own goroutines.                                              *)

\* The content tick: a document owns the page, so it only scrolls it;
\* otherwise a due reload runs.
contentTick ==
    /\ job["timer"].at = "idle" /\ token = Nobody
    /\ ~docEnabled /\ reloading
    /\ ReloadWeb("timer")

previousMode ==
    LET others == {i \in DOMAIN history : history[i] # Cast} IN
    IF others = {} THEN Off
    ELSE history[CHOOSE i \in others : \A j \in others : i <= j]

\* Mutation: the guard tries once, when the time-box is over.
guardTickOnce ==
    /\ job["guard"].at = "idle"
    /\ IF base # Cast THEN castTicks # 0 /\ castTicks' = 0 /\ UNCHANGED job
       ELSE /\ castTicks <= MaxMinutes /\ castTicks' = castTicks + 1
            /\ IF castTicks < MaxMinutes THEN UNCHANGED job
               ELSE Become("guard", SwitchJob(previousMode, TRUE))
    /\ UNCHANGED <<screen, owners, asleep, persisted, counters>>

\* Each tick of the guard.  Past the time-box, or when the uplink was lost for
\* long enough, it switches back; when the switch is refused or fails it tries
\* again at a later tick.
guardTick ==
    /\ job["guard"].at = "idle"
    /\ \/ base # Cast /\ castTicks # 0 /\ castTicks' = 0 /\ UNCHANGED job
       \/ base = Cast /\ castTicks < MaxMinutes /\ castTicks' = castTicks + 1
          /\ UNCHANGED job
       \/ base = Cast /\ token = Nobody
          /\ Become("guard", SwitchJob(previousMode, TRUE))
          /\ UNCHANGED castTicks
    /\ UNCHANGED <<screen, owners, asleep, persisted, counters>>

\* The node reboots: the persisted mode comes back, and a node that had one
\* counts as provisioned; without one the wizard or the start page comes up.
Reboot(start) ==
    /\ jobs < MaxJobs /\ jobs' = jobs + 1
    /\ token' = Nobody /\ base' = Off /\ page' = Off /\ parked' = FALSE
    /\ asleep' = FALSE /\ castTicks' = 0
    /\ setupComplete' = (setupComplete \/ active \notin {NoMode, Wizard})
    /\ LET initial == IF active # NoMode THEN active
                      ELSE IF ~setupComplete THEN Wizard ELSE start
       IN /\ job' = [g \in Goroutines |->
                        IF g = "boot" /\ initial # Off
                        THEN SwitchJob(initial, active = NoMode)
                        ELSE NoJob]
          /\ active' = IF initial = Off THEN Off ELSE active
    /\ UNCHANGED <<owners, history, failures>>

Run(g) ==
    \/ SwitchRefused(g) \/ SwitchBegin(g) \/ SwitchDone(g) \/ SwitchFails(g)
    \/ recordActive(g) \/ RecordMode(g)
    \/ NavigateIfWeb(g) \/ ReloadNavigate(g)

Next ==
    \/ \E g \in Requests : Handle(g) \/ ReloadWeb(g)
    \/ \E b \in BOOLEAN : handleScreen("scheduler", b)
    \/ \E m \in Pages \cup Films : fireScheduled(m)
    \/ contentTick \/ guardTick
    \/ \E start \in Pages \cup {Off} : Reboot(start)
    \/ \E g \in Goroutines : Run(g)

Spec == Init /\ [][Next]_vars
\* The guard's ticker and every goroutine that has begun a job go on.
Fairness == /\ WF_vars(guardTick)
            /\ \A g \in Goroutines : WF_vars(Run(g))
FairSpec == Spec /\ Fairness

----------------------------------------------------------------------------
(* Properties.                                                             *)

\* Every variable keeps its type, and the token is held by a switching job.
TypeOK ==
    /\ token \in Goroutines \cup {Nobody}
    /\ base \in Shows \cup {Off} /\ page \in Web \cup {Off}
    /\ parked \in BOOLEAN /\ docEnabled \in BOOLEAN /\ reloading \in BOOLEAN /\ asleep \in BOOLEAN
    /\ active \in Shows \cup {Off, NoMode} /\ setupComplete \in BOOLEAN
    /\ history \in Seq(Shows) /\ IsInjective(history)
    /\ \A g \in Goroutines : job[g].at = "switching" <=> token = g
    /\ castTicks \in 0 .. MaxMinutes
    /\ jobs \in 0 .. MaxJobs /\ failures \in 0 .. MaxFailures

\* The setup page is never persisted (server.go:1215), by whatever interleaving
\* of handlers, navigations, casts and reboots: a node that restarts in its
\* wizard comes back to it, unprovisioned, and no cast gives back to it.
SetupNotPersisted ==
    active # Wizard /\ \A i \in DOMAIN history : history[i] # Wizard

\* A cast ends: whatever holds the switch token when the time-box is over,
\* the guard of miracast.go tries again until the screen is given back.
CastEnds == base = Cast ~> base # Cast

\* "A reboot after standby comes back to the last real content rather than a
\* black screen" (server.go:1211): while content is persisted, the off mode of
\* a standby is not persisted by a request that did not ask for the off mode.
StandbyKeepsContent ==
    [][\A g \in Requests :
          RecordMode(g) /\ parked /\ active \in Shows /\ job[g].want # Off
              => active' # Off]_vars
=============================================================================
