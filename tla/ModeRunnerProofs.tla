-------------------------- MODULE ModeRunnerProofs --------------------------
(***************************************************************************)
(* Proofs about ModeRunner for every set of pids, of stoppers and of       *)
(* modes and every restart policy: the runner never owns two process       *)
(* groups, leaves nothing behind when it is done, and implements the       *)
(* safety part of RunnerContract.                                          *)
(*                                                                         *)
(* The invariant says which groups can exist at each program point of the  *)
(* loop.  Before a launch and after the end there is none; while a child   *)
(* runs there is at most the one the loop's local variable names; and      *)
(* after a kill no fork of it is left.  For the restart policy it says     *)
(* that what the loop forgets no longer counts.                            *)
(***************************************************************************)
EXTENDS ModeRunner, TLAPS

NothingOwned == \A p \in Pids : ~Occupied(p)

\* Program points at which nothing is left of any child.
EmptyPoints == {"build", "account", "backoff", "recheck", "respawn",
                "closing", "hook", "end"}

\* Program points at which the child of the local variable is not reaped.
ChildPoints == {"launched", "attach", "relaunched", "reattach",
                "reap", "wait"}

OwnType ==
    /\ leader \in [Pids -> {"none", "live"} \cup Zombie]
    /\ forks \subseteq Pids
    /\ cmd \in Pids \cup {NoPid} /\ proc \in Pids \cup {NoPid}
    /\ pc \in StartPoints \cup LoopPoints \cup EndPoints
    /\ state \in States
    /\ stop \in [Stoppers -> StopPoints]

Owns(q) == /\ q \in Pids
           /\ \A p \in Pids : Occupied(p) => p = q

OwnInv ==
    /\ pc \in EmptyPoints => NothingOwned
    /\ pc \in ChildPoints => Owns(proc) /\ leader[proc] # "none"
    /\ pc \in {"attach", "reattach"} => cmd = proc
    /\ pc = "top" => Owns(cmd) /\ leader[cmd] # "none"
    /\ pc = "exited" => Owns(proc) /\ \A p \in Pids : leader[p] = "none"
    /\ pc = "reap" => forks = {}

EndInv ==
    /\ done => pc \in EndPoints
    /\ pc \in EndPoints \cup {"closing"} => state \in {"stopped", "failed"}
    /\ \A s \in Stoppers : stop[s] = "returned" => done

IInv == OwnType /\ OwnInv /\ EndInv

\* The loop starts with a launch to do and nothing launched.
LEMMA InitIInv == Init => IInv
  BY DEF Init, IInv, OwnType, OwnInv, EndInv, NothingOwned, Occupied, Zombie,
         EmptyPoints, ChildPoints, StartPoints, LoopPoints, EndPoints,
         States, StopPoints

\* The three ways a step may change the process groups.
LEMMA LaunchIInv ==
  ASSUME IInv, NEW from, NEW to, Launch(from, to),
         \/ from = "build" /\ to = "launched"
         \/ from = "respawn" /\ to = "relaunched"
  PROVE  IInv'
<1>1. from \in EmptyPoints /\ to \in ChildPoints
      /\ to \notin EmptyPoints \cup EndPoints
      /\ to \notin {"top", "exited", "reap", "attach", "reattach", "closing"}
  BY DEF EmptyPoints, ChildPoints, EndPoints
<1>2. PICK p \in Pids : /\ ~Occupied(p)
                        /\ leader' = [leader EXCEPT ![p] = "live"]
                        /\ forks' \in {forks, forks \cup {p}}
                        /\ proc' = p
  BY DEF Launch
<1>3. OwnType'
  BY <1>1, <1>2 DEF IInv, OwnType, Launch, Zombie, StartPoints, LoopPoints,
     stopVars
<1>4. OwnInv'
  <2>1. NothingOwned
    BY <1>1 DEF Launch, IInv, OwnInv
  <2>2. Owns(proc)' /\ leader'[proc'] # "none"
    BY <2>1, <1>2 DEF Owns, NothingOwned, Occupied, IInv, OwnType
  <2>3. pc' = to
    BY DEF Launch
  <2> QED BY <2>2, <2>3, <1>1 DEF OwnInv
<1>5. EndInv'
  BY <1>1 DEF Launch, IInv, EndInv, EmptyPoints, EndPoints, stopVars
<1> QED BY <1>3, <1>4, <1>5 DEF IInv

\* Every step of start() and of the loop keeps the invariant.
LEMMA LoopIInv == IInv /\ Loop => IInv'
<1> SUFFICES ASSUME IInv, Loop PROVE IInv'
  OBVIOUS
<1> USE DEF IInv, OwnType, OwnInv, EndInv, Owns, NothingOwned, Occupied,
            EmptyPoints, ChildPoints, StartPoints, LoopPoints, EndPoints,
            States, Zombie, stopVars, osVars
<1>1. CASE StartFails
  BY <1>1 DEF StartFails
<1>2. CASE Launch("build", "launched") \/ Launch("respawn", "relaunched")
  BY <1>2, LaunchIInv
<1>3. CASE record("launched", "attach") \/ record("relaunched", "reattach")
  BY <1>3 DEF record
<1>4. CASE postStart("attach") \/ postStart("reattach")
  BY <1>4 DEF postStart
<1>5. CASE LoopTop
  <2>1. CASE cancelled
    BY <1>5, <2>1, PidAssumption DEF LoopTop, killGroup
  <2>2. CASE ~cancelled
    BY <1>5, <2>2 DEF LoopTop
  <2> QED BY <2>1, <2>2
<1>6. CASE Reap
  BY <1>6 DEF Reap
<1>7. CASE Wait
  BY <1>7 DEF Wait
<1>8. CASE AfterExit
  BY <1>8 DEF AfterExit, killGroup
<1>9. CASE Account
  BY <1>9 DEF Account
<1>10. CASE BackoffCancelled \/ BackoffExpires \/ Recheck \/ RespawnFails
  BY <1>10 DEF BackoffCancelled, BackoffExpires, Recheck, RespawnFails
<1>11. CASE closeDone \/ onTerminal
  BY <1>11 DEF closeDone, onTerminal
<1> QED
  BY <1>1, <1>2, <1>3, <1>4, <1>5, <1>6, <1>7, <1>8, <1>9, <1>10, <1>11
  DEF Loop

\* So does every step of a concurrent Stop(): it kills, but reaps nothing.
LEMMA StopIInv == ASSUME IInv, NEW s \in Stoppers, Stop(s) PROVE IInv'
<1> USE DEF IInv, OwnType, OwnInv, EndInv, Owns, NothingOwned, Occupied,
            StopPoints, Zombie, runVars, osVars, stopStep
<1>1. CASE StopCancel(s) \/ StopTerm(s) \/ GraceExpires(s) \/ StopReread(s)
  BY <1>1 DEF StopCancel, StopTerm, GraceExpires, StopReread
<1>2. CASE StopKill(s)
  BY <1>2 DEF StopKill, killGroup
<1>3. CASE StopDone(s, "grace") \/ StopDone(s, "final")
  BY <1>3 DEF StopDone
<1> QED BY <1>1, <1>2, <1>3 DEF Stop

\* And so does a child that exits by itself, and time.
LEMMA NextIInv == IInv /\ [Next]_vars => IInv'
<1> SUFFICES ASSUME IInv, [Next]_vars PROVE IInv'
  OBVIOUS
<1>1. CASE Loop
  BY <1>1, LoopIInv
<1>2. CASE \E s \in Stoppers : Stop(s)
  BY <1>2, StopIInv
<1> USE DEF IInv, OwnType, OwnInv, EndInv, Owns, NothingOwned, Occupied,
            Zombie, runVars, stopVars, osVars
<1>3. ASSUME NEW p \in Pids, LeaderExits(p) PROVE IInv'
  BY <1>3 DEF LeaderExits
<1>4. ASSUME NEW p \in Pids, ForksExit(p) PROVE IInv'
  BY <1>4 DEF ForksExit
<1>5. CASE Tick
  BY <1>5 DEF Tick
<1>6. CASE UNCHANGED vars
  BY <1>6 DEF vars
<1> QED BY <1>1, <1>2, <1>3, <1>4, <1>5, <1>6 DEF Next

\* The inductive invariant holds in every reachable state.
LEMMA Invariance == Spec => []IInv
<1>1. Init => IInv
  BY InitIInv
<1>2. IInv /\ [Next]_vars => IInv'
  BY NextIInv
<1> QED BY <1>1, <1>2, PTL DEF Spec

\* The runner never owns two process groups at once, whatever the number of
\* concurrent Stop() calls and restarts.
THEOREM NeverTwoGroups == Spec => []OneGroup
<1>1. IInv => OneGroup
  <2> SUFFICES ASSUME IInv PROVE OneGroup
    OBVIOUS
  <2>1. pc \in EmptyPoints \cup ChildPoints \cup {"top", "exited"}
    BY DEF IInv, OwnType, StartPoints, LoopPoints, EndPoints, EmptyPoints,
           ChildPoints
  <2> QED BY <2>1 DEF IInv, OwnInv, NothingOwned, Owns, OneGroup
<1> QED BY <1>1, Invariance, PTL

\* When done is closed, nothing of the mode is left on the machine.
THEOREM NothingLeftBehind == Spec => []DoneMeansGone
<1>1. IInv => DoneMeansGone
  BY DEF IInv, OwnInv, EndInv, DoneMeansGone, NothingOwned, EmptyPoints,
         EndPoints
<1> QED BY <1>1, Invariance, PTL

-----------------------------------------------------------------------------
(* An action property. *)

\* An intentional stop is never taken for the mode's own end.
THEOREM IntentionalStop == Spec => StopIsNotAnEnd
<1>1. ASSUME [Next]_vars, cancelled, pc \notin {"account", "respawn"},
             pc # "closing", pc' = "closing", ~retire
      PROVE  state' = "stopped" /\ ~retire'
  <2> USE <1>1
  <2>1. CASE Loop
    BY <2>1 DEF Loop, StartFails, Launch, record, postStart, LoopTop, Reap,
       Wait, AfterExit, Account, BackoffCancelled, BackoffExpires, Recheck,
       RespawnFails, closeDone, onTerminal
  <2>2. ASSUME NEW s \in Stoppers, Stop(s) PROVE FALSE
    BY <2>2 DEF Stop, StopCancel, StopTerm, GraceExpires, StopReread,
       StopKill, StopDone, stopStep, runVars
  <2>3. ASSUME NEW p \in Pids, LeaderExits(p) \/ ForksExit(p) PROVE FALSE
    BY <2>3 DEF LeaderExits, ForksExit, runVars
  <2>4. CASE Tick \/ UNCHANGED vars
    BY <2>4 DEF Tick, vars, runVars
  <2> QED BY <2>1, <2>2, <2>3, <2>4 DEF Next
<1> DEFINE Early == retire => pc \in EndPoints \cup {"closing"}
<1>2. Init => Early
  BY DEF Init
<1>3. Early /\ [Next]_vars => Early'
  <2> SUFFICES ASSUME Early, [Next]_vars PROVE Early'
    OBVIOUS
  <2>1. CASE Loop
    BY <2>1 DEF Loop, StartFails, Launch, record, postStart, LoopTop, Reap,
       Wait, AfterExit, Account, BackoffCancelled, BackoffExpires, Recheck,
       RespawnFails, closeDone, onTerminal, EndPoints
  <2>2. ASSUME NEW s \in Stoppers, Stop(s) PROVE Early'
    BY <2>2 DEF Stop, StopCancel, StopTerm, GraceExpires, StopReread,
       StopKill, StopDone, stopStep, runVars
  <2>3. ASSUME NEW p \in Pids, LeaderExits(p) \/ ForksExit(p) PROVE Early'
    BY <2>3 DEF LeaderExits, ForksExit, runVars
  <2>4. CASE Tick \/ UNCHANGED vars
    BY <2>4 DEF Tick, vars, runVars
  <2> QED BY <2>1, <2>2, <2>3, <2>4 DEF Next
<1>4. IInv /\ Early /\ [Next]_vars =>
        [cancelled /\ pc \notin {"account", "respawn"} /\ pc # "closing"
           /\ pc' = "closing" => state' = "stopped" /\ ~retire']_vars
  <2> SUFFICES ASSUME IInv, Early, [Next]_vars, cancelled,
                      pc \notin {"account", "respawn"}, pc # "closing",
                      pc' = "closing"
               PROVE  state' = "stopped" /\ ~retire'
    OBVIOUS
  <2>1. CASE ~retire
    BY <1>1, <2>1
  <2>2. CASE retire
    <3>1. pc \in EndPoints
      BY <2>2
    <3>2. ~Loop \/ pc' \in EndPoints
      BY <3>1 DEF EndPoints, Loop, StartFails, Launch, record, postStart,
         LoopTop, Reap, Wait, AfterExit, Account, BackoffCancelled,
         BackoffExpires, Recheck, RespawnFails, closeDone, onTerminal
    <3>3. pc' \in EndPoints
      BY <3>1, <3>2 DEF Next, Stop, StopCancel, StopTerm, GraceExpires,
         StopReread, StopKill, StopDone, stopStep, runVars, LeaderExits,
         ForksExit, Tick, vars
    <3> QED BY <3>3 DEF EndPoints
  <2> QED BY <2>1, <2>2
<1> QED BY <1>2, <1>3, <1>4, Invariance, PTL DEF Spec, StopIsNotAnEnd

\* A Stop() that has returned left a runner that nothing changes any more.
THEOREM StopIsFinal == Spec => StoppedForGood
<1>1. ASSUME IInv, [Next]_vars, NEW s \in Stoppers, stop[s] = "returned"
      PROVE  /\ state \in {"stopped", "failed"}
             /\ UNCHANGED <<state, cmd, leader, forks>>
  <2>1. /\ pc \in EndPoints /\ state \in {"stopped", "failed"}
        /\ NothingOwned /\ OwnType
    BY <1>1 DEF IInv, EndInv, OwnInv, EmptyPoints, EndPoints
  <2>2. CASE Loop
    BY <2>1, <2>2 DEF Loop, StartFails, Launch, record, postStart, LoopTop,
       Reap, Wait, AfterExit, Account, BackoffCancelled, BackoffExpires,
       Recheck, RespawnFails, closeDone, onTerminal, EndPoints, osVars
  <2>3. ASSUME NEW t \in Stoppers, Stop(t)
        PROVE  UNCHANGED <<state, cmd, leader, forks>>
    <3>1. CASE StopKill(t)
      <4>1. forks' = forks
        BY <2>1, <3>1 DEF StopKill, killGroup, NothingOwned, Occupied, OwnType
      <4>2. leader' = leader
        BY <2>1, <3>1 DEF StopKill, killGroup, NothingOwned, Occupied
      <4> QED BY <3>1, <4>1, <4>2 DEF StopKill, stopStep, runVars
    <3> QED
      BY <2>3, <3>1 DEF Stop, StopCancel, StopTerm, GraceExpires, StopReread,
         StopDone, stopStep, runVars, osVars
  <2>4. ASSUME NEW p \in Pids PROVE ~(LeaderExits(p) \/ ForksExit(p))
    BY <2>1 DEF LeaderExits, ForksExit, NothingOwned, Occupied
  <2>5. CASE Tick \/ UNCHANGED vars
    BY <2>1, <2>5 DEF Tick, vars, runVars, osVars
  <2> QED BY <1>1, <2>1, <2>2, <2>3, <2>4, <2>5 DEF Next
<1>2. IInv /\ [Next]_vars =>
        [(\E s \in Stoppers : stop[s] = "returned")
           => /\ state \in {"stopped", "failed"}
              /\ UNCHANGED <<state, cmd, leader, forks>>]_vars
  BY <1>1
<1> QED BY <1>2, Invariance, PTL DEF Spec, StoppedForGood

-----------------------------------------------------------------------------
(* Types, and the restart policy. *)

\* Counting exits by age: what the three helpers return.
LEMMA Counts ==
  ASSUME NEW counts \in [Ages -> Nat]
  PROVE  /\ older(counts) \in [Ages -> Nat]
         /\ exitNow(counts) \in [Ages -> Nat]
         /\ noExits \in [Ages -> Nat]
         /\ \A a \in Ages : older(counts)[a] = IF a = 0 THEN 0 ELSE counts[a - 1]
<1>1. \A a \in Ages : a # 0 => a - 1 \in Ages
  BY PolicyAssumption DEF Ages
<1>2. \A a \in Ages : (IF a = 0 THEN 0 ELSE counts[a - 1]) \in Nat
  BY <1>1
<1>3. older(counts) \in [Ages -> Nat]
  BY <1>2 DEF older
<1>4. exitNow(counts) \in [Ages -> Nat]
  <2>1. counts[0] + 1 \in Nat
    BY PolicyAssumption DEF Ages
  <2> QED BY <2>1 DEF exitNow
<1>5. \A a \in Ages : older(counts)[a] = IF a = 0 THEN 0 ELSE counts[a - 1]
  BY DEF older
<1>6. noExits \in [Ages -> Nat]
  BY DEF noExits
<1> QED BY <1>3, <1>4, <1>5, <1>6

\* The types are inductive by themselves.
LEMMA NextTypeOK == TypeOK /\ [Next]_vars => TypeOK'
<1> SUFFICES ASSUME TypeOK, [Next]_vars PROVE TypeOK'
  OBVIOUS
<1> USE PolicyAssumption DEF TypeOK, runVars, stopVars, osVars, timeVars,
        States, StartPoints, LoopPoints, EndPoints, StopPoints, Zombie
<1>1. CASE StartFails \/ closeDone \/ onTerminal
  BY <1>1 DEF StartFails, closeDone, onTerminal
<1>2. CASE Launch("build", "launched") \/ Launch("respawn", "relaunched")
  BY <1>2 DEF Launch
<1>3. CASE \/ record("launched", "attach") \/ record("relaunched", "reattach")
           \/ postStart("attach") \/ postStart("reattach")
  BY <1>3 DEF record, postStart
<1>4. CASE LoopTop
  BY <1>4 DEF LoopTop, killGroup
<1>5. CASE Reap \/ Wait
  BY <1>5 DEF Reap, Wait
<1>6. CASE AfterExit
  BY <1>6 DEF AfterExit, killGroup
<1>7. CASE Account
  <2>1. remembered \in [Ages -> Nat]
    BY Counts DEF remembered
  <2>2. burst' \in [Ages -> Nat] /\ exits' \in [Ages -> Nat]
    BY <1>7, <2>1, Counts DEF Account
  <2>3. backoff' \in BackoffMin..BackoffMax /\ timer' \in 0..BackoffMax
    BY <1>7 DEF Account
  <2> QED BY <1>7, <2>2, <2>3 DEF Account
<1>8. CASE BackoffCancelled \/ BackoffExpires \/ RespawnFails
  BY <1>8 DEF BackoffCancelled, BackoffExpires, RespawnFails
<1>9. CASE Recheck
  <2>1. 2 * backoff \in Int /\ backoff <= 2 * backoff
    OBVIOUS
  <2>2. backoff' \in BackoffMin..BackoffMax
    BY <1>9, <2>1 DEF Recheck, Least
  <2> QED BY <1>9, <2>2 DEF Recheck
<1>10. ASSUME NEW s \in Stoppers, Stop(s) PROVE TypeOK'
  <2>1. CASE StopCancel(s)
    BY <2>1 DEF StopCancel, stopStep
  <2>2. CASE StopTerm(s) \/ GraceExpires(s)
    BY <2>2 DEF StopTerm, GraceExpires, stopStep
  <2>3. CASE StopReread(s) \/ StopKill(s)
    BY <2>3 DEF StopReread, StopKill, killGroup, stopStep
  <2>4. CASE StopDone(s, "grace") \/ StopDone(s, "final")
    BY <2>4 DEF StopDone, stopStep
  <2> QED BY <1>10, <2>1, <2>2, <2>3, <2>4 DEF Stop
<1>11. ASSUME NEW p \in Pids, LeaderExits(p) \/ ForksExit(p) PROVE TypeOK'
  BY <1>11 DEF LeaderExits, ForksExit
<1>12. CASE Tick
  <2>1. uptime' \in 0..HealthyRun /\ timer' \in 0..BackoffMax
    BY <1>12 DEF Tick, Least
  <2>2. burst' \in [Ages -> Nat] /\ exits' \in [Ages -> Nat]
    BY <1>12, Counts DEF Tick
  <2> QED BY <1>12, <2>1, <2>2 DEF Tick
<1>13. CASE UNCHANGED vars
  BY <1>13 DEF vars
<1> QED
  BY <1>1, <1>2, <1>3, <1>4, <1>5, <1>6, <1>7, <1>8, <1>9, <1>10, <1>11,
     <1>12, <1>13 DEF Next, Loop

\* Every variable keeps its type: in particular the restart delay stays between
\* its bounds and a Stop() never kills a pid that was never recorded.
THEOREM WellTyped == Spec => []TypeOK
<1>1. ASSUME Init PROVE TypeOK
  <2>1. /\ burst \in [Ages -> Nat] /\ exits \in [Ages -> Nat]
        /\ uptime \in 0..HealthyRun
        /\ backoff \in BackoffMin..BackoffMax /\ timer \in 0..BackoffMax
    BY <1>1, PolicyAssumption DEF Init, noExits
  <2>2. /\ stop \in [Stoppers -> StopPoints]
        /\ target \in [Stoppers -> Pids \cup {NoPid}]
        /\ leader \in [Pids -> {"none", "live"} \cup Zombie]
    BY <1>1 DEF Init, StopPoints
  <2> QED
    BY <1>1, <2>1, <2>2 DEF Init, TypeOK, States, StartPoints, Zombie
<1> QED BY <1>1, NextTypeOK, PTL DEF Spec

\* Program points from which the child of the last record() is not yet
\* accounted for.
UpPoints == StartPoints \cup {"top", "reap", "wait", "exited", "account",
                              "reattach"}

\* Until its exit is accounted, every exit that counts is older than the child;
\* so what the loop forgets after a healthy run has aged out of the window.
RateInv == /\ burst = exits
           /\ pc \in UpPoints => \A a \in Ages : a < uptime => exits[a] = 0

\* The accounting step records one exit, the same in memory and in history.
LEMMA AccountExits ==
  ASSUME TypeOK, RateInv, Account PROVE burst' = exits'
<1>1. remembered = exits
  <2>1. CASE uptime >= HealthyRun
    <3>1. \A a \in Ages : exits[a] = 0
      BY <2>1, PolicyAssumption DEF TypeOK, RateInv, Account, UpPoints, Ages
    <3> QED BY <2>1, <3>1 DEF remembered, noExits, TypeOK
  <2>2. CASE ~(uptime >= HealthyRun)
    BY <2>2 DEF remembered, RateInv
  <2> QED BY <2>1, <2>2
<1> QED BY <1>1 DEF Account

\* The loop's memory of the exits equals the history at every point.
LEMMA NextRateInv == TypeOK /\ RateInv /\ [Next]_vars => RateInv'
<1> SUFFICES ASSUME TypeOK, RateInv, [Next]_vars PROVE RateInv'
  OBVIOUS
<1>1. CASE Account
  BY <1>1, AccountExits DEF Account, RateInv, UpPoints, StartPoints
<1>2. CASE record("launched", "attach") \/ record("relaunched", "reattach")
  BY <1>2, PolicyAssumption DEF record, RateInv, Ages
<1>3. CASE Loop /\ ~Account
           /\ ~record("launched", "attach") /\ ~record("relaunched", "reattach")
  <2>1. UNCHANGED <<uptime, burst, exits>>
    BY <1>3 DEF Loop, StartFails, Launch, postStart, LoopTop, Reap, Wait,
       AfterExit, BackoffCancelled, BackoffExpires, Recheck, RespawnFails,
       closeDone, onTerminal, timeVars
  <2>2. pc' \in UpPoints => pc \in UpPoints
    BY <1>3 DEF Loop, StartFails, Launch, postStart, LoopTop, Reap, Wait,
       AfterExit, BackoffCancelled, BackoffExpires, Recheck, RespawnFails,
       closeDone, onTerminal, UpPoints, StartPoints
  <2> QED BY <2>1, <2>2 DEF RateInv
<1>4. ASSUME NEW s \in Stoppers, Stop(s) PROVE RateInv'
  BY <1>4 DEF Stop, StopCancel, StopTerm, GraceExpires, StopReread,
     StopKill, StopDone, stopStep, runVars, timeVars, RateInv
<1>5. ASSUME NEW p \in Pids, LeaderExits(p) \/ ForksExit(p) PROVE RateInv'
  BY <1>5 DEF LeaderExits, ForksExit, runVars, timeVars, RateInv
<1>6. CASE Tick
  <2>1. pc' = pc /\ burst' = exits'
    BY <1>6 DEF Tick, runVars, RateInv
  <2>2. ASSUME pc \in UpPoints, NEW a \in Ages, a < uptime'
        PROVE  exits'[a] = 0
    <3>1. exits'[a] = IF a = 0 THEN 0 ELSE exits[a - 1]
      BY <1>6, Counts DEF Tick, TypeOK
    <3>2. CASE a = 0
      BY <3>1, <3>2
    <3>3. CASE a # 0
      <4>1. a - 1 \in Ages /\ a - 1 < uptime
        BY <1>6, <2>2, <3>3, PolicyAssumption DEF Tick, Least, TypeOK, Ages
      <4> QED BY <2>2, <3>1, <3>3, <4>1 DEF RateInv
    <3> QED BY <3>2, <3>3
  <2> QED BY <2>1, <2>2 DEF RateInv
<1>7. CASE UNCHANGED vars
  BY <1>7 DEF vars, runVars, timeVars, RateInv
<1> QED BY <1>1, <1>2, <1>3, <1>4, <1>5, <1>6, <1>7 DEF Next

\* For every policy whose window is no longer than a healthy run, the loop
\* gives up exactly on the configured burst of exits.
THEOREM CrashLoopRule == Spec => GiveUpExactly
<1>1. Init => RateInv
  BY DEF Init, RateInv, noExits
<1>2. TypeOK /\ RateInv /\ [Next]_vars =>
        [pc = "account" /\ pc' # "account"
           => (state' = "failed" <=> total(exits') >= FailBurst)]_vars
  <2> SUFFICES ASSUME TypeOK, RateInv, Next, pc = "account", pc' # "account"
               PROVE  state' = "failed" <=> total(exits') >= FailBurst
    OBVIOUS
  <2>1. Account
    BY DEF Next, Loop, StartFails, Launch, record, postStart, LoopTop, Reap,
       Wait, AfterExit, BackoffCancelled, BackoffExpires, Recheck,
       RespawnFails, closeDone, onTerminal, Stop, StopCancel, StopTerm,
       GraceExpires, StopReread, StopKill, StopDone, stopStep, runVars,
       LeaderExits, ForksExit, Tick
  <2>2. burst' = exits'
    BY <2>1, AccountExits
  <2> QED BY <2>1, <2>2 DEF Account, tooMany
<1> QED BY <1>1, <1>2, WellTyped, NextRateInv, PTL DEF Spec, GiveUpExactly

-----------------------------------------------------------------------------
(* The runner implements its contract. *)

\* A new runner is one that has decided on a launch and owns nothing.
LEMMA InitContract == Init => Contract!Init
  BY DEF Init, Contract!Init, Occupied

\* Every step of the runner is a step of the contract, or stutters.
LEMMA StepContract ==
  IInv /\ [Next]_vars => [Contract!Next]_(Contract!vars)
<1> SUFFICES ASSUME IInv, [Next]_vars
             PROVE  [Contract!Next]_(Contract!vars)
  OBVIOUS
<1> USE DEF Contract!Next, Contract!vars
<1> DEFINE owned == \E p \in Pids : Occupied(p)
<1>0. (pc \in EmptyPoints => ~owned) /\ (done => pc \in EndPoints)
  BY DEF IInv, OwnInv, EndInv, NothingOwned
<1>1. CASE Loop
  <2>1. CASE StartFails
    <3>1. ~owned /\ ~done
      BY <2>1, <1>0 DEF StartFails, EmptyPoints, EndPoints
    <3>2. Contract!End
      BY <2>1, <3>1 DEF StartFails, Contract!End, Occupied, osVars, stopVars
    <3> QED BY <3>2
  <2>2. CASE Launch("build", "launched") \/ Launch("respawn", "relaunched")
    <3>1. ~owned
      BY <2>2, <1>0 DEF Launch, EmptyPoints
    <3>2. PICK p \in Pids : leader' = [leader EXCEPT ![p] = "live"]
      BY <2>2 DEF Launch
    <3>3. owned'
      BY <3>2 DEF Occupied, IInv, OwnType
    <3>4. Contract!Launch
      BY <2>2, <3>1, <3>3 DEF Launch, Contract!Launch, stopVars
    <3> QED BY <3>4
  <2>3. CASE \/ record("launched", "attach") \/ record("relaunched", "reattach")
             \/ postStart("attach") \/ postStart("reattach")
             \/ BackoffCancelled \/ BackoffExpires \/ Account \/ onTerminal
    <3>1. UNCHANGED Contract!vars
      BY <2>3 DEF record, postStart, BackoffCancelled, BackoffExpires,
         Account, onTerminal, osVars, stopVars, Occupied
    <3> QED BY <3>1
  <2>4. CASE LoopTop \/ Reap \/ Wait \/ AfterExit
    <3>1. /\ UNCHANGED <<cancelled, done>>
          /\ pc \notin {"build", "respawn"} /\ pc' \notin {"build", "respawn"}
      BY <2>4 DEF LoopTop, Reap, Wait, AfterExit, stopVars
    <3>2. owned' => owned
      BY <2>4 DEF LoopTop, Reap, Wait, AfterExit, killGroup, Occupied, osVars,
         Zombie, IInv, OwnType
    <3>3. CASE owned' = owned
      BY <3>1, <3>3
    <3>4. CASE owned /\ ~owned'
      BY <3>1, <3>4 DEF Contract!Vanish
    <3> QED BY <3>2, <3>3, <3>4
  <2>5. CASE Recheck
    <3>1. ~owned /\ ~done
      BY <2>5, <1>0 DEF Recheck, EmptyPoints, EndPoints
    <3>2. CASE cancelled
      BY <2>5, <3>2 DEF Recheck, stopVars, osVars, Occupied
    <3>3. CASE ~cancelled
      BY <2>5, <3>1, <3>3 DEF Recheck, stopVars, osVars, Occupied,
         Contract!Decide
    <3> QED BY <3>2, <3>3
  <2>6. CASE RespawnFails
    <3>1. Contract!LaunchFails
      BY <2>6 DEF RespawnFails, stopVars, osVars, Occupied,
         Contract!LaunchFails
    <3> QED BY <3>1
  <2>7. CASE closeDone
    <3>1. ~owned /\ ~done
      BY <2>7, <1>0 DEF closeDone, EmptyPoints, EndPoints
    <3>2. Contract!End
      BY <2>7, <3>1 DEF closeDone, stopVars, osVars, Occupied, Contract!End
    <3> QED BY <3>2
  <2> QED BY <1>1, <2>1, <2>2, <2>3, <2>4, <2>5, <2>6, <2>7 DEF Loop
<1>2. ASSUME NEW s \in Stoppers, Stop(s)
      PROVE  [Contract!Next]_(Contract!vars)
  <2>1. CASE StopCancel(s)
    BY <2>1 DEF StopCancel, stopStep, runVars, osVars, Occupied, Contract!Ask
  <2>2. CASE \/ StopTerm(s) \/ GraceExpires(s) \/ StopReread(s)
             \/ StopDone(s, "grace") \/ StopDone(s, "final")
    <3>1. UNCHANGED Contract!vars
      BY <2>2 DEF StopTerm, GraceExpires, StopReread, StopDone, stopStep,
         runVars, osVars, Occupied
    <3> QED BY <3>1
  <2>3. CASE StopKill(s)
    <3>1. UNCHANGED <<cancelled, done, pc>>
      BY <2>3 DEF StopKill, stopStep, runVars
    <3>2. owned' => owned
      BY <2>3 DEF StopKill, killGroup, Occupied, IInv, OwnType
    <3>3. CASE owned' = owned
      BY <3>1, <3>3
    <3>4. CASE owned /\ ~owned'
      BY <3>1, <3>4 DEF Contract!Vanish
    <3> QED BY <3>2, <3>3, <3>4
  <2> QED BY <1>2, <2>1, <2>2, <2>3 DEF Stop
<1>3. ASSUME NEW p \in Pids, LeaderExits(p) \/ ForksExit(p)
      PROVE  [Contract!Next]_(Contract!vars)
  <2>1. UNCHANGED <<cancelled, done, pc>>
    BY <1>3 DEF LeaderExits, ForksExit, runVars, stopVars
  <2>2. owned' => owned
    BY <1>3 DEF LeaderExits, ForksExit, Occupied, IInv, OwnType
  <2>3. CASE owned' = owned
    BY <2>1, <2>3
  <2>4. CASE owned /\ ~owned'
    BY <2>1, <2>4 DEF Contract!Vanish
  <2> QED BY <2>2, <2>3, <2>4
<1>4. CASE Tick \/ UNCHANGED vars
  BY <1>4 DEF Tick, vars, runVars, stopVars, osVars, Occupied
<1> QED BY <1>1, <1>2, <1>3, <1>4 DEF Next

\* The safety part of the contract: what Decide, Launch, Vanish, Ask and End
\* allow is all a runner ever does.
THEOREM RunnerKeepsContract ==
  Spec => Contract!Init /\ [][Contract!Next]_(Contract!vars)
<1>1. Init => Contract!Init
  BY InitContract
<1>2. IInv /\ [Next]_vars => [Contract!Next]_(Contract!vars)
  BY StepContract
<1> QED BY <1>1, <1>2, Invariance, PTL DEF Spec
=============================================================================
