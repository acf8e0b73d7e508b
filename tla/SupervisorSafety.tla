-------------------------- MODULE SupervisorSafety --------------------------
(***************************************************************************)
(* The supervisor owns the screen it believes it owns, until Shutdown and  *)
(* for every set of callers, of runners and of modes: no child runs        *)
(* unsupervised, each surface has one owner, a KMS mode is alone, a        *)
(* successful switch has installed what it was asked for, and a recovery   *)
(* records what it has left on screen.                                     *)
(*                                                                         *)
(* An operation takes the screen apart and puts it together again, so what *)
(* holds of the surfaces depends on where the holder of the token is.      *)
(* Arranged(t) says it for goroutine t at its point: which surfaces are    *)
(* uninstalled, which runners it has in hand, what the mode it works for   *)
(* is, and that every runner with a child is installed or one of those in  *)
(* hand.  The invariant is that whoever may touch the screen finds it      *)
(* arranged: the holder of the token, or anybody while there is none.  A   *)
(* runner's own loop goes on without the token, but changes no surface and *)
(* gives no child to a runner that was over (LoopKeeps).                   *)
(***************************************************************************)
EXTENDS SupervisorProofs

\* Points at which no foreground, or no base, is installed.
FgUninstalled ==
    {"fgStopping", "earlyVT", "startFg", "installFg", "newStopping",
     "backToBase", "yielding", "yielded", "offStopping", "off", "inPlace",
     "primary", "prevStopping", "surface", "startPrimary", "attachPrimary",
     "installPrimary", "startFailed", "fallback", "returnVT", "idleScreen"}

BaseUninstalled ==
    {"baseStopping", "offStopping", "off", "prevStopping", "surface",
     "startPrimary", "attachPrimary", "installPrimary", "startFailed",
     "fallback", "kiosk", "attachKiosk", "installKiosk", "idleScreen", "toX"}

\* Points at which the base noted in the locals is the installed one.
BaseNoted == {"earlyVT", "startFg", "compositor", "yielding", "yielded",
              "inPlace", "primary", "navigate"}

\* Points at which an old runner is being stopped, ...
OldForeground == {"fgStopping", "yielding"}
OldBase       == {"baseStopping", "offStopping", "prevStopping"}

\* ... or a new one is in hand, not yet installed or just installed.
NewForeground == {"installFg", "newStopping"}
ForegroundUp  == {"showFg", "freeBase", "baseStopping"}
NewPrimary    == {"attachPrimary", "installPrimary"}
NewKiosk      == {"attachKiosk", "installKiosk"}

\* The functions of supervisor.go, as the points a goroutine passes in them.
ForegroundPath ==
    {"cogOpen", "fgStopping", "earlyVT", "startFg", "installFg", "showFg",
     "newStopping", "freeBase", "baseStopping"}

CompositorPath == {"compositor", "yielding", "yielded", "offStopping", "off"}

PrimaryPath == {"inPlace", "primary", "prevStopping", "surface",
                "startPrimary", "attachPrimary", "installPrimary"}

RecoveryPath ==
    {"primary", "surface", "startPrimary", "attachPrimary", "installPrimary",
     "startFailed", "fallback", "kiosk", "attachKiosk", "installKiosk",
     "returnVT", "idleScreen", "settle", "settleRecord", "release"}

-----------------------------------------------------------------------------
baseMode(m) == ~foreground(m) /\ m.type # "off"
overlay(m)  == foreground(m) /\ m.type # "off"
started(r)  == r # NoRunner /\ rn[r].pt # "free"
overKms     == fgRunner # NoRunner /\ rn[fgRunner].mode.display = "kms"

\* What is installed was started, and is of the surface it is installed on; what
\* a foreground will bring back is a base.
Installed ==
    /\ runner # NoRunner => started(runner) /\ baseMode(rn[runner].mode)
    /\ fgRunner # NoRunner => started(fgRunner) /\ overlay(rn[fgRunner].mode)
    /\ \A r \in Runners : ~foreground(rn[r].back)

\* A KMS mode has no base behind it once it is shown.
KmsAlone(p) == p \notin {"showFg", "freeBase"} /\ overKms => runner = NoRunner

\* The surfaces, for a goroutine at point p with locals l.
Surfaces(p, l) ==
    /\ p \in FgUninstalled => fgRunner = NoRunner
    /\ p \in BaseUninstalled => runner = NoRunner
    /\ p \in {"foreground", "cogOpen", "compositor"} => l.fg = fgRunner
    /\ p \in BaseNoted => l.base = runner
    /\ p \in ForegroundUp => l.r = fgRunner
    /\ p \in {"toX", "kiosk"} \cup NewKiosk => ~overKms
    /\ p \in TokenPoints /\ l.op = "fgEnded" =>
          p \in RecoveryPath /\ fgRunner = NoRunner /\ l.base = NoRunner

\* The runners it has in hand: an old base is told to stop, so it restarts no
\* child; a new one runs the mode that is wanted.
InHand(p, l) ==
    /\ p \in OldForeground => started(l.fg) /\ overlay(rn[l.fg].mode)
    /\ p = "cogOpen" => started(l.fg) /\ isCogKiosk(rn[l.fg].mode)
    /\ p \in OldBase =>
          started(l.base) /\ baseMode(rn[l.base].mode) /\ rn[l.base].cancel
    /\ p = "navigate" => l.base # NoRunner
    /\ p = "inPlace" => /\ started(l.base) /\ rn[l.base].mode.type = l.m.type
                        /\ rn[l.base].mode.display = l.m.display
    /\ p \in NewForeground \cup ForegroundUp \cup NewPrimary =>
          started(l.r) /\ rn[l.r].mode = l.m
    /\ p \in NewKiosk => started(l.r) /\ rn[l.r].mode = WebKiosk(urlOf(l.m))
    /\ p \in {"attachPrimary", "attachKiosk"} => rn[l.r].pt = "attaching"

\* The mode it works for, and on whose behalf.
Wanted(t, p, l) ==
    /\ p = "foreground" => foreground(l.m)
    /\ p \in ForegroundPath => overlay(l.m)
    /\ p \in CompositorPath => ~foreground(l.m)
    /\ p \in PrimaryPath => baseMode(l.m)
    /\ p \in {"offStopping", "off"} => l.m.type = "off"
    /\ p \in {"earlyVT", "cogOpen"} => isCogKiosk(l.m)
    /\ p \in {"fallback", "idleScreen", "returnVT"} => l.op = "fgEnded"
    /\ p = "toX" => l.op = "primaryEnded"
    /\ p \in {"reattach", "navigate", "scroll"} => l.op = "other"
    /\ p = "settleRecord" => l.m = Status
    /\ p \in {"returnVT", "idleScreen", "settle", "settleRecord"} =>
          t \in Runners
    /\ p \in TokenPoints /\ t \in Runners => l.op \in {"fgEnded", "primaryEnded"}

\* What was asked for is installed, and nothing over it.
Delivered(m) ==
    /\ m.type = "off" => runner = NoRunner /\ fgRunner = NoRunner
    /\ overlay(m) => /\ fgRunner # NoRunner
                     /\ equivalent(rn[fgRunner].mode, m)
    /\ baseMode(m) => /\ runner # NoRunner /\ fgRunner = NoRunner
                      /\ equivalent(rn[runner].mode, m)

\* What a switch that is about to report success has installed.
Delivers(p, l) ==
    p = "release" /\ l.op = "switch" /\ l.ok => Delivered(l.m)

\* Every runner that has a child, or will, is installed or in hand.
Homed(p, l) ==
    \A q \in Runners : restless(q) =>
        IF foreground(rn[q].mode)
        THEN \/ q = fgRunner
             \/ p \in OldForeground /\ q = l.fg
             \/ p \in NewForeground /\ q = l.r
        ELSE \/ q = runner
             \/ p \in OldBase /\ q = l.base
             \/ p \in NewPrimary \cup NewKiosk /\ q = l.r

Arranged(t) ==
    /\ Installed /\ KmsAlone(pc[t])
    /\ Surfaces(pc[t], loc[t]) /\ InHand(pc[t], loc[t])
    /\ Wanted(t, pc[t], loc[t]) /\ Delivers(pc[t], loc[t])
    /\ Homed(pc[t], loc[t])

-----------------------------------------------------------------------------
\* Stop(r) tells r to stop and changes nothing else about the runners.
LEMMA CancelKeeps ==
  ASSUME DataOK, NEW r \in Runners, rn' = cancelled(r)
  PROVE  /\ rn'[r].cancel
         /\ \A q \in Runners : /\ rn'[q].mode = rn[q].mode
                               /\ rn'[q].pt = rn[q].pt
                               /\ rn'[q].back = rn[q].back
  BY DEF DataOK, RunnerRecord, cancelled

\* The modes the supervisor makes up are no foreground modes.
LEMMA NotForeground ==
  /\ ~foreground(ZeroMode)
  /\ \A u : ~foreground(WebKiosk(u)) /\ WebKiosk(u).type # "off"
  BY DEF foreground, ZeroMode, WebKiosk

\* Where a step takes its goroutine.
LEMMA GotoAt ==
  ASSUME TokenInv, NEW t \in Threads, NEW point, goto(t, point)
  PROVE  pc'[t] = point
  BY DEF goto, TokenInv

\* An operation that is over keeps all it noted but its outcome.
LEMMA FinishAt ==
  ASSUME TokenInv, DataOK, NEW t \in Threads, NEW ok \in BOOLEAN, finish(t, ok)
  PROVE  /\ pc'[t] = "release"
         /\ loc'[t].op = loc[t].op /\ loc'[t].m = loc[t].m
         /\ loc'[t].base = loc[t].base /\ loc'[t].ok = ok
  BY DEF finish, goto, TokenInv, DataOK, Locals

\* A field of t's locals is assigned.
LEMMA LocalKeeps ==
  ASSUME DataOK, NEW t \in Threads, NEW v
  PROVE  /\ loc' = [loc EXCEPT ![t].base = v] =>
              /\ loc'[t].base = v /\ loc'[t].op = loc[t].op /\ loc'[t].m = loc[t].m
              /\ loc'[t].fg = loc[t].fg /\ loc'[t].r = loc[t].r
              /\ loc'[t].ok = loc[t].ok
         /\ loc' = [loc EXCEPT ![t].r = v] =>
              /\ loc'[t].r = v /\ loc'[t].op = loc[t].op /\ loc'[t].m = loc[t].m
              /\ loc'[t].fg = loc[t].fg /\ loc'[t].base = loc[t].base
              /\ loc'[t].ok = loc[t].ok
         /\ loc' = [loc EXCEPT ![t].m = v] =>
              /\ loc'[t].m = v /\ loc'[t].op = loc[t].op /\ loc'[t].r = loc[t].r
              /\ loc'[t].fg = loc[t].fg /\ loc'[t].base = loc[t].base
              /\ loc'[t].ok = loc[t].ok
  BY DEF DataOK, Locals

\* The runners a goroutine may have in hand, and the surfaces.
LEMMA Surfaced ==
  ASSUME DataOK, NEW t \in Threads
  PROVE  /\ loc[t].fg \in Runners \cup {NoRunner}
         /\ loc[t].r \in Runners \cup {NoRunner}
         /\ loc[t].base \in Runners \cup {NoRunner}
         /\ runner \in Runners \cup {NoRunner}
         /\ fgRunner \in Runners \cup {NoRunner}
         /\ NoRunner \notin Runners
  BY LocalTypes, ThreadAssumption DEF DataOK

\* An operation that leaves the surfaces as they are is over.
LEMMA FinishArranged ==
  ASSUME TypeInv, NEW t \in Threads, Arranged(t), holds(t),
         UNCHANGED <<surfaces, rn>>, NEW ok \in BOOLEAN, finish(t, ok),
         KmsAlone("release"), Homed("release", loc[t]),
         ok /\ loc[t].op = "switch" => Delivered(loc[t].m)
  PROVE  Arranged(t)'
<1>1. /\ pc'[t] = "release"
      /\ loc'[t].op = loc[t].op /\ loc'[t].m = loc[t].m
      /\ loc'[t].base = loc[t].base /\ loc'[t].ok = ok
      /\ runner' = runner /\ fgRunner' = fgRunner /\ rn' = rn
  BY FinishAt DEF surfaces, TypeInv
<1> QED
  BY <1>1 DEF holds, Arranged, Installed, KmsAlone, overKms, Surfaces, InHand,
       Wanted, Delivers, Delivered, Homed, started, restless, TokenPoints,
       FgUninstalled, BaseUninstalled, BaseNoted, OldForeground, OldBase,
       NewForeground, ForegroundUp, NewPrimary, NewKiosk, ForegroundPath,
       CompositorPath, PrimaryPath, RecoveryPath

\* Every step of switchForeground leaves the screen arranged.
LEMMA ForegroundArranged ==
  ASSUME TypeInv, NEW t \in Threads, Arranged(t), SwitchForeground(t)
  PROVE  Arranged(t)'
<1>a. TokenInv /\ DataOK
  BY DEF TypeInv
<1>b. /\ loc[t].fg \in Runners \cup {NoRunner}
      /\ loc[t].r \in Runners \cup {NoRunner}
      /\ loc[t].base \in Runners \cup {NoRunner}
      /\ runner \in Runners \cup {NoRunner}
      /\ fgRunner \in Runners \cup {NoRunner}
      /\ NoRunner \notin Runners
  BY <1>a, Surfaced
<1>h. holds(t)
  BY ForegroundMoves
<1> USE <1>b DEF Arranged, Installed, KmsAlone, overKms, Surfaces, InHand,
     Wanted, Delivers, Delivered, Homed, started, restless, overlay, baseMode,
     TokenPoints, FgUninstalled, BaseUninstalled, BaseNoted, OldForeground,
     OldBase, NewForeground, ForegroundUp, NewPrimary, NewKiosk,
     ForegroundPath, CompositorPath, PrimaryPath, RecoveryPath
<1>1. CASE ShowSameForeground(t)
  <2>1. PICK ok \in BOOLEAN : finish(t, ok)
    BY <1>1 DEF ShowSameForeground
  <2>2. pc[t] = "foreground" /\ sameForeground(t) /\ UNCHANGED <<surfaces, rn>>
    BY <1>1 DEF ShowSameForeground, surfaces, at
  <2>3. Delivered(loc[t].m)
    BY <2>2 DEF sameForeground, runningMode, equivalent
  <2>4. KmsAlone("release") /\ Homed("release", loc[t])
    BY <2>2
  <2> HIDE DEF Arranged, KmsAlone, Homed, Delivered
  <2> QED BY <1>h, <2>1, <2>2, <2>3, <2>4, FinishArranged
<1>2. CASE CogToFront(t)
  <2>1. CASE finish(t, FALSE)
    <3>1. pc[t] = "foreground" /\ UNCHANGED <<surfaces, rn>>
      BY <1>2 DEF CogToFront, surfaces, at
    <3>2. KmsAlone("release") /\ Homed("release", loc[t])
      BY <3>1
    <3> QED BY <1>h, <2>1, <3>1, <3>2, FinishArranged
  <2>2. CASE goto(t, "cogOpen") /\ UNCHANGED loc
    <3>1. /\ pc'[t] = "cogOpen" /\ loc' = loc
        /\ runner' = runner /\ fgRunner' = fgRunner /\ rn' = rn
        /\ pc[t] = "foreground" /\ cogInPlace(t)
      BY <1>a, <2>2, <1>2, GotoAt DEF CogToFront, surfaces, at
    <3> QED BY <3>1 DEF cogInPlace, cogUp, isCogKiosk, foreground
  <2> QED BY <1>2, <2>1, <2>2 DEF CogToFront
<1>3. CASE CogOpen(t)
  <2>1. pc[t] = "cogOpen" /\ UNCHANGED surfaces
    BY <1>3 DEF CogOpen, at
  <2>2. KmsAlone("release") /\ Homed("release", loc[t])
    BY <2>1
  <2>3. CASE finish(t, FALSE) /\ UNCHANGED rn
    <3> HIDE DEF Arranged, KmsAlone, Homed, Delivered
    <3> QED BY <1>h, <2>1, <2>2, <2>3, FinishArranged
  <2>4. CASE finish(t, TRUE) /\ rn' = [rn EXCEPT ![loc[t].fg].mode = loc[t].m]
    <3>1. /\ pc'[t] = "release"
          /\ loc'[t].op = loc[t].op /\ loc'[t].m = loc[t].m
          /\ loc'[t].base = loc[t].base /\ loc'[t].ok = TRUE
      BY <1>a, <2>4, FinishAt
    <3>2. loc[t].fg \in Runners /\ loc[t].fg = fgRunner
      BY <2>1
    <3>3. /\ rn'[fgRunner].mode = loc[t].m
          /\ \A q \in Runners : /\ q # fgRunner => rn'[q].mode = rn[q].mode
                               /\ rn'[q].pt = rn[q].pt
                               /\ rn'[q].back = rn[q].back
      <4>1. rn' = [rn EXCEPT ![fgRunner].mode = loc[t].m]
        BY <2>4, <3>2
      <4> QED BY <4>1, <3>2, <1>a DEF DataOK, RunnerRecord
    <3>4. UNCHANGED <<runner, fgRunner>>
      BY <2>1 DEF surfaces
    <3> QED BY <2>1, <3>1, <3>2, <3>3, <3>4 DEF isCogKiosk, foreground,
         equivalent
  <2> QED BY <1>3, <2>1, <2>3, <2>4 DEF CogOpen
<1>4. CASE ForegroundRefused(t)
  <2>1. pc[t] = "foreground" /\ UNCHANGED <<surfaces, rn>>
    BY <1>4 DEF ForegroundRefused, at, surfaces
  <2>2. KmsAlone("release") /\ Homed("release", loc[t])
    BY <2>1
  <2> QED BY <1>4, <1>h, <2>1, <2>2, FinishArranged DEF ForegroundRefused
<1>f. ASSUME foregroundFree(t), UNCHANGED <<surfaces, rn>>,
             \/ /\ pc[t] = "foreground" /\ loc[t].fg = NoRunner
                /\ loc[t].m.type # "off"
             \/ pc[t] = "fgStopping" /\ isDone(loc[t].fg)
      PROVE  Arranged(t)'
  <2>1. /\ loc'[t].base = runner /\ loc'[t].op = loc[t].op /\ loc'[t].m = loc[t].m
        /\ loc'[t].fg = loc[t].fg /\ loc'[t].r = loc[t].r
        /\ runner' = runner /\ fgRunner' = fgRunner /\ rn' = rn
    BY <1>a, <1>f, LocalKeeps DEF foregroundFree, surfaces
  <2>2. pc'[t] = IF isCogKiosk(loc[t].m) THEN "earlyVT" ELSE "startFg"
    BY <1>a, <1>f, GotoAt DEF foregroundFree
  <2> QED BY <2>1, <2>2, <1>f DEF isDone, OverPoints, ChildPoints
<1>5. CASE ReplaceForeground(t)
  <2>1. CASE loc[t].fg = NoRunner
    <3>1. /\ foregroundFree(t) /\ UNCHANGED <<surfaces, rn>>
          /\ pc[t] = "foreground" /\ loc[t].m.type # "off"
      BY <1>5, <2>1 DEF ReplaceForeground, at, surfaces
    <3> QED BY <2>1, <3>1, <1>f
  <2>2. CASE loc[t].fg # NoRunner
    <3>1. /\ pc'[t] = "fgStopping" /\ pc[t] = "foreground" /\ loc' = loc
          /\ fgRunner' = NoRunner /\ runner' = runner
          /\ rn' = cancelled(loc[t].fg) /\ loc[t].fg \in Runners
          /\ loc[t].m.type # "off"
      BY <1>a, <1>5, <2>2, GotoAt DEF ReplaceForeground, at
    <3>2. \A q \in Runners : /\ rn'[q].mode = rn[q].mode
                             /\ rn'[q].pt = rn[q].pt
                             /\ rn'[q].back = rn[q].back
      BY <1>a, <3>1, CancelKeeps
    <3> QED BY <3>1, <3>2
  <2> QED BY <2>1, <2>2
<1>6. CASE OldForegroundStopped(t)
  BY <1>6, <1>f DEF OldForegroundStopped, at, surfaces
<1>7. CASE EarlyVT(t)
  <2>1. /\ pc'[t] \in {"startFg", "backToBase"} /\ pc[t] = "earlyVT" /\ loc' = loc
        /\ fgRunner' = fgRunner /\ runner' = runner /\ rn' = rn
    BY <1>a, <1>7, GotoAt DEF EarlyVT, at, surfaces
  <2> QED BY <2>1
<1>8. CASE StartForeground(t)
  <2>1. CASE goto(t, "backToBase") /\ UNCHANGED <<rn, loc>>
    <3>1. /\ pc'[t] = "backToBase" /\ pc[t] = "startFg" /\ loc' = loc
          /\ fgRunner' = fgRunner /\ runner' = runner /\ rn' = rn
      BY <1>a, <1>8, <2>1, GotoAt DEF StartForeground, at, surfaces
    <3> QED BY <3>1
  <2>2. ASSUME NEW r \in Runners, garbage(r),
               rn' = [rn EXCEPT ![r] = newRunner(loc[t].m, "up", "foreground",
                                           currentBaseMode(loc[t].base))],
               loc' = [loc EXCEPT ![t].r = r], goto(t, "installFg")
        PROVE  Arranged(t)'
    <3>1. /\ pc'[t] = "installFg" /\ pc[t] = "startFg"
          /\ loc'[t].r = r /\ loc'[t].op = loc[t].op /\ loc'[t].m = loc[t].m
          /\ fgRunner' = fgRunner /\ runner' = runner
      <4> HIDE DEF Arranged, KmsAlone, Homed, Delivered
      <4> QED BY <1>a, <1>8, <2>2, GotoAt, LocalKeeps DEF StartForeground, at, surfaces
    <3>2. /\ rn'[r] = newRunner(loc[t].m, "up", "foreground",
                                           currentBaseMode(loc[t].base))
          /\ \A q \in Runners \ {r} : rn'[q] = rn[q]
          /\ ~restless(r)
          /\ \/ rn[r].pt = "free" \/ r \notin {runner, fgRunner}
      BY <1>a, <2>2 DEF DataOK, garbage
    <3>3. rn'[r].mode = loc[t].m /\ rn'[r].pt = "up"
          /\ rn'[r].back = currentBaseMode(loc[t].base)
      BY <3>2 DEF newRunner
    <3>4. ~foreground(currentBaseMode(loc[t].base))
      BY <3>1 DEF currentBaseMode, foreground, ZeroMode
    <3>5. Installed'
      BY <3>1, <3>2, <3>3, <3>4
    <3>6. Homed(pc[t], loc[t])'
      BY <3>1, <3>2, <3>3
    <3> QED BY <3>1, <3>2, <3>3, <3>4, <3>5, <3>6
  <2> QED BY <1>8, <2>1, <2>2 DEF StartForeground
<1>9. CASE BackToBase(t)
  <2>1. pc[t] = "backToBase" /\ UNCHANGED <<surfaces, rn>>
    BY <1>9 DEF BackToBase, at, surfaces
  <2>2. KmsAlone("release") /\ Homed("release", loc[t])
    BY <2>1
  <2> QED BY <1>9, <1>h, <2>1, <2>2, FinishArranged DEF BackToBase
<1>10. CASE InstallForeground(t)
  <2>1. /\ pc'[t] = IF isCogKiosk(loc[t].m) THEN "freeBase" ELSE "showFg"
        /\ pc[t] = "installFg" /\ loc' = loc
        /\ fgRunner' = loc[t].r /\ runner' = runner /\ rn' = rn
    BY <1>a, <1>10, GotoAt DEF InstallForeground, at
  <2> QED BY <2>1
<1>11. CASE ShowForeground(t)
  <2>1. pc[t] = "showFg" /\ runner' = runner /\ loc' = loc
    BY <1>11 DEF ShowForeground, at
  <2>2. CASE goto(t, "freeBase") /\ UNCHANGED <<fgRunner, rn>>
    <3>1. pc'[t] = "freeBase"
      BY <1>a, <2>2, GotoAt
    <3> QED BY <2>1, <2>2, <3>1
  <2>3. CASE goto(t, "newStopping") /\ fgRunner' = NoRunner /\ rn' = cancelled(loc[t].r)
    <3>1. pc'[t] = "newStopping" /\ loc[t].r \in Runners
      BY <1>a, <2>1, <2>3, GotoAt
    <3>2. \A q \in Runners : /\ rn'[q].mode = rn[q].mode
                             /\ rn'[q].pt = rn[q].pt
                             /\ rn'[q].back = rn[q].back
      BY <1>a, <2>3, <3>1, CancelKeeps
    <3> QED BY <2>1, <2>3, <3>1, <3>2
  <2> QED BY <1>11, <2>1, <2>2, <2>3 DEF ShowForeground
<1>12. CASE NewForegroundStopped(t)
  <2>1. pc[t] = "newStopping" /\ isDone(loc[t].r) /\ UNCHANGED <<surfaces, rn>>
    BY <1>12 DEF NewForegroundStopped, at, surfaces
  <2>2. KmsAlone("release") /\ Homed("release", loc[t])
    BY <2>1 DEF isDone, OverPoints, ChildPoints
  <2> QED BY <1>12, <1>h, <2>1, <2>2, FinishArranged DEF NewForegroundStopped
<1>13. CASE FreeBase(t)
  <2>1. pc[t] = "freeBase" /\ fgRunner' = fgRunner
    BY <1>13 DEF FreeBase, at
  <2>2. Delivered(loc[t].m)
    BY <2>1 DEF equivalent
  <2>3. CASE loc[t].m.display = "kms" /\ runner # NoRunner
    <3>1. /\ pc'[t] = "baseStopping" /\ runner' = NoRunner /\ rn' = cancelled(runner)
          /\ loc'[t].base = runner /\ loc'[t].r = loc[t].r /\ loc'[t].op = loc[t].op
          /\ loc'[t].m = loc[t].m
      BY <1>13, <2>3, <1>a, GotoAt, LocalKeeps DEF FreeBase
    <3>2. /\ \A q \in Runners : /\ rn'[q].mode = rn[q].mode
                             /\ rn'[q].pt = rn[q].pt
                             /\ rn'[q].back = rn[q].back
          /\ rn'[runner].cancel
      BY <1>a, <2>3, <3>1, CancelKeeps
    <3> QED BY <2>1, <2>3, <3>1, <3>2
  <2>4. CASE ~(loc[t].m.display = "kms" /\ runner # NoRunner)
    <3>1. KmsAlone("release") /\ Homed("release", loc[t])
      BY <2>1, <2>4
    <3>2. UNCHANGED <<surfaces, rn>> /\ finish(t, TRUE)
      BY <1>13, <2>4 DEF FreeBase, surfaces
    <3> HIDE DEF Arranged, KmsAlone, Homed, Delivered
    <3> QED BY <1>h, <2>2, <3>1, <3>2, FinishArranged
  <2> QED BY <2>3, <2>4
<1>14. CASE BaseFreed(t)
  <2>1. pc[t] = "baseStopping" /\ isDone(loc[t].base) /\ UNCHANGED <<surfaces, rn>>
    BY <1>14 DEF BaseFreed, at, surfaces
  <2>2. KmsAlone("release") /\ Homed("release", loc[t])
    BY <2>1 DEF isDone, OverPoints, ChildPoints
  <2>3. Delivered(loc[t].m)
    BY <2>1 DEF equivalent
  <2> HIDE DEF Arranged, KmsAlone, Homed, Delivered
  <2> QED BY <1>14, <1>h, <2>1, <2>2, <2>3, FinishArranged DEF BaseFreed
<1> QED
  BY <1>1, <1>2, <1>3, <1>4, <1>5, <1>6, <1>7, <1>8, <1>9, <1>10, <1>11,
     <1>12, <1>13, <1>14 DEF SwitchForeground

\* Every step of switchCompositor leaves the screen arranged.
LEMMA CompositorArranged ==
  ASSUME TypeInv, NEW t \in Threads, Arranged(t), SwitchCompositor(t)
  PROVE  Arranged(t)'
<1>a. TokenInv /\ DataOK
  BY DEF TypeInv
<1>b. /\ loc[t].fg \in Runners \cup {NoRunner}
      /\ loc[t].r \in Runners \cup {NoRunner}
      /\ loc[t].base \in Runners \cup {NoRunner}
      /\ runner \in Runners \cup {NoRunner}
      /\ fgRunner \in Runners \cup {NoRunner}
      /\ NoRunner \notin Runners
  BY <1>a, Surfaced
<1>h. holds(t)
  BY CompositorMoves
<1> USE <1>b DEF Arranged, Installed, KmsAlone, overKms, Surfaces, InHand,
     Wanted, Delivers, Delivered, Homed, started, restless, overlay, baseMode,
     TokenPoints, FgUninstalled, BaseUninstalled, BaseNoted, OldForeground,
     OldBase, NewForeground, ForegroundUp, NewPrimary, NewKiosk,
     ForegroundPath, CompositorPath, PrimaryPath, RecoveryPath
<1>1. CASE YieldForeground(t)
  <2>1. pc[t] = "compositor" /\ loc' = loc /\ runner' = runner
    BY <1>1 DEF YieldForeground, at
  <2>2. CASE loc[t].fg = NoRunner
    <3>1. pc'[t] = "yielded" /\ fgRunner' = fgRunner /\ rn' = rn
      BY <1>1, <1>a, <2>2, GotoAt DEF YieldForeground
    <3> QED BY <2>1, <2>2, <3>1
  <2>3. CASE loc[t].fg # NoRunner
    <3>1. /\ pc'[t] = "yielding" /\ fgRunner' = NoRunner
          /\ rn' = cancelled(loc[t].fg)
      BY <1>1, <1>a, <2>3, GotoAt DEF YieldForeground
    <3>2. \A q \in Runners : /\ rn'[q].mode = rn[q].mode
                             /\ rn'[q].pt = rn[q].pt
                             /\ rn'[q].back = rn[q].back
      BY <1>a, <2>3, <3>1, CancelKeeps
    <3> QED BY <2>1, <2>3, <3>1, <3>2
  <2> QED BY <2>2, <2>3
<1>2. CASE ForegroundYielded(t)
  <2>1. /\ pc[t] = "yielding" /\ pc'[t] = "yielded" /\ loc' = loc
        /\ runner' = runner /\ fgRunner' = fgRunner /\ rn' = rn
        /\ isDone(loc[t].fg)
    BY <1>2, <1>a, GotoAt DEF ForegroundYielded, at, surfaces
  <2> QED BY <2>1 DEF isDone, OverPoints, ChildPoints
<1>3. CASE SwitchOff(t)
  <2>1. pc[t] = "yielded" /\ loc' = loc /\ fgRunner' = fgRunner /\ loc[t].m.type = "off"
    BY <1>3 DEF SwitchOff, at
  <2>2. CASE loc[t].base = NoRunner
    <3>1. pc'[t] = "off" /\ runner' = runner /\ rn' = rn
      BY <1>3, <1>a, <2>2, GotoAt DEF SwitchOff
    <3> QED BY <2>1, <2>2, <3>1
  <2>3. CASE loc[t].base # NoRunner
    <3>1. /\ pc'[t] = "offStopping" /\ runner' = NoRunner
          /\ rn' = cancelled(loc[t].base)
      BY <1>3, <1>a, <2>3, GotoAt DEF SwitchOff
    <3>2. /\ rn'[loc[t].base].cancel
          /\ \A q \in Runners : /\ rn'[q].mode = rn[q].mode
                             /\ rn'[q].pt = rn[q].pt
                             /\ rn'[q].back = rn[q].back
      BY <1>a, <2>3, <3>1, CancelKeeps
    <3> QED BY <2>1, <2>3, <3>1, <3>2
  <2> QED BY <2>2, <2>3
<1>4. CASE BaseOff(t)
  <2>1. /\ pc[t] = "offStopping" /\ pc'[t] = "off" /\ loc' = loc
        /\ runner' = runner /\ fgRunner' = fgRunner /\ rn' = rn
        /\ isDone(loc[t].base)
    BY <1>4, <1>a, GotoAt DEF BaseOff, at, surfaces
  <2> QED BY <2>1 DEF isDone, OverPoints, ChildPoints
<1>5. CASE ScreenOff(t)
  <2>1. pc[t] = "off" /\ UNCHANGED <<surfaces, rn>> /\ finish(t, TRUE)
    BY <1>5 DEF ScreenOff, at, surfaces
  <2>2. KmsAlone("release") /\ Homed("release", loc[t])
    BY <2>1
  <2>3. Delivered(loc[t].m)
    BY <2>1
  <2> HIDE DEF Arranged, KmsAlone, Homed, Delivered
  <2> QED BY <1>h, <2>1, <2>2, <2>3, FinishArranged
<1>6. CASE KeepBase(t)
  <2>1. pc[t] = "yielded" /\ UNCHANGED <<surfaces, rn>> /\ loc[t].m.type # "off" /\ reuse(t)
    BY <1>6 DEF KeepBase, at, surfaces
  <2>2. CASE goto(t, "inPlace") /\ UNCHANGED loc /\ loc[t].m.type = "web"
    <3>1. /\ pc'[t] = "inPlace" /\ loc' = loc
          /\ runner' = runner /\ fgRunner' = fgRunner /\ rn' = rn
      BY <1>a, <2>1, <2>2, GotoAt DEF surfaces
    <3> QED BY <2>1, <2>2, <3>1 DEF reuse, sameBackend
  <2>3. CASE finish(t, TRUE) /\ loc[t].m.type # "web"
    <3>1. KmsAlone("release") /\ Homed("release", loc[t])
      BY <2>1
    <3>2. Delivered(loc[t].m)
      BY <2>1, <2>3 DEF reuse, sameBackend
    <3> HIDE DEF Arranged, KmsAlone, Homed, Delivered
    <3> QED BY <1>h, <2>1, <2>3, <3>1, <3>2, FinishArranged
  <2> QED BY <1>6, <2>2, <2>3 DEF KeepBase
<1>7. CASE InPlaceWeb(t)
  <2>1. pc[t] = "inPlace" /\ UNCHANGED surfaces
    BY <1>7 DEF InPlaceWeb, at
  <2>2. KmsAlone("release") /\ Homed("release", loc[t])
    BY <2>1
  <2>3. CASE finish(t, FALSE) /\ UNCHANGED rn
    BY <1>h, <2>1, <2>2, <2>3, FinishArranged
  <2>4. CASE finish(t, TRUE) /\ rn' = [rn EXCEPT ![runner].mode = loc[t].m]
    <3>1. /\ pc'[t] = "release"
          /\ loc'[t].op = loc[t].op /\ loc'[t].m = loc[t].m
          /\ loc'[t].base = loc[t].base /\ loc'[t].ok = TRUE
      BY <1>a, <2>4, FinishAt
    <3>2. runner \in Runners /\ loc[t].base = runner
      BY <2>1
    <3>3. /\ rn'[runner].mode = loc[t].m
          /\ \A q \in Runners : /\ q # runner => rn'[q].mode = rn[q].mode
                               /\ rn'[q].pt = rn[q].pt
                               /\ rn'[q].back = rn[q].back
      BY <2>4, <3>2, <1>a DEF DataOK, RunnerRecord
    <3>4. UNCHANGED <<runner, fgRunner>>
      BY <2>1 DEF surfaces
    <3> QED BY <2>1, <3>1, <3>2, <3>3, <3>4 DEF foreground, equivalent
  <2> QED BY <1>7, <2>1, <2>3, <2>4 DEF InPlaceWeb
<1>8. CASE ReplaceBase(t)
  <2>1. /\ pc[t] = "yielded" /\ pc'[t] = "primary" /\ loc' = loc
        /\ runner' = runner /\ fgRunner' = fgRunner /\ rn' = rn
        /\ loc[t].m.type # "off"
    BY <1>8, <1>a, GotoAt DEF ReplaceBase, at, surfaces
  <2> QED BY <2>1
<1> QED
  BY <1>1, <1>2, <1>3, <1>4, <1>5, <1>6, <1>7, <1>8 DEF SwitchCompositor

\* Every step of startPrimary and of restoreWebKiosk leaves the screen arranged.
LEMMA PrimaryArranged ==
  ASSUME TypeInv, NEW t \in Threads, Arranged(t), Primary(t)
  PROVE  Arranged(t)'
<1>a. TokenInv /\ DataOK
  BY DEF TypeInv
<1>b. /\ loc[t].fg \in Runners \cup {NoRunner}
      /\ loc[t].r \in Runners \cup {NoRunner}
      /\ loc[t].base \in Runners \cup {NoRunner}
      /\ runner \in Runners \cup {NoRunner}
      /\ fgRunner \in Runners \cup {NoRunner}
      /\ NoRunner \notin Runners
  BY <1>a, Surfaced
<1>h. holds(t)
  BY PrimaryMoves
<1> USE <1>b DEF Arranged, Installed, KmsAlone, overKms, Surfaces, InHand,
     Wanted, Delivers, Delivered, Homed, started, restless, overlay, baseMode,
     TokenPoints, FgUninstalled, BaseUninstalled, BaseNoted, OldForeground,
     OldBase, NewForeground, ForegroundUp, NewPrimary, NewKiosk,
     ForegroundPath, CompositorPath, PrimaryPath, RecoveryPath
<1>f. ASSUME failPrimary(t), UNCHANGED <<surfaces, rn>>,
             \/ pc[t] = "primary"
             \/ pc[t] = "startFailed"
      PROVE  Arranged(t)'
  <2>1. KmsAlone("release") /\ Homed("release", loc[t])
    BY <1>f
  <2>2. CASE finish(t, FALSE)
    BY <1>h, <1>f, <2>1, <2>2, FinishArranged
  <2>3. CASE loc[t].op = "fgEnded" /\ goto(t, "fallback") /\ UNCHANGED loc
    <3>1. /\ pc'[t] = "fallback" /\ loc' = loc
          /\ runner' = runner /\ fgRunner' = fgRunner /\ rn' = rn
      BY <1>a, <1>f, <2>3, GotoAt DEF surfaces
    <3> QED BY <1>f, <2>3, <3>1
  <2> QED BY <1>f, <2>2, <2>3 DEF failPrimary
<1>1. CASE PrimaryRefused(t)
  BY <1>1, <1>f DEF PrimaryRefused, at, surfaces
<1>2. CASE ReplacePrimary(t)
  <2>1. pc[t] = "primary" /\ loc' = loc /\ fgRunner' = fgRunner
    BY <1>2 DEF ReplacePrimary, at
  <2>2. CASE loc[t].base = NoRunner
    <3>1. pc'[t] = "surface" /\ runner' = runner /\ rn' = rn
      BY <1>2, <1>a, <2>2, GotoAt DEF ReplacePrimary
    <3> QED BY <2>1, <2>2, <3>1
  <2>3. CASE loc[t].base # NoRunner
    <3>1. /\ pc'[t] = "prevStopping" /\ runner' = NoRunner
          /\ rn' = cancelled(loc[t].base)
      BY <1>2, <1>a, <2>1, <2>3, GotoAt DEF ReplacePrimary
    <3>2. /\ rn'[loc[t].base].cancel
          /\ \A q \in Runners : /\ rn'[q].mode = rn[q].mode
                             /\ rn'[q].pt = rn[q].pt
                             /\ rn'[q].back = rn[q].back
      BY <1>a, <2>3, <3>1, CancelKeeps
    <3> QED BY <2>1, <2>3, <3>1, <3>2
  <2> QED BY <2>2, <2>3
<1>3. CASE PrevStopped(t)
  <2>1. /\ pc[t] = "prevStopping" /\ pc'[t] = "surface" /\ loc' = loc
        /\ runner' = runner /\ fgRunner' = fgRunner /\ rn' = rn
        /\ isDone(loc[t].base)
    BY <1>3, <1>a, GotoAt DEF PrevStopped, at, surfaces
  <2> QED BY <2>1 DEF isDone, OverPoints, ChildPoints
<1>4. CASE PrepareSurface(t)
  <2>1. /\ pc[t] = "surface" /\ pc'[t] = "startPrimary" /\ loc' = loc
        /\ runner' = runner /\ fgRunner' = fgRunner /\ rn' = rn
    BY <1>4, <1>a, GotoAt DEF PrepareSurface, at, surfaces
  <2> QED BY <2>1
<1>5. CASE StartPrimary(t)
  <2>1. CASE goto(t, "startFailed") /\ UNCHANGED <<rn, loc>>
    <3>1. /\ pc'[t] = "startFailed" /\ pc[t] = "startPrimary" /\ loc' = loc
          /\ fgRunner' = fgRunner /\ runner' = runner /\ rn' = rn
      BY <1>a, <1>5, <2>1, GotoAt DEF StartPrimary, at, surfaces
    <3> QED BY <3>1
  <2>2. ASSUME NEW r \in Runners, garbage(r), NEW hook,
               NEW back \in {WebKiosk(urlOf(loc[t].m)), ZeroMode},
               rn' = [rn EXCEPT ![r] = newRunner(loc[t].m,
                        IF usesChrome(loc[t].m) THEN "attaching" ELSE "up",
                        hook, back)],
               loc' = [loc EXCEPT ![t].r = r],
               goto(t, IF usesChrome(loc[t].m) THEN "attachPrimary"
                       ELSE "installPrimary")
        PROVE  Arranged(t)'
    <3>1. /\ pc'[t] = IF usesChrome(loc[t].m) THEN "attachPrimary"
                       ELSE "installPrimary"
          /\ pc[t] = "startPrimary"
          /\ loc'[t].r = r /\ loc'[t].op = loc[t].op /\ loc'[t].m = loc[t].m
          /\ loc'[t].base = loc[t].base
          /\ fgRunner' = fgRunner /\ runner' = runner
      BY <1>a, <1>5, <2>2, GotoAt, LocalKeeps DEF StartPrimary, at, surfaces
    <3>2. /\ rn'[r] = newRunner(loc[t].m,
                        IF usesChrome(loc[t].m) THEN "attaching" ELSE "up",
                        hook, back)
          /\ \A q \in Runners \ {r} : rn'[q] = rn[q]
          /\ ~restless(r)
          /\ \/ rn[r].pt = "free" \/ r \notin {runner, fgRunner}
      BY <1>a, <2>2 DEF DataOK, garbage
    <3>3. /\ rn'[r].mode = loc[t].m
          /\ rn'[r].pt = IF usesChrome(loc[t].m) THEN "attaching" ELSE "up"
          /\ rn'[r].back = back
      BY <3>2 DEF newRunner
    <3>4. ~foreground(back)
      BY <2>2, NotForeground
    <3>5. Installed'
      BY <3>1, <3>2, <3>3, <3>4
    <3>6. Homed(pc[t], loc[t])'
      BY <3>1, <3>2, <3>3
    <3> QED BY <3>1, <3>2, <3>3, <3>5, <3>6
  <2> QED BY <1>5, <2>1, <2>2 DEF StartPrimary
<1>6. CASE \/ Attach(t, "attachPrimary", "installPrimary")
           \/ Attach(t, "attachKiosk", "installKiosk")
  <2>1. /\ \/ pc[t] = "attachPrimary" /\ pc'[t] = "installPrimary"
           \/ pc[t] = "attachKiosk" /\ pc'[t] = "installKiosk"
        /\ loc' = loc /\ runner' = runner /\ fgRunner' = fgRunner
    BY <1>6, <1>a, GotoAt DEF Attach, at, surfaces
  <2>2. loc[t].r \in Runners
    BY <2>1
  <2>3. /\ \A q \in Runners : /\ rn'[q].mode = rn[q].mode
                              /\ rn'[q].back = rn[q].back
        /\ \A q \in Runners : q # loc[t].r => rn'[q].pt = rn[q].pt
        /\ rn'[loc[t].r].pt = "up"
    BY <1>6, <1>a, <2>2 DEF Attach, DataOK, RunnerRecord
  <2> QED BY <2>1, <2>2, <2>3 DEF ChildPoints
<1>r. ASSUME NEW ok \in BOOLEAN, returnFrom(t, ok), fgRunner' = fgRunner, rn' = rn,
             \/ pc[t] = "installPrimary" /\ runner' = loc[t].r
             \/ pc[t] = "installKiosk" /\ ~ok /\ runner' = loc[t].r
             \/ pc[t] = "kiosk" /\ ~ok /\ runner' = runner
      PROVE  Arranged(t)'
  <2>1. CASE t \in Runners /\ goto(t, "settle") /\ UNCHANGED loc
    <3>1. pc'[t] = "settle" /\ loc' = loc
      BY <1>a, <2>1, GotoAt
    <3> QED BY <2>1, <3>1, <1>r DEF foreground, WebKiosk
  <2>2. CASE finish(t, ok)
    <3>1. /\ pc'[t] = "release"
          /\ loc'[t].op = loc[t].op /\ loc'[t].m = loc[t].m
          /\ loc'[t].base = loc[t].base /\ loc'[t].ok = ok
      BY <1>a, <2>2, FinishAt
    <3> QED BY SMTT(30), <3>1, <1>r DEF foreground, WebKiosk, equivalent
  <2> QED BY <1>r, <2>1, <2>2 DEF returnFrom
<1>7. CASE InstallPrimary(t) \/ InstallKiosk(t)
  BY <1>7, <1>r DEF InstallPrimary, InstallKiosk, at
<1>8. CASE StartFailed(t)
  <2>1. pc[t] = "startFailed" /\ UNCHANGED <<surfaces, rn>>
    BY <1>8 DEF StartFailed, at, surfaces
  <2>2. CASE goto(t, "kiosk") /\ UNCHANGED loc
    <3>1. /\ pc'[t] = "kiosk" /\ loc' = loc
          /\ runner' = runner /\ fgRunner' = fgRunner /\ rn' = rn
      BY <1>a, <2>1, <2>2, GotoAt DEF surfaces
    <3> QED BY <2>1, <3>1
  <2> QED BY <1>8, <1>f, <2>1, <2>2 DEF StartFailed
<1>9. CASE Fallback(t)
  <2>1. /\ pc[t] = "fallback" /\ pc'[t] = "kiosk"
        /\ loc'[t].op = loc[t].op /\ loc'[t].base = loc[t].base
        /\ runner' = runner /\ fgRunner' = fgRunner /\ rn' = rn
    BY <1>9, <1>a, GotoAt, LocalKeeps DEF Fallback, at, surfaces
  <2> QED BY <2>1
<1>10. CASE StartKiosk(t)
  <2>1. pc[t] = "kiosk" /\ UNCHANGED surfaces
    BY <1>10 DEF StartKiosk, at
  <2>2. CASE returnFrom(t, FALSE) /\ UNCHANGED rn
    BY <2>1, <2>2, <1>r DEF surfaces
  <2>3. ASSUME NEW r \in Runners, garbage(r),
               rn' = [rn EXCEPT ![r] = newRunner(WebKiosk(urlOf(loc[t].m)),
                                           "attaching", "none", ZeroMode)],
               loc' = [loc EXCEPT ![t].r = r], goto(t, "attachKiosk")
        PROVE  Arranged(t)'
    <3>1. /\ pc'[t] = "attachKiosk"
          /\ loc'[t].r = r /\ loc'[t].op = loc[t].op /\ loc'[t].m = loc[t].m
          /\ loc'[t].base = loc[t].base
          /\ fgRunner' = fgRunner /\ runner' = runner
      <4> HIDE DEF Arranged, KmsAlone, Homed, Delivered
      <4> QED BY <1>a, <2>1, <2>3, GotoAt, LocalKeeps DEF surfaces
    <3>2. /\ rn'[r] = newRunner(WebKiosk(urlOf(loc[t].m)), "attaching", "none",
                                ZeroMode)
          /\ \A q \in Runners \ {r} : rn'[q] = rn[q]
          /\ ~restless(r)
          /\ \/ rn[r].pt = "free" \/ r \notin {runner, fgRunner}
      BY <1>a, <2>3 DEF DataOK, garbage
    <3>3. /\ rn'[r].mode = WebKiosk(urlOf(loc[t].m))
          /\ rn'[r].pt = "attaching" /\ ~foreground(rn'[r].back)
      BY <3>2, NotForeground DEF newRunner
    <3>5. Installed'
      BY <2>1, <3>1, <3>2, <3>3
    <3>6. Homed(pc[t], loc[t])'
      BY <2>1, <3>1, <3>2, <3>3 DEF foreground, WebKiosk
    <3>7. urlOf(loc[t].m)' = urlOf(loc[t].m)
      BY <3>1 DEF urlOf
    <3> QED BY <2>1, <3>1, <3>2, <3>3, <3>5, <3>6, <3>7
  <2> QED BY <1>10, <2>2, <2>3 DEF StartKiosk
<1> QED
  BY <1>1, <1>2, <1>3, <1>4, <1>5, <1>6, <1>7, <1>8, <1>9, <1>10 DEF Primary

\* The other steps of a goroutine that holds the token.
LEMMA HolderArranged ==
  ASSUME TypeInv, NEW t \in Threads, Arranged(t), Step(t), holds(t)
  PROVE  Arranged(t)'
<1>a. TokenInv /\ DataOK
  BY DEF TypeInv
<1>b. /\ loc[t].fg \in Runners \cup {NoRunner}
      /\ loc[t].r \in Runners \cup {NoRunner}
      /\ loc[t].base \in Runners \cup {NoRunner}
      /\ runner \in Runners \cup {NoRunner}
      /\ fgRunner \in Runners \cup {NoRunner}
      /\ NoRunner \notin Runners
  BY <1>a, Surfaced
<1>2. CASE Reattach(t) \/ ScrollPage(t)
  <2>1. /\ pc[t] \in {"reattach", "scroll"} /\ UNCHANGED <<surfaces, rn>>
        /\ \E ok \in BOOLEAN : finish(t, ok)
    BY <1>2 DEF Reattach, ScrollPage, at, surfaces
  <2>2. loc[t].op = "other"
    BY <2>1 DEF Arranged, Wanted
  <2>3. KmsAlone("release")
    BY <2>1 DEF Arranged, KmsAlone
  <2>4. Homed("release", loc[t])
    BY <2>1 DEF Arranged, Homed, OldForeground, OldBase, NewForeground,
       NewPrimary, NewKiosk
  <2> QED BY <2>1, <2>2, <2>3, <2>4, FinishArranged
<1>1. CASE SwitchForeground(t) \/ SwitchCompositor(t) \/ Primary(t)
  BY <1>1, ForegroundArranged, CompositorArranged, PrimaryArranged
<1> USE <1>b DEF Arranged, Installed, KmsAlone, overKms, Surfaces, InHand,
     Wanted, Delivers, Delivered, Homed, started, restless, overlay, baseMode,
     TokenPoints, FgUninstalled, BaseUninstalled, BaseNoted, OldForeground,
     OldBase, NewForeground, ForegroundUp, NewPrimary, NewKiosk,
     ForegroundPath, CompositorPath, PrimaryPath, RecoveryPath
<1>3. CASE Navigate(t)
  <2>1. pc[t] = "navigate" /\ UNCHANGED surfaces
    BY <1>3 DEF Navigate, at
  <2>2. KmsAlone("release") /\ Homed("release", loc[t])
    BY <2>1
  <2>3. CASE finish(t, FALSE) /\ UNCHANGED rn
    <3> HIDE DEF Arranged, KmsAlone, Homed, Delivered
    <3> QED BY <2>1, <2>2, <2>3, FinishArranged
  <2>4. CASE /\ finish(t, TRUE)
             /\ rn' = [rn EXCEPT ![loc[t].base].mode = setURL(@, loc[t].m.param)]
    <3>1. /\ pc'[t] = "release"
          /\ loc'[t].op = loc[t].op /\ loc'[t].m = loc[t].m
          /\ loc'[t].base = loc[t].base /\ loc'[t].ok = TRUE
      BY <1>a, <2>4, FinishAt
    <3>2. runner \in Runners /\ loc[t].base = runner
      BY <2>1
    <3>3. /\ rn'[runner].mode = setURL(rn[runner].mode, loc[t].m.param)
          /\ \A q \in Runners : /\ q # runner => rn'[q].mode = rn[q].mode
                               /\ rn'[q].pt = rn[q].pt
                               /\ rn'[q].back = rn[q].back
      BY <2>4, <3>2, <1>a DEF DataOK, RunnerRecord
    <3>4. UNCHANGED <<runner, fgRunner>>
      BY <2>1 DEF surfaces
    <3>5. rn[runner].mode \in AnyMode
      BY <3>2, <1>a DEF DataOK, RunnerRecord
    <3>6. /\ rn'[runner].mode.type = rn[runner].mode.type
          /\ rn'[runner].mode.display = rn[runner].mode.display
      BY <3>3, <3>5, ModeIsRecord DEF setURL
    <3> QED BY <2>1, <3>1, <3>2, <3>3, <3>4, <3>6 DEF foreground
  <2> QED BY <1>3, <2>1, <2>3, <2>4 DEF Navigate
<1>4. CASE Release(t)
  <2>1. /\ pc[t] = "release" /\ pc'[t] \notin TokenPoints
        /\ runner' = runner /\ fgRunner' = fgRunner
    BY <1>4, <1>a, GotoAt DEF Release, at, surfaces
  <2>2. /\ \A q \in Runners : /\ rn'[q].mode = rn[q].mode
                              /\ rn'[q].back = rn[q].back
                              /\ rn'[q].pt \in {rn[q].pt, "ended"}
    BY <1>4, <1>a DEF Release, DataOK, RunnerRecord
  <2> QED BY <2>1, <2>2 DEF ChildPoints
<1>5. CASE ReadStatus(t, "status", "record")
  BY <1>5, PointsDisjoint DEF ReadStatus, at, holds
<1>6. CASE ReadStatus(t, "settle", "settleRecord")
  <2>1. /\ pc[t] = "settle" /\ pc'[t] = "settleRecord"
        /\ loc'[t].m = Status /\ loc'[t].op = loc[t].op
        /\ loc'[t].base = loc[t].base
        /\ runner' = runner /\ fgRunner' = fgRunner /\ rn' = rn
    BY <1>6, <1>a, GotoAt, LocalKeeps DEF ReadStatus, at, surfaces
  <2>2. Status' = Status
    BY <2>1 DEF Status
  <2> QED BY <2>1, <2>2
<1>7. CASE RecordMode(t)
  <2>1. /\ pc[t] = "settleRecord" /\ pc'[t] = "release" /\ loc' = loc
        /\ runner' = runner /\ fgRunner' = fgRunner /\ rn' = rn
    BY <1>7, <1>a, GotoAt DEF RecordMode, at, holds, surfaces
  <2> QED BY <2>1
<1>8. CASE ReturnToBase(t) \/ IdleScreen(t) \/ ToX(t)
  <2>1. /\ \/ pc[t] \in {"returnVT", "idleScreen"} /\ pc'[t] = "settle" /\ t \in Runners
           \/ pc[t] = "toX" /\ pc'[t] = "kiosk"
        /\ loc' = loc
        /\ runner' = runner /\ fgRunner' = fgRunner /\ rn' = rn
    BY <1>8, <1>a, GotoAt DEF ReturnToBase, IdleScreen, ToX, at, surfaces
  <2> QED BY <2>1
<1>9. CASE ForegroundDown(t) \/ BaseDown(t)
  BY <1>9, PointsDisjoint DEF ForegroundDown, BaseDown, at, holds
<1> QED
  BY <1>1, <1>2, <1>3, <1>4, <1>5, <1>6, <1>7, <1>8, <1>9 DEF Step

\* Where a claim takes its goroutine.
LEMMA ClaimAt ==
  ASSUME TokenInv, DataOK, NEW t \in Threads, NEW point, NEW locals,
         claim(t, point, locals)
  PROVE  /\ ~switching /\ switching' /\ pc[t] = "idle"
         /\ goto(t, point) /\ pc'[t] = point /\ loc'[t] = locals
  BY DEF claim, goto, at, TokenInv, DataOK

\* A request begins with what it found on the screen.
LEMMA RequestArranged ==
  ASSUME TypeInv, NEW t \in Callers, Arranged(t), Request(t)
  PROVE  /\ Arranged(t)' /\ ~switching /\ holds(t)'
         /\ \E point : goto(t, point)
<1>t. t \in Threads /\ t \notin Runners
  BY ThreadAssumption DEF Threads
<1>a. TokenInv /\ DataOK
  BY DEF TypeInv
<1>b. /\ loc[t].fg \in Runners \cup {NoRunner}
      /\ loc[t].r \in Runners \cup {NoRunner}
      /\ loc[t].base \in Runners \cup {NoRunner}
      /\ runner \in Runners \cup {NoRunner}
      /\ fgRunner \in Runners \cup {NoRunner}
      /\ NoRunner \notin Runners
  BY <1>a, <1>t, Surfaced
<1>c. ASSUME NEW point, NEW locals, claim(t, point, locals)
      PROVE  /\ ~switching /\ switching' /\ pc[t] = "idle"
             /\ goto(t, point) /\ pc'[t] = point /\ loc'[t] = locals
  BY <1>a, <1>c, <1>t, ClaimAt
<1>d. UNCHANGED <<runner, fgRunner, rn>>
  BY DEF Request, Switch, RestartMode, ReattachWeb, NavigateIfWeb,
     AdvanceDocument, surfaces
<1> USE <1>b, <1>d, <1>t DEF Arranged, Installed, KmsAlone, overKms, Surfaces,
     InHand, Wanted, Delivers, Delivered, Homed, started, restless, overlay,
     baseMode, TokenPoints, FgUninstalled, BaseUninstalled, BaseNoted,
     OldForeground, OldBase, NewForeground, ForegroundUp, NewPrimary, NewKiosk,
     ForegroundPath, CompositorPath, PrimaryPath, RecoveryPath
<1>1. ASSUME NEW m \in ModeSet, Switch(t, m)
      PROVE  /\ Arranged(t)' /\ ~switching /\ holds(t)'
             /\ \E point : goto(t, point)
  <2>1. PICK ok \in BOOLEAN,
             point \in {"compositor", "foreground", "release"} :
          /\ claim(t, point, [op |-> "switch", m |-> m, base |-> runner,
                              fg |-> fgRunner, r |-> NoRunner, ok |-> ok])
          /\ \/ point = "compositor" /\ ~foreground(m)
             \/ point = "foreground" /\ foreground(m)
             \/ point = "release" /\ ~ok
    BY <1>1 DEF Switch
  <2>2. /\ ~switching /\ pc[t] = "idle" /\ goto(t, point) /\ pc'[t] = point
        /\ loc'[t].op = "switch" /\ loc'[t].m = m /\ loc'[t].base = runner
        /\ loc'[t].fg = fgRunner /\ loc'[t].ok = ok
    BY <2>1, <1>c
  <2> QED BY <2>1, <2>2 DEF holds
<1>2. CASE RestartMode(t)
  <2>1. PICK point, m :
          /\ claim(t, point, [op |-> "restart", m |-> m, base |-> runner,
                              fg |-> fgRunner, r |-> NoRunner, ok |-> TRUE])
          /\ \/ point = "foreground" /\ fgRunner # NoRunner /\ m = rn[fgRunner].mode
             \/ point = "primary" /\ fgRunner = NoRunner /\ runner # NoRunner
                /\ m = rn[runner].mode
             \/ point = "release"
    BY <1>2 DEF RestartMode, Status
  <2>2. /\ ~switching /\ pc[t] = "idle" /\ goto(t, point) /\ pc'[t] = point
        /\ loc'[t].op = "restart" /\ loc'[t].m = m /\ loc'[t].base = runner
        /\ loc'[t].fg = fgRunner
    BY <2>1, <1>c
  <2> QED BY <2>1, <2>2 DEF holds
<1>3. ASSUME NEW point \in {"reattach", "navigate", "scroll"}, NEW m,
             claim(t, point, onBase(m)), runner # NoRunner
      PROVE  /\ Arranged(t)' /\ ~switching /\ holds(t)'
             /\ \E p : goto(t, p)
  <2>2. /\ ~switching /\ pc[t] = "idle" /\ goto(t, point) /\ pc'[t] = point
        /\ loc'[t].op = "other" /\ loc'[t].base = runner
    <3>1. onBase(m).op = "other" /\ onBase(m).base = runner
      BY DEF onBase, NoLocals
    <3> QED BY <1>3, <1>c, <3>1
  <2> QED BY <1>3, <2>2 DEF holds
<1> QED
  BY <1>1, <1>2, <1>3
     DEF Request, ReattachWeb, NavigateIfWeb, AdvanceDocument, webOnScreen

\* So does a recovery.
LEMMA RecoveryArranged ==
  ASSUME TypeInv, NEW t \in Runners, Arranged(t),
         RecoverForeground(t) \/ RecoverPrimary(t)
  PROVE  /\ Arranged(t)' /\ ~switching /\ holds(t)'
         /\ \E point : goto(t, point)
<1>t. t \in Threads
  BY DEF Threads
<1>a. TokenInv /\ DataOK
  BY DEF TypeInv
<1>b. /\ loc[t].fg \in Runners \cup {NoRunner}
      /\ loc[t].r \in Runners \cup {NoRunner}
      /\ loc[t].base \in Runners \cup {NoRunner}
      /\ runner \in Runners \cup {NoRunner}
      /\ fgRunner \in Runners \cup {NoRunner}
      /\ NoRunner \notin Runners
  BY <1>a, <1>t, Surfaced
<1>c. ASSUME NEW point, NEW locals, claim(t, point, locals)
      PROVE  /\ ~switching /\ switching' /\ pc[t] = "idle"
             /\ goto(t, point) /\ pc'[t] = point /\ loc'[t] = locals
  BY <1>a, <1>c, <1>t, ClaimAt
<1> USE <1>b, <1>t DEF Arranged, Installed, KmsAlone, overKms, Surfaces,
     InHand, Wanted, Delivers, Delivered, Homed, started, restless, overlay,
     baseMode, TokenPoints, FgUninstalled, BaseUninstalled, BaseNoted,
     OldForeground, OldBase, NewForeground, ForegroundUp, NewPrimary, NewKiosk,
     ForegroundPath, CompositorPath, PrimaryPath, RecoveryPath
<1>e. /\ \A q \in Runners : /\ rn'[q].mode = rn[q].mode
                            /\ rn'[q].back = rn[q].back
                            /\ q # t => rn'[q].pt = rn[q].pt
      /\ rn'[t].pt = "recovering" /\ rn[t].pt = "hook"
  <2>1. rn' = [rn EXCEPT ![t].pt = "recovering"] /\ rn[t].pt = "hook"
    BY DEF RecoverForeground, RecoverPrimary, loopAt
  <2> QED BY <1>a, <2>1 DEF DataOK, RunnerRecord
<1>1. CASE RecoverForeground(t)
  <2>1. PICK point :
          /\ claim(t, point, [NoLocals EXCEPT !.op = "fgEnded", !.m = rn[t].back])
          /\ \/ point = "returnVT"
             \/ point = "idleScreen" /\ runner = NoRunner
             \/ point = "primary" /\ rn[t].back.type # "off" /\ runner = NoRunner
    BY <1>1 DEF RecoverForeground
  <2>2. /\ ~switching /\ pc[t] = "idle" /\ goto(t, point) /\ pc'[t] = point
        /\ loc'[t].op = "fgEnded" /\ loc'[t].m = rn[t].back
        /\ loc'[t].base = NoRunner
    <3> DEFINE locals == [NoLocals EXCEPT !.op = "fgEnded", !.m = rn[t].back]
    <3>1. /\ locals.op = "fgEnded" /\ locals.m = rn[t].back
          /\ locals.base = NoRunner
      BY DEF NoLocals
    <3>2. claim(t, point, locals)
      BY <2>1
    <3> HIDE DEF locals
    <3> QED BY <3>1, <3>2, <1>c
  <2>3. fgRunner = t /\ fgRunner' = NoRunner /\ runner' = runner
    BY <1>1 DEF RecoverForeground
  <2> QED BY <2>1, <2>2, <2>3, <1>e DEF holds, ChildPoints
<1>2. CASE RecoverPrimary(t)
  <2>1. claim(t, "toX", [NoLocals EXCEPT !.op = "primaryEnded",
                                        !.m = rn[t].back])
    BY <1>2 DEF RecoverPrimary
  <2>2. /\ ~switching /\ pc[t] = "idle" /\ goto(t, "toX") /\ pc'[t] = "toX"
        /\ loc'[t].op = "primaryEnded"
    <3> DEFINE locals == [NoLocals EXCEPT !.op = "primaryEnded",
                                          !.m = rn[t].back]
    <3>1. locals.op = "primaryEnded"
      BY DEF NoLocals
    <3>2. claim(t, "toX", locals)
      BY <2>1
    <3> HIDE DEF locals
    <3> QED BY <3>1, <3>2, <1>c
  <2>3. runner = t /\ runner' = NoRunner /\ fgRunner' = fgRunner
    BY <1>2 DEF RecoverPrimary
  <2> QED BY <2>2, <2>3, <1>e DEF holds, ChildPoints
<1> QED BY <1>1, <1>2

\* What a runner's goroutine does without the token: all but a recovery.
LoopStep(r) ==
    \/ RecoveryBails(r) \/ BackoffOver(r) \/ Respawn(r) \/ RespawnAttach(r)
    \/ ChildExits(r)

\* It changes states and points, and nothing becomes restless that was not.
LEMMA LoopKeeps ==
  ASSUME DataOK, NEW r \in Runners, LoopStep(r)
  PROVE  /\ UNCHANGED <<runner, fgRunner, pc, loc, switching>>
         /\ \A q \in Runners :
               /\ rn'[q].mode = rn[q].mode /\ rn'[q].back = rn[q].back
               /\ rn'[q].cancel = rn[q].cancel
               /\ restless(q)' => restless(q)
               /\ rn[q].pt # "free" => rn'[q].pt # "free"
               /\ rn[q].pt = "attaching" => rn'[q].pt = "attaching"
<1>a. /\ \A q \in Runners : rn[q] \in RunnerRecord
      /\ rn[r].pt \in {"hook", "backoff", "respawn", "reattaching", "up"}
  BY DEF DataOK, LoopStep, RecoveryBails, BackoffOver, Respawn, RespawnAttach,
     ChildExits, loopAt
<1>1. /\ \A q \in Runners :
            /\ rn'[q].mode = rn[q].mode /\ rn'[q].back = rn[q].back
            /\ rn'[q].cancel = rn[q].cancel
            /\ q # r => rn'[q].pt = rn[q].pt
      /\ rn'[r].pt \in {"hook", "ended", "backoff", "respawn", "reattaching", "up"}
      /\ rn[r].pt = "hook" => rn'[r].pt = "ended"
  <2> USE <1>a DEF DataOK, RunnerRecord, loopAt, terminal
  <2>1. CASE RecoveryBails(r)
    BY <2>1 DEF RecoveryBails
  <2>2. CASE BackoffOver(r)
    BY <2>2 DEF BackoffOver
  <2>3. CASE Respawn(r)
    BY <2>3 DEF Respawn
  <2>4. CASE RespawnAttach(r)
    BY <2>4 DEF RespawnAttach
  <2>5. CASE ChildExits(r)
    <3>1. rn[r].pt = "up"
      BY <2>5 DEF ChildExits
    <3>2. \E st, point :
             /\ point \in {"hook", "ended", "backoff"}
             /\ rn' = [rn EXCEPT ![r].st = st, ![r].pt = point]
      BY <2>5 DEF ChildExits
    <3> QED BY <3>1, <3>2
  <2> QED BY <2>1, <2>2, <2>3, <2>4, <2>5 DEF LoopStep
<1>4. UNCHANGED <<runner, fgRunner, pc, loc, switching>>
  BY DEF LoopStep, RecoveryBails, BackoffOver, Respawn, RespawnAttach,
     ChildExits, surfaces
<1> QED
  BY <1>a, <1>1, <1>4 DEF restless, ChildPoints

\* Whoever is neither moved nor given other surfaces finds them arranged still.
LEMMA StaysArranged ==
  ASSUME TypeInv, NEW t \in Threads, Arranged(t),
         pc'[t] = pc[t], loc'[t] = loc[t], UNCHANGED <<runner, fgRunner>>,
         \A q \in Runners :
               /\ rn'[q].mode = rn[q].mode /\ rn'[q].back = rn[q].back
               /\ rn'[q].cancel = rn[q].cancel
               /\ restless(q)' => restless(q)
               /\ rn[q].pt # "free" => rn'[q].pt # "free"
               /\ rn[q].pt = "attaching" => rn'[q].pt = "attaching"
  PROVE  Arranged(t)'
<1>a. DataOK
  BY DEF TypeInv
<1>b. /\ loc[t].fg \in Runners \cup {NoRunner}
      /\ loc[t].r \in Runners \cup {NoRunner}
      /\ loc[t].base \in Runners \cup {NoRunner}
      /\ runner \in Runners \cup {NoRunner}
      /\ fgRunner \in Runners \cup {NoRunner}
  BY <1>a, Surfaced
<1> USE <1>b DEF Arranged
<1>1. Installed'
  BY DEF Installed, started
<1>2. KmsAlone(pc[t])' /\ Surfaces(pc[t], loc[t])'
  BY DEF KmsAlone, Surfaces, overKms
<1>3. InHand(pc[t], loc[t])'
  BY DEF InHand, started, urlOf, OldForeground, OldBase, NewForeground,
       ForegroundUp, NewPrimary, NewKiosk
<1>4. Status' = Status
  BY DEF Status
<1>5. Wanted(t, pc[t], loc[t])'
  BY <1>4 DEF Wanted
<1>6. Delivers(pc[t], loc[t])'
  BY DEF Delivers, Delivered
<1>7. Homed(pc[t], loc[t])'
  BY DEF Homed
<1> QED BY <1>1, <1>2, <1>3, <1>5, <1>6, <1>7

\* While the token is free it does not matter who looks.
LEMMA FreeAlike ==
  ASSUME NEW t \in Threads, NEW u \in Threads, Arranged(t)',
         pc'[t] \notin TokenPoints, pc'[u] \notin TokenPoints
  PROVE  Arranged(u)'
  BY DEF Arranged, Installed, KmsAlone, overKms, Surfaces, InHand, Wanted,
       Delivers, Delivered, Homed, started, restless, overlay, baseMode,
       TokenPoints, FgUninstalled, BaseUninstalled, BaseNoted, OldForeground,
       OldBase, NewForeground, ForegroundUp, NewPrimary, NewKiosk,
       ForegroundPath, CompositorPath, PrimaryPath, RecoveryPath

\* While the token is free, a goroutine that is not after it disturbs nothing.
LEMMA FreeStays ==
  ASSUME NEW t \in Threads, Arranged(t), UNCHANGED <<runner, fgRunner, rn>>,
         pc[t] \notin TokenPoints, pc'[t] \notin TokenPoints
  PROVE  Arranged(t)'
  BY DEF Arranged, Installed, KmsAlone, overKms, Surfaces, InHand, Wanted,
       Delivers, Delivered, Homed, started, restless, overlay, baseMode,
       TokenPoints, FgUninstalled, BaseUninstalled, BaseNoted, OldForeground,
       OldBase, NewForeground, ForegroundUp, NewPrimary, NewKiosk,
       ForegroundPath, CompositorPath, PrimaryPath, RecoveryPath

\* The goroutines of Mains do nothing but shut down, and no other does.
DownPoints == {"downFg", "downBase", "down"}

MainsApart ==
    /\ \A t \in Mains : pc[t] \in {"idle"} \cup DownPoints
    /\ \A t \in Threads \ Mains : pc[t] \notin DownPoints

\* Until Shutdown, whoever may touch the screen finds it arranged: the holder
\* of the token, and everybody while there is none.
ScreenInv ==
    operating => \A t \in Threads : holds(t) \/ ~switching => Arranged(t)

SafetyInv == TypeInv /\ MainsApart /\ ScreenInv

\* The holder keeps the token until it releases it, and without the token a
\* goroutine only records what is on screen.
LEMMA StepStays ==
  ASSUME TypeInv, NEW t \in Threads, Step(t), pc[t] \notin DownPoints
  PROVE  /\ holds(t) => holds(t)' \/ (Release(t) /\ pc'[t] \in {"status", "idle"})
         /\ ~holds(t) =>
               /\ UNCHANGED <<runner, fgRunner, rn, switching, vt, port>>
               /\ pc'[t] \in {"record", "idle"}
               /\ \A u \in Threads \ {t} : pc'[u] = pc[u] /\ loc'[u] = loc[u]
<1> USE DEF TypeInv
<1>m. ASSUME Moves(t), holds(t) PROVE holds(t)'
  BY <1>m, GotoAt DEF Moves, holds
<1>1. CASE SwitchForeground(t) \/ SwitchCompositor(t) \/ Primary(t)
  BY <1>1, <1>m, ForegroundMoves, CompositorMoves, PrimaryMoves
<1>2. CASE \/ Reattach(t) \/ Navigate(t) \/ ScrollPage(t)
           \/ ReturnToBase(t) \/ IdleScreen(t) \/ ToX(t)
           \/ ReadStatus(t, "settle", "settleRecord")
  <2>1. \E point \in TokenPoints : holds(t) /\ goto(t, point)
    BY <1>2 DEF Reattach, Navigate, ScrollPage, ReturnToBase, IdleScreen, ToX,
       ReadStatus, finish, goto, at, holds, TokenPoints
  <2> QED BY <2>1, GotoAt DEF holds
<1>3. CASE Release(t)
  <2>1. holds(t) /\ \E point \in {"status", "idle"} : goto(t, point)
    BY <1>3 DEF Release, holds, at, TokenPoints
  <2> QED BY <1>3, <2>1, GotoAt
<1>4. CASE ReadStatus(t, "status", "record")
  <2>1. /\ ~holds(t) /\ goto(t, "record")
        /\ UNCHANGED <<runner, fgRunner, rn, switching, vt, port>>
    BY <1>4 DEF ReadStatus, holds, at, TokenPoints, surfaces, cdp
  <2>2. \A u \in Threads \ {t} : pc'[u] = pc[u] /\ loc'[u] = loc[u]
    BY <1>4 DEF ReadStatus, goto, TokenInv, DataOK
  <2> QED BY <2>1, <2>2, GotoAt
<1>5. CASE RecordMode(t)
  <2>1. UNCHANGED <<runner, fgRunner, rn, switching, vt, port>>
    BY <1>5 DEF RecordMode, surfaces, cdp
  <2>2. \A u \in Threads \ {t} : pc'[u] = pc[u] /\ loc'[u] = loc[u]
    BY <1>5 DEF RecordMode, goto, TokenInv, DataOK
  <2>3. CASE pc[t] = "record"
    BY <1>5, <2>1, <2>2, <2>3, GotoAt DEF RecordMode, holds, TokenPoints
  <2>4. CASE pc[t] = "settleRecord"
    BY <1>5, <2>4, GotoAt DEF RecordMode, holds, TokenPoints
  <2> QED BY <1>5, <2>3, <2>4 DEF RecordMode, at
<1>6. CASE ForegroundDown(t) \/ BaseDown(t)
  BY <1>6 DEF ForegroundDown, BaseDown, at, DownPoints
<1> QED BY <1>1, <1>2, <1>3, <1>4, <1>5, <1>6 DEF Step

\* A step of a goroutine that may touch the screen.
LEMMA MoverArranged ==
  ASSUME TokenInv, TokenInv', NEW t \in Threads, NEW point, goto(t, point),
         holds(t) \/ ~switching, holds(t)' \/ ~switching', Arranged(t)'
  PROVE  ScreenInv'
<1> SUFFICES ASSUME NEW u \in Threads, holds(u)' \/ ~switching'
             PROVE  Arranged(u)'
  BY DEF ScreenInv
<1>1. CASE switching'
  <2>1. u = t
    BY <1>1 DEF TokenInv, TokenHeld
  <2> QED BY <2>1
<1>2. CASE ~switching'
  <2>1. pc'[t] \notin TokenPoints /\ pc'[u] \notin TokenPoints
    BY <1>2 DEF TokenInv, TokenHeld, holds
  <2> QED BY <2>1, FreeAlike
<1> QED BY <1>1, <1>2 DEF TokenInv

\* Initially nothing is installed and nobody switches.
LEMMA InitSafetyInv == Init => SafetyInv
<1> SUFFICES ASSUME Init PROVE SafetyInv
  OBVIOUS
<1>1. TypeInv
  BY InitTypeInv
<1>2. ASSUME NEW t \in Threads PROVE Arranged(t)
  <2>1. /\ pc[t] = "idle" /\ runner = NoRunner /\ fgRunner = NoRunner
        /\ \A q \in Runners : rn[q].pt = "free" /\ rn[q].back = ZeroMode
    BY DEF Init, FreeRunner
  <2> QED BY <2>1, NotForeground DEF ChildPoints, Arranged, Installed,
       KmsAlone, overKms, Surfaces, InHand, Wanted, Delivers, Delivered, Homed,
       started, restless, overlay, baseMode, TokenPoints, FgUninstalled,
       BaseUninstalled, BaseNoted, OldForeground, OldBase, NewForeground,
       ForegroundUp, NewPrimary, NewKiosk, ForegroundPath, CompositorPath,
       PrimaryPath, RecoveryPath
<1>3. MainsApart
  BY DEF Init, MainsApart, Threads, DownPoints
<1> QED BY <1>1, <1>2, <1>3 DEF SafetyInv, ScreenInv

\* Once Shutdown has begun it is never undone, so every step until then is one
\* of a goroutine that is not in Mains.
LEMMA NextMainsApart ==
  ASSUME SafetyInv, [Next]_vars
  PROVE  /\ MainsApart'
         /\ operating' => /\ operating
                          /\ \/ \E t \in Callers : Request(t)
                             \/ \E t \in Threads \ Mains : Step(t)
                             \/ \E r \in Runners : RunnerStep(r) \/ ChildExits(r)
                             \/ UNCHANGED vars
<1>a. /\ pc \in [Threads -> Points] /\ MainsApart /\ Mains \subseteq Threads
      /\ Mains \cap Callers = {} /\ Mains \cap Runners = {}
      /\ TypeInv /\ TokenInv /\ DataOK
  BY ThreadAssumption DEF SafetyInv, TypeInv, TokenInv, Threads
<1>b. TokenPoints \cap DownPoints = {}
  BY DEF TokenPoints, DownPoints
<1>1. ASSUME NEW t \in Threads \ Mains, NEW point, goto(t, point),
             point \notin DownPoints
      PROVE  MainsApart' /\ (operating' => operating)
  BY <1>1, <1>a DEF goto, MainsApart, operating
<1>2. CASE \E t \in Callers : Request(t)
  <2>1. PICK t \in Threads \ Mains : \E point \in TokenPoints : goto(t, point)
    BY <1>2, <1>a DEF Threads, Request, Switch, RestartMode, ReattachWeb,
         NavigateIfWeb, AdvanceDocument, claim, TokenPoints
  <2> QED BY <1>1, <1>2, <1>b, <2>1
<1>3. CASE \E t \in Threads : Step(t)
  <2>1. PICK t \in Threads : Step(t)
    BY <1>3
  <2>2. PICK point : goto(t, point)
    BY <1>a, <2>1, StepNavigates
  <2>3. CASE t \in Mains
    <3>1. ForegroundDown(t) \/ BaseDown(t)
      <4>1. ~holds(t) /\ pc[t] \in {"idle", "downFg", "downBase", "down"}
        BY <1>a, <2>3 DEF MainsApart, holds, TokenPoints, DownPoints
      <4> QED
        BY <2>1, <4>1, ForegroundMoves, CompositorMoves, PrimaryMoves
           DEF Step, Reattach, Navigate, ScrollPage, Release, ReadStatus,
               RecordMode, ReturnToBase, IdleScreen, ToX, at, holds, TokenPoints
    <3>2. \E p \in {"downBase", "down"} : goto(t, p)
      BY <3>1 DEF ForegroundDown, BaseDown
    <3> QED BY <1>a, <2>3, <3>2 DEF goto, MainsApart, operating, DownPoints
  <2>4. CASE t \notin Mains
    <3>1. pc[t] \notin DownPoints
      BY <1>a, <2>4 DEF MainsApart
    <3>2. pc'[t] \in TokenPoints \cup {"status", "record", "idle"}
      BY <1>a, <2>1, <3>1, StepStays DEF holds
    <3>3. point = pc'[t]
      BY <1>a, <2>2, GotoAt
    <3>4. point \notin DownPoints
      BY <1>b, <3>2, <3>3 DEF DownPoints
    <3> QED BY <1>1, <2>1, <2>2, <2>4, <3>4
  <2> QED BY <2>3, <2>4
<1>4. CASE \E r \in Runners : RunnerStep(r) \/ ChildExits(r)
  <2>1. PICK r \in Runners : RunnerStep(r) \/ ChildExits(r)
    BY <1>4
  <2>2. UNCHANGED pc \/ \E point \in TokenPoints : goto(r, point)
    BY <1>a, <2>1, RunnerTypes
  <2>3. r \in Threads \ Mains
    BY <1>a DEF Threads
  <2>4. CASE UNCHANGED pc
    BY <1>4, <1>a, <2>4 DEF MainsApart, operating
  <2> QED BY <1>1, <1>4, <1>b, <2>2, <2>3, <2>4
<1>5. CASE \E t \in Mains : Shutdown(t)
  <2>1. PICK t \in Mains : goto(t, "downFg")
    BY <1>5 DEF Shutdown
  <2> QED BY <1>a, <2>1 DEF goto, MainsApart, operating, DownPoints
<1>6. CASE UNCHANGED vars
  BY <1>6, <1>a DEF vars, MainsApart, operating
<1> QED BY <1>2, <1>3, <1>4, <1>5, <1>6 DEF Next

\* Every step keeps the invariant.
LEMMA NextSafetyInv == SafetyInv /\ [Next]_vars => SafetyInv'
<1> SUFFICES ASSUME SafetyInv, [Next]_vars PROVE SafetyInv'
  OBVIOUS
<1>1. TypeInv' /\ TokenInv' /\ TypeInv /\ TokenInv /\ DataOK /\ MainsApart'
  BY NextTypeInv, NextMainsApart DEF SafetyInv, TypeInv
<1>2. ASSUME operating' PROVE ScreenInv'
  <2>a. operating /\ \A t \in Threads : holds(t) \/ ~switching => Arranged(t)
    BY <1>2, NextMainsApart DEF SafetyInv, ScreenInv
  <2>b. \A t \in Threads : ~switching => ~holds(t)
    BY <1>1 DEF TokenInv, TokenHeld
  <2>1. CASE \E t \in Callers : Request(t)
    <3>1. PICK t \in Callers : Request(t)
      BY <2>1
    <3>2. ~switching
      BY <3>1 DEF Request, Switch, RestartMode, ReattachWeb, NavigateIfWeb,
         AdvanceDocument, claim
    <3>3. t \in Threads
      BY DEF Threads
    <3>4. Arranged(t)' /\ holds(t)' /\ \E point : goto(t, point)
      BY <1>1, <2>a, <3>1, <3>2, <3>3, RequestArranged
    <3> QED BY <1>1, <3>2, <3>3, <3>4, MoverArranged
  <2>2. ASSUME NEW t \in Threads \ Mains, Step(t) PROVE ScreenInv'
    <3>1. (\E point : goto(t, point)) /\ pc[t] \notin DownPoints
      BY <1>1, <2>2, StepNavigates DEF SafetyInv, TypeInv, MainsApart
    <3>2. CASE holds(t)
      <4>1. Arranged(t)'
        BY <1>1, <2>2, <2>a, <3>2, HolderArranged
      <4>2. holds(t)' \/ ~switching'
        BY <1>1, <2>2, <3>1, <3>2, StepStays DEF Release
      <4> QED BY <1>1, <3>1, <3>2, <4>1, <4>2, MoverArranged
    <3>3. CASE ~holds(t)
      <4>1. /\ UNCHANGED <<runner, fgRunner, rn, switching>>
            /\ pc'[t] \in {"record", "idle"}
            /\ \A u \in Threads \ {t} : pc'[u] = pc[u] /\ loc'[u] = loc[u]
        BY <1>1, <2>2, <3>1, <3>3, StepStays
      <4>2. ~holds(t)'
        BY <4>1 DEF holds, TokenPoints
      <4>3. ASSUME NEW u \in Threads \ {t}, Arranged(u) PROVE Arranged(u)'
        BY <1>1, <4>1, <4>3, StaysArranged DEF restless
      <4>4. Arranged(t) => Arranged(t)'
        BY <3>3, <4>1, <4>2, FreeStays DEF holds
      <4> QED BY <2>a, <3>3, <4>1, <4>2, <4>3, <4>4 DEF ScreenInv, holds
    <3> QED BY <3>2, <3>3
  <2>3. ASSUME NEW r \in Runners, RunnerStep(r) \/ ChildExits(r)
        PROVE  ScreenInv'
    <3>1. CASE RecoverForeground(r) \/ RecoverPrimary(r)
      <4>1. ~switching /\ r \in Threads
        BY <3>1 DEF RecoverForeground, RecoverPrimary, claim, Threads
      <4>2. Arranged(r)' /\ holds(r)' /\ \E point : goto(r, point)
        BY <1>1, <2>a, <3>1, <4>1, RecoveryArranged
      <4> QED BY <1>1, <4>1, <4>2, MoverArranged
    <3>2. CASE LoopStep(r)
      <4>1. ASSUME NEW u \in Threads, Arranged(u) PROVE Arranged(u)'
        BY <1>1, <3>2, <4>1, LoopKeeps, StaysArranged
      <4>2. UNCHANGED <<pc, switching>>
        BY <1>1, <3>2, LoopKeeps
      <4> QED BY <2>a, <4>1, <4>2 DEF ScreenInv, holds
    <3> QED BY <2>3, <3>1, <3>2 DEF RunnerStep, LoopStep
  <2>4. CASE UNCHANGED vars
    <3>1. ASSUME NEW u \in Threads, Arranged(u) PROVE Arranged(u)'
      BY <1>1, <2>4, <3>1, StaysArranged DEF vars, surfaces, restless
    <3> QED BY <2>a, <2>4, <3>1 DEF vars, ScreenInv, holds
  <2> QED BY <1>2, <2>1, <2>2, <2>3, <2>4, NextMainsApart
<1> QED BY <1>1, <1>2 DEF SafetyInv, ScreenInv

-----------------------------------------------------------------------------
\* Somebody may look at the screen: the holder, or anybody if there is none.
LEMMA Looked ==
  ASSUME SafetyInv, operating, NEW r \in Runners
  PROVE  \E t \in Threads : /\ Arranged(t)
                            /\ switching => holds(t)
                            /\ ~switching => pc[t] \notin TokenPoints
<1>1. r \in Threads
  BY DEF Threads
<1> QED
  BY <1>1 DEF SafetyInv, ScreenInv, TypeInv, TokenInv, TokenHeld, holds

\* No child runs unsupervised: a runner that has a child, or is about to
\* restart one, is installed or in the hands of the holder of the token.
THEOREM NoChildOrphaned == Spec => []NoOrphan
<1>1. Spec => []SafetyInv
  BY InitSafetyInv, NextSafetyInv, PTL DEF Spec
<1>2. SafetyInv => NoOrphan
  <2> SUFFICES ASSUME SafetyInv, operating, NEW r \in Runners, restless(r)
               PROVE  \/ r \in {runner, fgRunner}
                      \/ \E t \in Threads : holds(t) /\ r \in {loc[t].base, loc[t].fg, loc[t].r}
    BY DEF NoOrphan
  <2>1. PICK t \in Threads : Arranged(t)
    BY Looked
  <2> QED BY <2>1 DEF Arranged, Homed, holds, OldForeground, OldBase,
      NewForeground, NewPrimary, NewKiosk, TokenPoints
<1> QED BY <1>1, <1>2, PTL

\* Two Chromiums, or two full-screen modes, never have a child at a time.
THEOREM EachSurfaceOwned == Spec => []OneOwner
<1>1. Spec => []SafetyInv
  BY InitSafetyInv, NextSafetyInv, PTL DEF Spec
<1>2. SafetyInv => OneOwner
  <2> SUFFICES ASSUME SafetyInv, operating, NEW q \in Runners, NEW r \in Runners,
                      restless(q), restless(r),
                      foreground(rn[q].mode) <=> foreground(rn[r].mode)
               PROVE  q = r
    BY DEF OneOwner
  <2>1. PICK t \in Threads : Arranged(t)
    BY Looked
  <2>2. NoRunner \notin Runners
    BY ThreadAssumption
  <2> QED BY <2>1, <2>2 DEF Arranged, Homed, Surfaces, OldForeground, OldBase,
      NewForeground, NewPrimary, NewKiosk, FgUninstalled, BaseUninstalled
<1> QED BY <1>1, <1>2, PTL

\* A full-screen KMS mode covers no base that nobody can see.
THEOREM KmsAloneOnScreen == Spec => []KmsOwnsScreen
<1>1. Spec => []SafetyInv
  BY InitSafetyInv, NextSafetyInv, PTL DEF Spec
<1>2. SafetyInv => KmsOwnsScreen
  <2> SUFFICES ASSUME SafetyInv, operating, ~switching, overKms
               PROVE  runner = NoRunner
    BY DEF KmsOwnsScreen, overKms
  <2>1. fgRunner \in Runners
    BY DEF SafetyInv, TypeInv, DataOK, overKms
  <2>2. PICK t \in Threads : Arranged(t) /\ pc[t] \notin TokenPoints
    BY <2>1, Looked
  <2> QED BY <2>2 DEF Arranged, KmsAlone, TokenPoints
<1> QED BY <1>1, <1>2, PTL

\* A Switch that answers success has installed the mode it was asked for.
THEOREM SwitchesDeliver == Spec => []SwitchDelivers
<1>1. Spec => []SafetyInv
  BY InitSafetyInv, NextSafetyInv, PTL DEF Spec
<1>2. SafetyInv => SwitchDelivers
  <2> SUFFICES ASSUME SafetyInv, operating, NEW t \in Callers,
                      pc[t] = "release", loc[t].op = "switch", loc[t].ok
               PROVE  LET m == loc[t].m IN
            CASE m.type = "off" -> runner = NoRunner /\ fgRunner = NoRunner
              [] m.type # "off" /\ foreground(m) ->
                    fgRunner # NoRunner /\ equivalent(rn[fgRunner].mode, m)
              [] OTHER -> /\ runner # NoRunner /\ fgRunner = NoRunner
                          /\ equivalent(rn[runner].mode, m)
    BY DEF SwitchDelivers
  <2>1. Delivered(loc[t].m)
    BY DEF SafetyInv, ScreenInv, Threads, holds, TokenPoints, Arranged, Delivers
  <2> QED BY <2>1 DEF Delivered, overlay, baseMode
<1> QED BY <1>1, <1>2, PTL

\* A recovery that has read what is on screen does nothing but record it.
LEMMA SettlesOnce ==
  ASSUME NEW t \in Threads, Step(t), pc[t] = "settleRecord"
  PROVE  RecordMode(t)
<1> USE DEF at
<1>1. ~SwitchForeground(t)
  BY DEF SwitchForeground, ShowSameForeground, CogToFront, CogOpen,
     ForegroundRefused, ReplaceForeground, OldForegroundStopped, EarlyVT,
     StartForeground, BackToBase, InstallForeground, ShowForeground,
     NewForegroundStopped, FreeBase, BaseFreed
<1>2. ~SwitchCompositor(t)
  BY DEF SwitchCompositor, YieldForeground, ForegroundYielded, SwitchOff,
     BaseOff, ScreenOff, KeepBase, InPlaceWeb, ReplaceBase
<1>3. ~Primary(t)
  BY DEF Primary, PrimaryRefused, ReplacePrimary, PrevStopped, PrepareSurface,
     StartPrimary, Attach, InstallPrimary, StartFailed, Fallback, StartKiosk,
     InstallKiosk
<1>4. ~ \/ Reattach(t) \/ Navigate(t) \/ ScrollPage(t) \/ Release(t)
        \/ ReadStatus(t, "status", "record")
        \/ ReadStatus(t, "settle", "settleRecord")
        \/ ReturnToBase(t) \/ IdleScreen(t) \/ ToX(t)
        \/ ForegroundDown(t) \/ BaseDown(t)
  BY DEF Reattach, Navigate, ScrollPage, Release, ReadStatus, ReturnToBase,
     IdleScreen, ToX, ForegroundDown, BaseDown
<1> QED BY <1>1, <1>2, <1>3, <1>4 DEF Step

\* What a recovery persists is what it left on screen: nothing can have changed
\* between its read of Status() and its save.
THEOREM RecoveriesRecord == Spec => RecoveryRecordsScreen
<1>1. Spec => []SafetyInv
  BY InitSafetyInv, NextSafetyInv, PTL DEF Spec
<1>2. SafetyInv /\ [Next]_vars =>
        [\A r \in Runners :
           operating /\ pc[r] = "settleRecord" /\ pc'[r] = "release"
               => active' = Status]_vars
  <2> SUFFICES ASSUME SafetyInv, Next, NEW r \in Runners, operating,
                      pc[r] = "settleRecord", pc'[r] = "release"
               PROVE  active' = Status
    OBVIOUS
  <2>1. loc[r].m = Status
    BY DEF SafetyInv, ScreenInv, Threads, holds, TokenPoints, Arranged, Wanted
  <2>2. RecordMode(r)
    <3>1. switching /\ r \in Threads /\ TokenInv
      BY DEF SafetyInv, TypeInv, TokenInv, TokenHeld, holds, TokenPoints,
           Threads
    <3>2. ASSUME NEW u \in Threads, u # r, NEW point, goto(u, point) PROVE FALSE
      BY <3>1, <3>2 DEF goto, TokenInv
    <3>3. PICK t \in Threads : Step(t) \/ Shutdown(t)
      <4>1. ~ \E t \in Callers : Request(t)
        BY <3>1 DEF Request, Switch, RestartMode, ReattachWeb, NavigateIfWeb,
           AdvanceDocument, claim
      <4>2. ~ \E q \in Runners : RunnerStep(q) \/ ChildExits(q)
        BY <3>1, RunnerTypes DEF SafetyInv, TypeInv
      <4> QED BY <4>1, <4>2 DEF Next, Threads
    <3>4. t = r /\ Step(r)
      BY <3>1, <3>2, <3>3, StepNavigates DEF Shutdown, at, SafetyInv, TypeInv
    <3> QED BY <3>4, SettlesOnce
  <2> QED BY <2>1, <2>2 DEF RecordMode
<1> QED BY <1>1, <1>2, PTL DEF Spec, RecoveryRecordsScreen
=============================================================================
