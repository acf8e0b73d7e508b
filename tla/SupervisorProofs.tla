-------------------------- MODULE SupervisorProofs --------------------------
(***************************************************************************)
(* Proofs about Supervisor for every set of callers and of runners, every  *)
(* set of modes and every VT layout: the switch token is taken exactly     *)
(* while one goroutine runs code that needs it, and every variable keeps   *)
(* its type.                                                               *)
(*                                                                         *)
(* A step of goroutine t moves pc[t] and no other.  A claim takes it from  *)
(* a point without the token to one with it and sets switching; a release  *)
(* does the reverse; every other step stays on its side and leaves         *)
(* switching alone.  Mutual exclusion follows from these three cases.      *)
(*                                                                         *)
(* Of the types, modes are what needs care: a mode is asked for, copied    *)
(* between runners and locals, turned into the X kiosk of the same URL, or *)
(* changed to another URL.  AnyMode is closed under all of that            *)
(* (ModeFacts).  The last of these happens in two steps, so its first step *)
(* leaves an obligation on the runner (NavigateInv) that only the switch   *)
(* token keeps valid until the second.                                     *)
(***************************************************************************)
EXTENDS Supervisor, TLAPS

-----------------------------------------------------------------------------
(* The switch token *)

Points == TokenPoints \cup FreePoints

TokenInv == /\ pc \in [Threads -> Points]
            /\ switching \in BOOLEAN
            /\ TokenHeld

\* What a step of t, other than a claim or a release, does to the token; a
\* navigation begins with a claim only.
Moves(t) == /\ switching' = switching
            /\ \E point \in Points \ {"navigate"} :
                  /\ goto(t, point)
                  /\ point \in TokenPoints <=> holds(t)

\* What a claim does to the token, whatever t remembers in its locals.
Claims(t, point) == /\ ~switching /\ at(t, "idle")
                    /\ switching' = TRUE /\ goto(t, point)

\* A goroutine cannot be with the token and without it.
LEMMA PointsDisjoint == TokenPoints \cap FreePoints = {}
  BY DEF TokenPoints, FreePoints

\* Initially nobody is at a point that needs the token.
LEMMA InitTokenInv == Init => TokenInv
<1>1. "idle" \in Points /\ "idle" \notin TokenPoints
  BY DEF Points, TokenPoints, FreePoints
<1> QED BY <1>1 DEF Init, TokenInv, TokenHeld, holds

\* A step that stays on its side of the token keeps the invariant.
LEMMA MovesTokenInv ==
  ASSUME TokenInv, NEW t \in Threads, Moves(t)
  PROVE  TokenInv'
<1>1. PICK point \in Points \ {"navigate"} :
         /\ pc' = [pc EXCEPT ![t] = point]
         /\ point \in TokenPoints <=> holds(t)
  BY DEF Moves, goto
<1>2. \A u \in Threads : pc'[u] \in TokenPoints <=> pc[u] \in TokenPoints
  BY <1>1 DEF TokenInv, holds
<1>3. pc' \in [Threads -> Points] /\ switching' \in BOOLEAN
  BY <1>1 DEF TokenInv, Moves
<1> QED BY <1>2, <1>3 DEF TokenInv, TokenHeld, holds, Moves

\* A claim finds the token free, so it makes its goroutine the only holder.
LEMMA ClaimTokenInv ==
  ASSUME TokenInv, NEW t \in Threads, NEW point \in TokenPoints, Claims(t, point)
  PROVE  TokenInv'
<1>1. \A u \in Threads : ~holds(u)
  BY DEF TokenInv, TokenHeld, Claims
<1>2. pc' = [pc EXCEPT ![t] = point] /\ switching' = TRUE
  BY DEF Claims, goto
<1>3. pc' \in [Threads -> Points]
  BY <1>2 DEF TokenInv, Points
<1>4. \A u \in Threads : pc'[u] \in TokenPoints <=> u = t
  BY <1>1, <1>2 DEF TokenInv, holds
<1> QED BY <1>2, <1>3, <1>4 DEF TokenInv, TokenHeld, holds

\* Only the holder releases, and afterwards there is none.
LEMMA ReleaseTokenInv ==
  ASSUME TokenInv, NEW t \in Threads, Release(t)
  PROVE  TokenInv'
<1>1. PICK point \in FreePoints : pc' = [pc EXCEPT ![t] = point]
  BY DEF Release, goto, FreePoints
<1>2. holds(t) /\ switching' = FALSE
  BY DEF Release, holds, at, TokenPoints
<1>3. \A u \in Threads : u # t => ~holds(u)
  BY <1>2 DEF TokenInv, TokenHeld
<1>4. \A u \in Threads : pc'[u] \notin TokenPoints
  BY <1>1, <1>3, PointsDisjoint DEF TokenInv, holds
<1>5. pc' \in [Threads -> Points]
  BY <1>1 DEF TokenInv, Points
<1> QED BY <1>2, <1>4, <1>5 DEF TokenInv, TokenHeld, holds

\* Every step of switchForeground stays within the token.
LEMMA ForegroundMoves ==
  ASSUME NEW t \in Threads, SwitchForeground(t)
  PROVE  Moves(t) /\ holds(t)
<1> USE DEF Moves, holds, at, goto, finish, Points, TokenPoints
<1>1. CASE ShowSameForeground(t)
  BY <1>1 DEF ShowSameForeground
<1>2. CASE CogToFront(t)
  BY <1>2 DEF CogToFront
<1>3. CASE CogOpen(t)
  BY <1>3 DEF CogOpen
<1>4. CASE ForegroundRefused(t)
  BY <1>4 DEF ForegroundRefused
<1>5. CASE ReplaceForeground(t)
  BY <1>5 DEF ReplaceForeground, foregroundFree
<1>6. CASE OldForegroundStopped(t)
  BY <1>6 DEF OldForegroundStopped, foregroundFree
<1>7. CASE EarlyVT(t)
  BY <1>7 DEF EarlyVT
<1>8. CASE StartForeground(t)
  BY <1>8 DEF StartForeground
<1>9. CASE BackToBase(t)
  BY <1>9 DEF BackToBase
<1>10. CASE InstallForeground(t)
  BY <1>10 DEF InstallForeground
<1>11. CASE ShowForeground(t)
  BY <1>11 DEF ShowForeground
<1>12. CASE NewForegroundStopped(t) \/ FreeBase(t) \/ BaseFreed(t)
  BY <1>12 DEF NewForegroundStopped, FreeBase, BaseFreed
<1> QED
  BY <1>1, <1>2, <1>3, <1>4, <1>5, <1>6, <1>7, <1>8, <1>9, <1>10, <1>11,
     <1>12 DEF SwitchForeground

\* Every step of switchCompositor stays within the token.
LEMMA CompositorMoves ==
  ASSUME NEW t \in Threads, SwitchCompositor(t)
  PROVE  Moves(t) /\ holds(t)
<1> USE DEF Moves, holds, at, goto, finish, Points, TokenPoints
<1>1. CASE YieldForeground(t) \/ ForegroundYielded(t)
  BY <1>1 DEF YieldForeground, ForegroundYielded
<1>2. CASE SwitchOff(t) \/ BaseOff(t) \/ ScreenOff(t)
  BY <1>2 DEF SwitchOff, BaseOff, ScreenOff
<1>3. CASE KeepBase(t)
  BY <1>3 DEF KeepBase
<1>4. CASE InPlaceWeb(t) \/ ReplaceBase(t)
  BY <1>4 DEF InPlaceWeb, ReplaceBase
<1> QED BY <1>1, <1>2, <1>3, <1>4 DEF SwitchCompositor

\* Every step of startPrimary and restoreWebKiosk stays within the token.
LEMMA PrimaryMoves ==
  ASSUME NEW t \in Threads, Primary(t)
  PROVE  Moves(t) /\ holds(t)
<1> USE DEF Moves, holds, at, goto, finish, Points, TokenPoints
<1>1. CASE PrimaryRefused(t)
  BY <1>1 DEF PrimaryRefused, failPrimary
<1>2. CASE ReplacePrimary(t) \/ PrevStopped(t) \/ PrepareSurface(t)
  BY <1>2 DEF ReplacePrimary, PrevStopped, PrepareSurface
<1>3. CASE StartPrimary(t)
  BY <1>3 DEF StartPrimary
<1>4. CASE \/ Attach(t, "attachPrimary", "installPrimary")
           \/ Attach(t, "attachKiosk", "installKiosk")
  BY <1>4 DEF Attach
<1>5. CASE InstallPrimary(t) \/ InstallKiosk(t)
  BY <1>5 DEF InstallPrimary, InstallKiosk, returnFrom
<1>6. CASE StartFailed(t)
  BY <1>6 DEF StartFailed, failPrimary
<1>7. CASE Fallback(t)
  BY <1>7 DEF Fallback
<1>8. CASE StartKiosk(t)
  BY <1>8 DEF StartKiosk, returnFrom
<1> QED
  BY <1>1, <1>2, <1>3, <1>4, <1>5, <1>6, <1>7, <1>8 DEF Primary

\* The remaining steps of a goroutine that is under way.
LEMMA StepTokenInv ==
  ASSUME TokenInv, NEW t \in Threads, Step(t)
  PROVE  TokenInv'
<1>1. CASE SwitchForeground(t)
  BY <1>1, ForegroundMoves, MovesTokenInv
<1>2. CASE SwitchCompositor(t)
  BY <1>2, CompositorMoves, MovesTokenInv
<1>3. CASE Primary(t)
  BY <1>3, PrimaryMoves, MovesTokenInv
<1>4. CASE Release(t)
  BY <1>4, ReleaseTokenInv
<1>5. CASE Reattach(t) \/ Navigate(t) \/ ScrollPage(t)
  <2>1. Moves(t)
    BY <1>5 DEF Reattach, Navigate, ScrollPage, Moves, holds, at, goto,
       finish, Points, TokenPoints
  <2> QED BY <2>1, MovesTokenInv
<1>6. CASE \/ ReadStatus(t, "status", "record")
           \/ ReadStatus(t, "settle", "settleRecord")
           \/ RecordMode(t)
  <2>1. Moves(t)
    BY <1>6 DEF ReadStatus, RecordMode, Moves, holds, at, goto, Points,
       TokenPoints, FreePoints
  <2> QED BY <2>1, MovesTokenInv
<1>7. CASE ReturnToBase(t) \/ IdleScreen(t) \/ ToX(t)
  <2>1. Moves(t)
    BY <1>7 DEF ReturnToBase, IdleScreen, ToX, Moves, holds, at, goto,
       Points, TokenPoints
  <2> QED BY <2>1, MovesTokenInv
<1>8. CASE ForegroundDown(t) \/ BaseDown(t)
  <2>1. Moves(t)
    BY <1>8 DEF ForegroundDown, BaseDown, Moves, holds, at, goto, Points,
       TokenPoints, FreePoints
  <2> QED BY <2>1, MovesTokenInv
<1> QED
  BY <1>1, <1>2, <1>3, <1>4, <1>5, <1>6, <1>7, <1>8 DEF Step

\* A request takes the token only if nobody has it.
LEMMA RequestTokenInv ==
  ASSUME TokenInv, NEW t \in Threads, Request(t)
  PROVE  TokenInv'
<1>1. PICK point \in TokenPoints : Claims(t, point)
  <2>1. CASE \E m \in ModeSet : Switch(t, m)
    BY <2>1 DEF Switch, claim, Claims, TokenPoints
  <2>2. CASE RestartMode(t)
    BY <2>2 DEF RestartMode, claim, Claims, TokenPoints
  <2>3. CASE ReattachWeb(t) \/ AdvanceDocument(t)
    BY <2>3 DEF ReattachWeb, AdvanceDocument, claim, Claims, TokenPoints
  <2>4. CASE \E url \in Urls : NavigateIfWeb(t, url)
    BY <2>4 DEF NavigateIfWeb, claim, Claims, TokenPoints
  <2> QED BY <2>1, <2>2, <2>3, <2>4 DEF Request
<1> QED BY <1>1, ClaimTokenInv

\* A runner's loop touches the token only to begin a recovery.
LEMMA RunnerTokenInv ==
  ASSUME TokenInv, NEW r \in Runners, RunnerStep(r) \/ ChildExits(r)
  PROVE  TokenInv'
<1>1. r \in Threads
  BY DEF Threads
<1>2. CASE RecoverForeground(r)
  <2>1. PICK point \in TokenPoints : Claims(r, point)
    BY <1>2 DEF RecoverForeground, claim, Claims, TokenPoints
  <2> QED BY <1>1, <2>1, ClaimTokenInv
<1>3. CASE RecoverPrimary(r)
  <2>1. PICK point \in TokenPoints : Claims(r, point)
    BY <1>3 DEF RecoverPrimary, claim, Claims, TokenPoints
  <2> QED BY <1>1, <2>1, ClaimTokenInv
<1>4. CASE RecoveryBails(r) \/ BackoffOver(r) \/ Respawn(r)
           \/ RespawnAttach(r) \/ ChildExits(r)
  <2>1. UNCHANGED <<pc, switching>>
    BY <1>4 DEF RecoveryBails, BackoffOver, Respawn, RespawnAttach, ChildExits
  <2> QED BY <2>1 DEF TokenInv, TokenHeld, holds
<1> QED BY <1>2, <1>3, <1>4 DEF RunnerStep

\* Every step keeps the invariant.
LEMMA NextTokenInv == TokenInv /\ [Next]_vars => TokenInv'
<1> SUFFICES ASSUME TokenInv, [Next]_vars PROVE TokenInv'
  OBVIOUS
<1>1. CASE \E t \in Callers : Request(t)
  BY <1>1, RequestTokenInv DEF Threads
<1>2. CASE \E t \in Threads : Step(t)
  BY <1>2, StepTokenInv
<1>3. CASE \E r \in Runners : RunnerStep(r) \/ ChildExits(r)
  BY <1>3, RunnerTokenInv
<1>4. CASE \E t \in Mains : Shutdown(t)
  <2>1. PICK t \in Threads : Shutdown(t)
    BY <1>4 DEF Threads
  <2>2. Moves(t)
    <3>1. /\ "downFg" \in Points \ {"navigate"}
          /\ "downFg" \notin TokenPoints /\ "idle" \notin TokenPoints
      BY DEF Points, TokenPoints, FreePoints
    <3> QED BY <2>1, <3>1 DEF Shutdown, Moves, holds, at, goto
  <2> QED BY <2>1, <2>2, MovesTokenInv
<1>5. CASE UNCHANGED vars
  BY <1>5 DEF vars, surfaces, cdp, TokenInv, TokenHeld, holds
<1> QED BY <1>1, <1>2, <1>3, <1>4, <1>5 DEF Next

\* Switches and recoveries exclude each other, whoever asks and however they
\* end: the switching flag of supervisor.go is set exactly while one goroutine
\* is between the claim and the deferred release.
THEOREM SwitchesExclude == Spec => []TokenHeld
<1>1. Spec => []TokenInv
  BY InitTokenInv, NextTokenInv, PTL DEF Spec
<1>2. TokenInv => TokenHeld
  BY DEF TokenInv
<1> QED BY <1>1, <1>2, PTL

-----------------------------------------------------------------------------
(* Types *)

\* TypeOK without pc, which TokenInv types.
DataOK ==
    /\ runner \in Runners \cup {NoRunner} /\ fgRunner \in Runners \cup {NoRunner}
    /\ rn \in [Runners -> RunnerRecord]
    /\ vt \in {XVT, WaylandVT, ModeVT}
    /\ attached \in BOOLEAN /\ port \in {"x", "wayland"}
    /\ active \in AnyMode
    /\ loc \in [Threads -> Locals]

\* A navigation under way has a base, and its URL fits the mode of that base.
NavigateInv ==
    \A t \in Threads : pc[t] = "navigate" =>
        /\ loc[t].base \in Runners
        /\ setURL(rn[loc[t].base].mode, loc[t].m.param) \in AnyMode

TypeInv == TokenInv /\ DataOK /\ NavigateInv

-----------------------------------------------------------------------------
\* Every mode is a record of the three fields.
LEMMA ModeIsRecord ==
  ASSUME NEW m \in AnyMode
  PROVE  m = [type |-> m.type, display |-> m.display, param |-> m.param]
<1>1. CASE m \in ModeSet
  BY <1>1, ModeAssumption
<1>2. CASE m \in {ZeroMode, OffMode} \/ \E u : m = WebKiosk(u)
  BY <1>2 DEF ZeroMode, OffMode, WebKiosk
<1>3. CASE \E n \in ModeSet, u \in Urls : m = setURL(n, u)
  BY <1>3, ModeAssumption DEF setURL
<1> QED BY <1>1, <1>2, <1>3 DEF AnyMode

\* The modes the supervisor makes up are modes.
LEMMA ModeFacts ==
  /\ ModeSet \subseteq AnyMode /\ ZeroMode \in AnyMode /\ OffMode \in AnyMode
  /\ WebKiosk(InitialURL) \in AnyMode
  /\ \A m \in AnyMode : WebKiosk(urlOf(m)) \in AnyMode
  /\ \A m \in AnyMode, u \in Urls :
        m.type = "web" => setURL(m, u) \in AnyMode
<1>1. /\ ModeSet \subseteq AnyMode /\ ZeroMode \in AnyMode
      /\ OffMode \in AnyMode /\ WebKiosk(InitialURL) \in AnyMode
  BY DEF AnyMode
<1>2. \A u \in Urls \cup {InitialURL} : WebKiosk(u) \in AnyMode
  BY DEF AnyMode
<1>3. \A n \in ModeSet, u \in Urls :
         n.type = "web" => setURL(n, u) \in AnyMode
  BY DEF AnyMode
<1>4. \A n \in ModeSet :
         n.type \in {"web", "media"} => WebKiosk(n.param) \in AnyMode
  BY DEF AnyMode
<1>5. ASSUME NEW m \in AnyMode PROVE WebKiosk(urlOf(m)) \in AnyMode
  <2>1. CASE m \in ModeSet
    <3>1. CASE m.type \in {"web", "media"}
      BY <3>1, <2>1, <1>4 DEF urlOf
    <3>2. CASE m.type \notin {"web", "media"}
      BY <3>2, <1>1 DEF urlOf
    <3> QED BY <3>1, <3>2
  <2>2. CASE m \in {ZeroMode, OffMode}
    <3>1. urlOf(ZeroMode) = InitialURL /\ urlOf(OffMode) = InitialURL
      BY DEF urlOf, ZeroMode, OffMode
    <3> QED BY <2>2, <1>1, <3>1
  <2>3. CASE \E u \in Urls \cup {InitialURL} : m = WebKiosk(u)
    BY <2>3, <1>2 DEF urlOf, WebKiosk
  <2>4. CASE \E n \in ModeSet, u \in Urls :
                n.type = "web" /\ m = setURL(n, u)
    <3>1. PICK n \in ModeSet, u \in Urls :
             n.type = "web" /\ m = setURL(n, u)
      BY <2>4
    <3>2. m.type = "web" /\ m.param = u
      BY <3>1, ModeAssumption DEF setURL
    <3> QED BY <3>2, <1>2 DEF urlOf
  <2>5. CASE \E n \in ModeSet :
                n.type \in {"web", "media"} /\ m = WebKiosk(n.param)
    BY <2>5, <1>4 DEF urlOf, WebKiosk
  <2> QED BY <2>1, <2>2, <2>3, <2>4, <2>5 DEF AnyMode
<1>6. ASSUME NEW m \in AnyMode, NEW u \in Urls, m.type = "web"
      PROVE  setURL(m, u) \in AnyMode
  <2>1. CASE m \in ModeSet
    BY <2>1, <1>3, <1>6
  <2>2. CASE m \in {ZeroMode, OffMode}
    <3>1. ZeroMode.type # "web" /\ OffMode.type # "web"
      BY DEF ZeroMode, OffMode
    <3> QED BY <2>2, <1>6, <3>1
  <2>3. CASE \E v : m = WebKiosk(v)
    <3>1. setURL(m, u) = WebKiosk(u)
      BY <2>3 DEF WebKiosk, setURL
    <3> QED BY <3>1, <1>2
  <2>4. CASE \E n \in ModeSet, v \in Urls :
                n.type = "web" /\ m = setURL(n, v)
    <3>1. PICK n \in ModeSet, v \in Urls :
             n.type = "web" /\ m = setURL(n, v)
      BY <2>4
    <3>2. setURL(m, u) = setURL(n, u)
      BY <3>1, ModeAssumption DEF setURL
    <3> QED BY <3>1, <3>2, <1>3
  <2> QED BY <2>1, <2>2, <2>3, <2>4 DEF AnyMode
<1> QED BY <1>1, <1>5, <1>6

-----------------------------------------------------------------------------
\* Nobody runs and nothing is installed at first.
LEMMA InitTypeInv == Init => TypeInv
<1> SUFFICES ASSUME Init PROVE TypeInv
  OBVIOUS
<1>1. FreeRunner \in RunnerRecord /\ NoLocals \in Locals
  BY ModeFacts DEF FreeRunner, RunnerRecord, RunnerPoints, NoLocals, Locals, Ops
<1>2. DataOK
  BY <1>1, ModeFacts DEF Init, DataOK
<1>3. NavigateInv
  BY DEF Init, NavigateInv
<1> QED BY <1>2, <1>3, InitTokenInv DEF TypeInv

Rns  == [Runners -> RunnerRecord]
Locs == [Threads -> Locals]

\* What the helpers of the actions do to the runners and to the locals.
LEMMA CancelType == ASSUME DataOK, NEW r PROVE cancelled(r) \in Rns
  BY ZenonT(60) DEF DataOK, RunnerRecord, cancelled, Rns

LEMMA ModeType ==
  ASSUME DataOK, NEW r, NEW m \in AnyMode
  PROVE  [rn EXCEPT ![r].mode = m] \in Rns
  BY DEF DataOK, RunnerRecord, Rns

LEMMA UpType ==
  ASSUME DataOK, NEW r
  PROVE  [rn EXCEPT ![r].st = "running", ![r].pt = "up"] \in Rns
<1> DEFINE f == [rn EXCEPT ![r].st = "running"]
<1>1. f \in Rns
  BY DEF DataOK, RunnerRecord, Rns
<1>2. [f EXCEPT ![r].pt = "up"] \in Rns
  <2> HIDE DEF f
  <2> QED BY <1>1 DEF RunnerRecord, RunnerPoints, ChildPoints, Rns
<1> QED BY <1>2

LEMMA NewRunnerType ==
  ASSUME NEW m \in AnyMode, NEW back \in AnyMode,
         NEW point \in {"up", "attaching"},
         NEW hook \in {"none", "foreground", "primary"}
  PROVE  newRunner(m, point, hook, back) \in RunnerRecord
  BY DEF newRunner, RunnerRecord, RunnerPoints, ChildPoints

LEMMA LocalTypes ==
  ASSUME DataOK, NEW t \in Threads
  PROVE  /\ loc[t].fg \in Runners \cup {NoRunner}
         /\ loc[t].base \in Runners \cup {NoRunner}
         /\ loc[t].r \in Runners \cup {NoRunner}
         /\ loc[t].m \in AnyMode
  BY DEF DataOK, Locals

LEMMA FinishType ==
  ASSUME DataOK, NEW t \in Threads, NEW ok \in BOOLEAN, finish(t, ok)
  PROVE  loc' \in Locs
  BY DEF DataOK, Locals, Locs, finish

LEMMA FreeType ==
  ASSUME DataOK, NEW t \in Threads, foregroundFree(t)
  PROVE  loc' \in Locs
  BY DEF DataOK, Locals, Locs, foregroundFree

LEMMA FailType ==
  ASSUME DataOK, NEW t \in Threads, failPrimary(t) \/ returnFrom(t, TRUE)
                                    \/ returnFrom(t, FALSE)
  PROVE  loc' \in Locs
  BY FinishType DEF failPrimary, returnFrom, DataOK, Locs

LEMMA VTType ==
  ASSUME DataOK, NEW n \in {XVT, WaylandVT, ModeVT},
         tryVT(n) \/ activateVT(n) \/ chvtFails(n)
  PROVE  vt' \in {XVT, WaylandVT, ModeVT}
  BY DEF DataOK, tryVT, activateVT, chvtFails

LEMMA BaseVTs ==
  /\ baseVT \in {XVT, WaylandVT, ModeVT}
  /\ \A m : primaryVT(m) \in {XVT, WaylandVT, ModeVT}
  /\ \A m : cdpPort(m) \in {"x", "wayland"}
  BY DEF baseVT, primaryVT, cdpPort

\* Every step of switchForeground keeps the types.
LEMMA ForegroundTypes ==
  ASSUME DataOK, NEW t \in Threads, SwitchForeground(t)
  PROVE  DataOK'
<1> USE LocalTypes DEF surfaces, cdp, Rns, Locs
<1>1. CASE ShowSameForeground(t)
  BY <1>1, FinishType, VTType DEF ShowSameForeground, DataOK
<1>2. CASE CogToFront(t)
  BY <1>2, FinishType, VTType DEF CogToFront, DataOK
<1>3. CASE CogOpen(t)
  <2>1. CASE rn' = [rn EXCEPT ![loc[t].fg].mode = loc[t].m]
    <3>1. rn' \in Rns
      BY <2>1, ModeType
    <3> QED BY <1>3, <3>1, FinishType DEF CogOpen, DataOK
  <2>2. CASE rn' = rn
    BY <1>3, <2>2, FinishType DEF CogOpen, DataOK
  <2> QED BY <1>3, <2>1, <2>2 DEF CogOpen
<1>4. CASE ForegroundRefused(t) \/ NewForegroundStopped(t) \/ BaseFreed(t)
  BY <1>4, FinishType
     DEF ForegroundRefused, NewForegroundStopped, BaseFreed, DataOK
<1>5. CASE ReplaceForeground(t)
  BY <1>5, CancelType, FreeType DEF ReplaceForeground, DataOK
<1>6. CASE OldForegroundStopped(t)
  BY <1>6, FreeType DEF OldForegroundStopped, DataOK
<1>7. CASE EarlyVT(t)
  BY <1>7, VTType DEF EarlyVT, DataOK
<1>8. CASE StartForeground(t)
  <2>1. CASE UNCHANGED <<rn, loc>>
    BY <1>8, <2>1 DEF StartForeground, DataOK
  <2>2. ASSUME NEW r \in Runners,
               rn' = [rn EXCEPT ![r] = newRunner(loc[t].m, "up", "foreground",
                                           currentBaseMode(loc[t].base))],
               loc' = [loc EXCEPT ![t].r = r]
        PROVE  DataOK'
    <3>1. currentBaseMode(loc[t].base) \in AnyMode
      BY ModeFacts DEF currentBaseMode, DataOK, RunnerRecord
    <3>2. rn' \in Rns
      BY <2>2, <3>1, NewRunnerType DEF DataOK
    <3>3. loc' \in Locs
      BY <2>2 DEF DataOK, Locals
    <3> QED BY <1>8, <3>2, <3>3 DEF StartForeground, DataOK
  <2> QED BY <1>8, <2>1, <2>2 DEF StartForeground
<1>9. CASE BackToBase(t)
  BY <1>9, FinishType, VTType, BaseVTs DEF BackToBase, DataOK
<1>10. CASE InstallForeground(t)
  BY <1>10 DEF InstallForeground, DataOK
<1>11. CASE ShowForeground(t)
  BY <1>11, CancelType, VTType DEF ShowForeground, DataOK
<1>12. CASE FreeBase(t)
  <2>1. CASE runner' = runner
    BY <1>12, <2>1, FinishType DEF FreeBase, DataOK
  <2>2. CASE runner' = NoRunner /\ loc' = [loc EXCEPT ![t].base = runner]
    <3>1. loc' \in Locs
      BY <2>2 DEF DataOK, Locals
    <3> QED BY <1>12, <2>2, <3>1, CancelType, FinishType DEF FreeBase, DataOK
  <2> QED BY <1>12, <2>1, <2>2 DEF FreeBase
<1> QED
  BY <1>1, <1>2, <1>3, <1>4, <1>5, <1>6, <1>7, <1>8, <1>9, <1>10, <1>11,
     <1>12 DEF SwitchForeground

\* Every step of switchCompositor keeps the types.
LEMMA CompositorTypes ==
  ASSUME DataOK, NEW t \in Threads, SwitchCompositor(t)
  PROVE  DataOK'
<1> USE LocalTypes DEF surfaces, cdp, Rns, Locs
<1>1. CASE YieldForeground(t) \/ SwitchOff(t)
  BY <1>1, CancelType DEF YieldForeground, SwitchOff, DataOK
<1>2. CASE ForegroundYielded(t) \/ BaseOff(t) \/ ReplaceBase(t)
  BY <1>2 DEF ForegroundYielded, BaseOff, ReplaceBase, DataOK
<1>3. CASE ScreenOff(t)
  BY <1>3, FinishType, VTType DEF ScreenOff, DataOK
<1>4. CASE KeepBase(t)
  BY <1>4, FinishType, VTType, BaseVTs DEF KeepBase, DataOK
<1>5. CASE InPlaceWeb(t)
  <2>1. attached' \in BOOLEAN /\ loc' \in Locs
    BY <1>5, FinishType DEF InPlaceWeb, DataOK
  <2>2. CASE rn' = [rn EXCEPT ![runner].mode = loc[t].m]
    <3>1. rn' \in Rns
      BY <2>2, ModeType
    <3> QED BY <1>5, <2>1, <3>1, BaseVTs DEF InPlaceWeb, DataOK
  <2>3. CASE rn' = rn
    BY <1>5, <2>1, <2>3, BaseVTs DEF InPlaceWeb, DataOK
  <2> QED BY <1>5, <2>2, <2>3 DEF InPlaceWeb
<1> QED BY <1>1, <1>2, <1>3, <1>4, <1>5 DEF SwitchCompositor

\* Every step of startPrimary and restoreWebKiosk keeps the types.
LEMMA PrimaryTypes ==
  ASSUME DataOK, NEW t \in Threads, Primary(t)
  PROVE  DataOK'
<1> USE LocalTypes DEF surfaces, cdp, Rns, Locs
<1>1. CASE PrimaryRefused(t)
  BY <1>1, FailType DEF PrimaryRefused, DataOK
<1>2. CASE ReplacePrimary(t) \/ PrevStopped(t)
  BY <1>2, CancelType DEF ReplacePrimary, PrevStopped, DataOK
<1>3. CASE PrepareSurface(t)
  BY <1>3, VTType, BaseVTs DEF PrepareSurface, DataOK
<1>4. CASE StartPrimary(t)
  <2>1. CASE UNCHANGED <<rn, loc>>
    BY <1>4, <2>1 DEF StartPrimary, DataOK
  <2>2. ASSUME NEW r \in Runners, NEW point \in {"up", "attaching"},
               NEW hook \in {"none", "primary"},
               NEW back \in {WebKiosk(urlOf(loc[t].m)), ZeroMode},
               rn' = [rn EXCEPT ![r] = newRunner(loc[t].m, point, hook, back)],
               loc' = [loc EXCEPT ![t].r = r]
        PROVE  DataOK'
    <3>1. rn' \in Rns
      BY <2>2, ModeFacts, NewRunnerType DEF DataOK
    <3>2. loc' \in Locs
      BY <2>2 DEF DataOK, Locals
    <3> QED BY <1>4, <3>1, <3>2 DEF StartPrimary, DataOK
  <2> QED BY <1>4, <2>1, <2>2 DEF StartPrimary
<1>5. ASSUME NEW from, NEW to, Attach(t, from, to) PROVE DataOK'
  <2>1. rn' \in Rns
    BY <1>5, UpType DEF Attach
  <2> QED BY <1>5, <2>1 DEF Attach, DataOK
<1>6. CASE InstallPrimary(t) \/ InstallKiosk(t)
  BY <1>6, FailType DEF InstallPrimary, InstallKiosk, DataOK
<1>7. CASE StartFailed(t)
  BY <1>7, FailType, VTType DEF StartFailed, DataOK
<1>8. CASE Fallback(t)
  <2>1. loc' \in Locs
    BY <1>8, ModeFacts DEF Fallback, DataOK, Locals
  <2> QED BY <1>8, <2>1, VTType DEF Fallback, DataOK
<1>9. CASE StartKiosk(t)
  <2>1. CASE rn' = rn /\ returnFrom(t, FALSE)
    BY <1>9, <2>1, FailType DEF StartKiosk, DataOK
  <2>2. ASSUME NEW r \in Runners,
               rn' = [rn EXCEPT ![r] = newRunner(WebKiosk(urlOf(loc[t].m)),
                                           "attaching", "none", ZeroMode)],
               loc' = [loc EXCEPT ![t].r = r]
        PROVE  DataOK'
    <3>1. rn' \in Rns
      BY <2>2, ModeFacts, NewRunnerType DEF DataOK
    <3>2. loc' \in Locs
      BY <2>2 DEF DataOK, Locals
    <3> QED BY <1>9, <3>1, <3>2 DEF StartKiosk, DataOK
  <2> QED BY <1>9, <2>1, <2>2 DEF StartKiosk
<1> QED
  BY <1>1, <1>2, <1>3, <1>4, <1>5, <1>6, <1>7, <1>8, <1>9 DEF Primary

\* What Status() returns is a mode.
LEMMA StatusType == DataOK => Status \in AnyMode
  BY ModeFacts DEF DataOK, RunnerRecord, Status

LEMMA NoLocalsType == NoLocals \in Locals
  BY ModeFacts DEF NoLocals, Locals, Ops

\* The remaining steps of a goroutine that is under way.
LEMMA StepTypes ==
  ASSUME DataOK, NavigateInv, NEW t \in Threads, Step(t)
  PROVE  DataOK'
<1> USE LocalTypes DEF surfaces, cdp, Rns, Locs
<1>1. CASE SwitchForeground(t) \/ SwitchCompositor(t) \/ Primary(t)
  BY <1>1, ForegroundTypes, CompositorTypes, PrimaryTypes
<1>2. CASE Reattach(t)
  BY <1>2, FinishType, BaseVTs DEF Reattach, DataOK
<1>3. CASE Navigate(t)
  <2>1. CASE rn' = rn
    BY <1>3, <2>1, FinishType DEF Navigate, DataOK
  <2>2. CASE rn' = [rn EXCEPT ![loc[t].base].mode = setURL(@, loc[t].m.param)]
    <3>1. setURL(rn[loc[t].base].mode, loc[t].m.param) \in AnyMode
      BY <1>3 DEF NavigateInv, Navigate, at
    <3>2. PICK m \in AnyMode : rn' = [rn EXCEPT ![loc[t].base].mode = m]
      BY <2>2, <3>1
    <3>3. rn' \in Rns
      BY <3>2, ModeType
    <3> QED BY <1>3, <3>3, FinishType DEF Navigate, DataOK
  <2> QED BY <1>3, <2>1, <2>2 DEF Navigate
<1>4. CASE ScrollPage(t)
  BY <1>4, FinishType DEF ScrollPage, DataOK
<1>5. CASE Release(t)
  <2>1. rn' \in Rns
    BY <1>5 DEF Release, DataOK, RunnerRecord, RunnerPoints, OverPoints
  <2>2. loc' \in Locs
    BY <1>5, NoLocalsType DEF Release, DataOK
  <2> QED BY <1>5, <2>1, <2>2 DEF Release, DataOK
<1>6. ASSUME NEW from, NEW to, ReadStatus(t, from, to) PROVE DataOK'
  <2>1. loc' \in Locs
    BY <1>6, StatusType DEF ReadStatus, DataOK, Locals
  <2> QED BY <1>6, <2>1 DEF ReadStatus, DataOK
<1>7. CASE RecordMode(t)
  <2>1. loc' \in Locs
    BY <1>7, NoLocalsType DEF RecordMode, DataOK
  <2> QED BY <1>7, <2>1 DEF RecordMode, DataOK
<1>8. CASE ReturnToBase(t) \/ IdleScreen(t) \/ ToX(t)
  BY <1>8, VTType, BaseVTs DEF ReturnToBase, IdleScreen, ToX, DataOK
<1>9. CASE ForegroundDown(t)
  BY <1>9, CancelType DEF ForegroundDown, DataOK
<1>10. CASE BaseDown(t)
  <2>1. loc' \in Locs
    BY <1>10, NoLocalsType DEF BaseDown, DataOK
  <2> QED BY <1>10, <2>1, VTType DEF BaseDown, DataOK
<1> QED
  BY <1>1, <1>2, <1>3, <1>4, <1>5, <1>6, <1>7, <1>8, <1>9, <1>10 DEF Step

\* A claim types the locals it starts with.
LEMMA ClaimType ==
  ASSUME DataOK, NEW t \in Threads, NEW point, NEW locals \in Locals,
         claim(t, point, locals)
  PROVE  loc' \in Locs
  BY DEF claim, DataOK, Locs

\* A navigation begins with a web base and one of the URLs.
NavigateBegins(t) ==
  pc'[t] = "navigate" =>
      /\ loc'[t].base \in Runners
      /\ setURL(rn[loc'[t].base].mode, loc'[t].m.param) \in AnyMode

\* A request notes the mode asked for and the surfaces it found.
LEMMA RequestTypes ==
  ASSUME TokenInv, DataOK, NEW t \in Threads, Request(t)
  PROVE  DataOK' /\ NavigateBegins(t)
<1> USE DEF surfaces, cdp, Rns, Locs
<1>a. ASSUME NEW point, NEW locals \in Locals, claim(t, point, locals)
      PROVE  loc' \in Locs /\ pc'[t] = point /\ loc'[t] = locals
  BY <1>a, ClaimType DEF claim, goto, DataOK, TokenInv
<1>b. ASSUME NEW m \in AnyMode PROVE onBase(m) \in Locals
  BY <1>b DEF onBase, NoLocals, Locals, Ops, DataOK
<1>1. ASSUME NEW m \in ModeSet, Switch(t, m) PROVE DataOK' /\ NavigateBegins(t)
  <2>1. ASSUME NEW ok \in BOOLEAN
        PROVE  [op |-> "switch", m |-> m, base |-> runner, fg |-> fgRunner,
                r |-> NoRunner, ok |-> ok] \in Locals
    BY ModeFacts DEF Locals, Ops, DataOK
  <2>2. PICK point \in {"compositor", "release", "foreground"},
             ok \in BOOLEAN :
          claim(t, point, [op |-> "switch", m |-> m, base |-> runner,
                           fg |-> fgRunner, r |-> NoRunner, ok |-> ok])
    BY <1>1 DEF Switch
  <2>3. loc' \in Locs /\ pc'[t] # "navigate"
    BY <2>1, <2>2, <1>a
  <2> QED BY <1>1, <2>3 DEF Switch, DataOK, NavigateBegins
<1>2. CASE RestartMode(t)
  <2>1. ASSUME NEW m \in {Status, ZeroMode}
        PROVE  [op |-> "restart", m |-> m, base |-> runner, fg |-> fgRunner,
                r |-> NoRunner, ok |-> TRUE] \in Locals
    BY ModeFacts, StatusType DEF Locals, Ops, DataOK
  <2>2. PICK point \in {"foreground", "primary", "release"},
             m \in {Status, ZeroMode} :
          claim(t, point, [op |-> "restart", m |-> m, base |-> runner,
                           fg |-> fgRunner, r |-> NoRunner, ok |-> TRUE])
    BY <1>2 DEF RestartMode
  <2>3. loc' \in Locs /\ pc'[t] # "navigate"
    BY <2>1, <2>2, <1>a
  <2> QED BY <1>2, <2>3 DEF RestartMode, DataOK, NavigateBegins
<1>3. CASE ReattachWeb(t)
  <2>1. rn[runner].mode \in AnyMode
    BY <1>3 DEF ReattachWeb, webOnScreen, DataOK, RunnerRecord
  <2>2. loc' \in Locs /\ pc'[t] = "reattach"
    BY <1>3, <2>1, <1>a, <1>b DEF ReattachWeb
  <2> QED BY <1>3, <2>2 DEF ReattachWeb, DataOK, NavigateBegins
<1>4. CASE AdvanceDocument(t)
  <2>1. loc' \in Locs /\ pc'[t] = "scroll"
    BY <1>4, <1>a, <1>b, ModeFacts DEF AdvanceDocument
  <2> QED BY <1>4, <2>1 DEF AdvanceDocument, DataOK, NavigateBegins
<1>5. ASSUME NEW url \in Urls, NavigateIfWeb(t, url)
      PROVE  DataOK' /\ NavigateBegins(t)
  <2>1. runner \in Runners /\ rn[runner].mode.type = "web"
    BY <1>5 DEF NavigateIfWeb, webOnScreen, DataOK
  <2>2. rn[runner].mode \in AnyMode
    BY <2>1 DEF DataOK, RunnerRecord
  <2>3. setURL(rn[runner].mode, url) \in AnyMode
    BY <2>1, <2>2, ModeFacts
  <2>4. setURL(rn[runner].mode, url).param = url
    BY <2>2, ModeIsRecord DEF setURL
  <2>5. loc' \in Locs /\ loc'[t] = onBase(setURL(rn[runner].mode, url))
    BY <1>5, <2>3, <1>a, <1>b DEF NavigateIfWeb
  <2>6. loc'[t].base = runner /\ loc'[t].m = setURL(rn[runner].mode, url)
    BY <2>5 DEF onBase, NoLocals
  <2>7. NavigateBegins(t)
    BY <2>1, <2>3, <2>4, <2>6 DEF NavigateBegins
  <2> QED BY <1>5, <2>5, <2>7 DEF NavigateIfWeb, DataOK
<1> QED BY <1>1, <1>2, <1>3, <1>4, <1>5 DEF Request

\* A runner's loop changes states and points, never a mode; a recovery begins
\* with the mode to go back to.
LEMMA RunnerTypes ==
  ASSUME TokenInv, DataOK, NEW r \in Runners, RunnerStep(r) \/ ChildExits(r)
  PROVE  /\ DataOK'
         /\ \A q \in Runners : rn'[q].mode = rn[q].mode
         /\ \/ UNCHANGED <<pc, loc>>
            \/ ~switching /\ \E point \in TokenPoints \ {"navigate"} :
                                goto(r, point)
<1> USE DEF surfaces, cdp, Rns, Locs
<1>a. rn[r].mode \in AnyMode /\ rn[r].back \in AnyMode
  BY DEF DataOK, RunnerRecord
<1>b. ASSUME NEW st \in {"starting", "running", "stopped", "failed"},
             NEW p \in RunnerPoints,
             \/ rn' = [rn EXCEPT ![r].pt = p]
             \/ rn' = [rn EXCEPT ![r].st = st, ![r].pt = p]
             \/ rn' = [rn EXCEPT ![r].pt = p, ![r].st = st]
      PROVE  rn' \in Rns /\ \A q \in Runners : rn'[q].mode = rn[q].mode
  <2>1. CASE rn' = [rn EXCEPT ![r].pt = p]
    BY <2>1 DEF DataOK, RunnerRecord
  <2>2. CASE rn' = [rn EXCEPT ![r].st = st, ![r].pt = p]
    BY <2>2, ZenonT(60) DEF DataOK, RunnerRecord
  <2>3. CASE rn' = [rn EXCEPT ![r].pt = p, ![r].st = st]
    BY <2>3, ZenonT(60) DEF DataOK, RunnerRecord
  <2> QED BY <1>b, <2>1, <2>2, <2>3
<1>c. {"ended", "recovering", "backoff", "respawn", "reattaching", "up", "hook"}
        \subseteq RunnerPoints
  BY DEF RunnerPoints, OverPoints, ChildPoints
<1>d. r \in Threads
  BY DEF Threads
<1>1. CASE RecoveryBails(r)
  BY <1>1, <1>b, <1>c DEF RecoveryBails, DataOK
<1>2. CASE RecoverForeground(r)
  <2>1. rn' \in Rns /\ \A q \in Runners : rn'[q].mode = rn[q].mode
    BY <1>2, <1>b, <1>c DEF RecoverForeground
  <2>2. PICK point \in {"returnVT", "idleScreen", "primary"} :
          claim(r, point, [NoLocals EXCEPT !.op = "fgEnded", !.m = rn[r].back])
    BY <1>2 DEF RecoverForeground
  <2>3. [NoLocals EXCEPT !.op = "fgEnded", !.m = rn[r].back] \in Locals
    BY <1>a DEF NoLocals, Locals, Ops
  <2>4. loc' \in Locs
    BY <1>d, <2>2, <2>3, ClaimType
  <2>5. ~switching /\ \E p \in TokenPoints \ {"navigate"} : goto(r, p)
    BY <2>2 DEF claim, TokenPoints
  <2> QED BY <1>2, <2>1, <2>4, <2>5 DEF RecoverForeground, DataOK
<1>3. CASE RecoverPrimary(r)
  <2>1. rn' \in Rns /\ \A q \in Runners : rn'[q].mode = rn[q].mode
    BY <1>3, <1>b, <1>c DEF RecoverPrimary
  <2>2. claim(r, "toX", [NoLocals EXCEPT !.op = "primaryEnded",
                                         !.m = rn[r].back])
    BY <1>3 DEF RecoverPrimary
  <2>3. [NoLocals EXCEPT !.op = "primaryEnded", !.m = rn[r].back] \in Locals
    BY <1>a DEF NoLocals, Locals, Ops
  <2>4. loc' \in Locs
    BY <1>d, <2>2, <2>3, ClaimType
  <2>5. ~switching /\ \E p \in TokenPoints \ {"navigate"} : goto(r, p)
    BY <2>2 DEF claim, TokenPoints
  <2> QED BY <1>3, <2>1, <2>4, <2>5 DEF RecoverPrimary, DataOK
<1>4. CASE BackoffOver(r)
  BY <1>4, <1>b, <1>c, VTType, BaseVTs DEF BackoffOver, DataOK
<1>5. CASE Respawn(r)
  BY <1>5, <1>b, <1>c DEF Respawn, terminal, DataOK
<1>6. CASE RespawnAttach(r)
  BY <1>6, <1>b, <1>c DEF RespawnAttach, DataOK
<1>7. CASE ChildExits(r)
  BY <1>7, <1>b, <1>c DEF ChildExits, terminal, DataOK
<1> QED BY <1>1, <1>2, <1>3, <1>4, <1>5, <1>6, <1>7 DEF RunnerStep

-----------------------------------------------------------------------------
\* A step of a goroutine under way begins no navigation, and one that does not
\* hold the token changes no mode and no other goroutine's locals.
LEMMA StepNavigates ==
  ASSUME TokenInv, DataOK, NEW t \in Threads, Step(t)
  PROVE  /\ \E point : point # "navigate" /\ goto(t, point)
         /\ ~holds(t) => /\ \A u \in Threads : u # t => loc'[u] = loc[u]
                         /\ \A q \in Runners : rn'[q].mode = rn[q].mode
<1>1. CASE SwitchForeground(t) \/ SwitchCompositor(t) \/ Primary(t)
  BY <1>1, ForegroundMoves, CompositorMoves, PrimaryMoves DEF Moves
<1>2. CASE \/ Reattach(t) \/ Navigate(t) \/ ScrollPage(t) \/ Release(t)
           \/ ReturnToBase(t) \/ IdleScreen(t) \/ ToX(t)
  BY <1>2 DEF Reattach, Navigate, ScrollPage, Release, ReturnToBase,
     IdleScreen, ToX, finish, goto, at, holds, TokenPoints
<1>3. CASE ReadStatus(t, "status", "record")
           \/ ReadStatus(t, "settle", "settleRecord")
  BY <1>3 DEF ReadStatus, goto, DataOK
<1>4. CASE RecordMode(t)
  BY <1>4 DEF RecordMode, goto, DataOK
<1>5. CASE ForegroundDown(t)
  <2>1. \A q \in Runners : rn'[q].mode = rn[q].mode
    BY <1>5 DEF ForegroundDown, cancelled, DataOK, RunnerRecord
  <2> QED BY <1>5, <2>1 DEF ForegroundDown, goto
<1>6. CASE BaseDown(t)
  BY <1>6 DEF BaseDown, goto, DataOK
<1> QED BY <1>1, <1>2, <1>3, <1>4, <1>5, <1>6 DEF Step

\* A navigation under way keeps its base and its URL: only the holder of the
\* token could change them.
LEMMA NextNavigateInv ==
  ASSUME TypeInv, [Next]_vars
  PROVE  NavigateInv'
<1> USE DEF TypeInv
<1> DEFINE Kept(t) == /\ pc[t] = "navigate" /\ loc'[t] = loc[t]
                      /\ \A q \in Runners : rn'[q].mode = rn[q].mode
<1>a. ASSUME NEW t \in Threads, Kept(t)
      PROVE  /\ loc'[t].base \in Runners
             /\ setURL(rn'[loc'[t].base].mode, loc'[t].m.param) \in AnyMode
  BY <1>a DEF NavigateInv
<1>b. \A t \in Threads : pc[t] = "navigate" => holds(t)
  BY DEF holds, TokenPoints
<1>c. \A t, u \in Threads : holds(t) /\ holds(u) => t = u
  BY DEF TokenInv, TokenHeld
<1>d. ~switching => \A t \in Threads : pc[t] # "navigate"
  BY <1>b DEF TokenInv, TokenHeld
<1>1. ASSUME NEW t \in Threads, Request(t) PROVE NavigateInv'
  <2>1. ~switching /\ rn' = rn /\ \E point : goto(t, point)
    BY <1>1 DEF Request, Switch, RestartMode, ReattachWeb, NavigateIfWeb,
       AdvanceDocument, claim
  <2>2. \A u \in Threads : u # t => pc'[u] # "navigate"
    BY <2>1, <1>d DEF goto, TokenInv
  <2> QED BY <1>1, <2>1, <2>2, RequestTypes DEF NavigateBegins, NavigateInv
<1>2. ASSUME NEW t \in Threads, Step(t) PROVE NavigateInv'
  <2>1. PICK point : point # "navigate" /\ goto(t, point)
    BY <1>2, StepNavigates
  <2>2. ASSUME NEW u \in Threads, pc'[u] = "navigate" PROVE Kept(u)
    <3>1. u # t /\ pc[u] = "navigate"
      BY <2>1, <2>2 DEF goto, TokenInv
    <3>2. ~holds(t)
      BY <3>1, <1>b, <1>c
    <3> QED BY <1>2, <3>1, <3>2, StepNavigates
  <2> QED BY <2>2, <1>a DEF NavigateInv
<1>3. ASSUME NEW r \in Runners, RunnerStep(r) \/ ChildExits(r)
      PROVE  NavigateInv'
  <2>1. CASE UNCHANGED <<pc, loc>>
    <3>1. ASSUME NEW u \in Threads, pc'[u] = "navigate" PROVE Kept(u)
      BY <1>3, <2>1, <3>1, RunnerTypes
    <3> QED BY <3>1, <1>a DEF NavigateInv
  <2>2. CASE ~switching /\ \E point \in TokenPoints \ {"navigate"} :
                              goto(r, point)
    <3>1. \A u \in Threads : pc'[u] # "navigate"
      BY <2>2, <1>d DEF goto, TokenInv
    <3> QED BY <3>1 DEF NavigateInv
  <2> QED BY <1>3, <2>1, <2>2, RunnerTypes
<1>4. ASSUME NEW t \in Threads, Shutdown(t) PROVE NavigateInv'
  <2>1. \A q \in Runners : rn'[q].mode = rn[q].mode
    BY <1>4 DEF Shutdown, cancelled, DataOK, RunnerRecord
  <2>2. ASSUME NEW u \in Threads, pc'[u] = "navigate" PROVE Kept(u)
    <3>1. u # t /\ pc[u] = "navigate"
      BY <1>4, <2>2 DEF Shutdown, goto, TokenInv
    <3>2. loc'[u] = loc[u]
      BY <1>4, <3>1 DEF Shutdown, DataOK
    <3> QED BY <2>1, <3>1, <3>2
  <2> QED BY <2>2, <1>a DEF NavigateInv
<1>5. CASE UNCHANGED vars
  BY <1>5 DEF vars, surfaces, cdp, NavigateInv
<1> QED BY <1>1, <1>2, <1>3, <1>4, <1>5 DEF Next, Threads

\* Shutdown notes the surfaces it stops.
LEMMA ShutdownTypes ==
  ASSUME DataOK, NEW t \in Threads, Shutdown(t)
  PROVE  DataOK'
<1> DEFINE noted == [loc EXCEPT ![t].base = runner]
<1>1. noted \in Locs
  BY DEF DataOK, Locals, Locs
<1>2. loc' = [noted EXCEPT ![t].fg = fgRunner]
  BY DEF Shutdown
<1>3. loc' \in Locs
  <2> HIDE DEF noted
  <2> QED BY <1>1, <1>2 DEF DataOK, Locals, Locs
<1>4. rn' \in Rns
  BY CancelType DEF Shutdown, DataOK, Rns
<1>5. /\ runner' = NoRunner /\ fgRunner' = NoRunner
      /\ UNCHANGED <<vt, attached, port, active>>
  BY DEF Shutdown, cdp
<1> HIDE DEF noted
<1> QED BY <1>3, <1>4, <1>5 DEF DataOK, Rns, Locs

\* Every step keeps the types.
LEMMA NextTypeInv == TypeInv /\ [Next]_vars => TypeInv'
<1> SUFFICES ASSUME TypeInv, [Next]_vars PROVE TypeInv'
  OBVIOUS
<1>1. TokenInv'
  BY NextTokenInv DEF TypeInv
<1>2. NavigateInv'
  BY NextNavigateInv
<1>3. DataOK'
  <2> USE DEF TypeInv
  <2>1. CASE \E t \in Callers : Request(t)
    BY <2>1, RequestTypes DEF Threads
  <2>2. CASE \E t \in Threads : Step(t)
    BY <2>2, StepTypes
  <2>3. CASE \E r \in Runners : RunnerStep(r) \/ ChildExits(r)
    BY <2>3, RunnerTypes
  <2>4. CASE \E t \in Mains : Shutdown(t)
    BY <2>4, ShutdownTypes DEF Threads
  <2>5. CASE UNCHANGED vars
    BY <2>5 DEF vars, surfaces, cdp, DataOK
  <2> QED BY <2>1, <2>2, <2>3, <2>4, <2>5 DEF Next
<1> QED BY <1>1, <1>2, <1>3 DEF TypeInv

\* Whatever is asked of the supervisor and however its children end, every
\* variable keeps its type; in particular each mode it runs, restores or
\* persists is one that was asked for, or the web kiosk of its URL.
THEOREM SupervisorTyped == Spec => []TypeOK
<1>1. Spec => []TypeInv
  BY InitTypeInv, NextTypeInv, PTL DEF Spec
<1>2. TypeInv => TypeOK
  BY DEF TypeInv, TypeOK, TokenInv, DataOK, Points
<1> QED BY <1>1, <1>2, PTL
=============================================================================
