-------------------------- MODULE SupervisorScreen --------------------------
(***************************************************************************)
(* What is installed is what is shown: the virtual terminal and the CDP    *)
(* port follow the surfaces of the supervisor, for every set of callers,   *)
(* runners and modes.                                                      *)
(*                                                                         *)
(* SupervisorSafety says where every surface is at each point of an        *)
(* operation.  On top of it each operation keeps three notes: the port it  *)
(* has aimed the controller at (Aimed), the VT it has brought to the front *)
(* for the base it is starting or has kept (Shows), and the VT under an    *)
(* installed foreground (Seen).  A Wayland base that restarts its child    *)
(* asserts its own VT and port without the token; SupervisorSafety says    *)
(* that it is then the installed base or the one about to be installed.    *)
(***************************************************************************)
EXTENDS SupervisorSafety

\* A node that offers no Wayland mode.  On the others a Wayland base takes the
\* screen back from a foreground mode whenever it restarts its child.
XNode == \A m \in ModeSet : m.display # "wayland"

Aimed(p, l) ==
    /\ runner # NoRunner /\ usesChrome(rn[runner].mode) =>
          port = cdpPort(rn[runner].mode)
    /\ p \in {"startPrimary"} \cup NewPrimary => port = cdpPort(l.m)
    /\ p \in {"kiosk"} \cup NewKiosk => port = "x"
    /\ p = "reattach" => runner # NoRunner /\ l.m = rn[runner].mode

Shows(p, l) ==
    /\ p \in {"startPrimary"} \cup NewPrimary => vt = primaryVT(l.m)
    /\ p \in {"kiosk"} \cup NewKiosk => vt = XVT
    /\ p \in {"settle", "settleRecord", "release"} /\ l.op = "fgEnded"
       /\ runner # NoRunner => vt = primaryVT(rn[runner].mode)

Seen(p, l) ==
    /\ p # "toX" /\ \A r \in Runners : rn[r].hook # "primary"
    /\ p # "showFg" /\ fgRunner # NoRunner => vt = ModeVT
    /\ p \in {"cogOpen", "freeBase"} => vt = ModeVT
    /\ p \in {"startFg", "installFg"} /\ isCogKiosk(l.m) => vt = ModeVT

Lit(t) ==
    /\ Aimed(pc[t], loc[t])
    /\ ~ChvtMayFail /\ XVT > 0 /\ WaylandVT > 0 => Shows(pc[t], loc[t])
    /\ XNode /\ ModeVT > 0 => Seen(pc[t], loc[t])

-----------------------------------------------------------------------------
\* The modes a node makes up are Wayland modes only if it offers some.
LEMMA XModes == XNode => \A m \in AnyMode : ~isWaylandPrimary(m)
<1> SUFFICES ASSUME XNode, NEW m \in AnyMode PROVE m.display # "wayland"
  BY DEF isWaylandPrimary
<1>1. CASE m \in ModeSet
  BY <1>1 DEF XNode
<1>2. CASE m \in {ZeroMode, OffMode} \/ \E u : m = WebKiosk(u)
  <2>1. ZeroMode.display # "wayland" /\ OffMode.display # "wayland"
    BY DEF ZeroMode, OffMode
  <2>2. \A u : WebKiosk(u).display # "wayland"
    BY DEF WebKiosk
  <2> QED BY <1>2, <2>1, <2>2
<1>3. CASE \E n \in ModeSet, u \in Urls : m = setURL(n, u)
  BY <1>3, ModeAssumption DEF setURL, XNode
<1> QED BY <1>1, <1>2, <1>3 DEF AnyMode

\* A VT number that is not 0 is switched to unless chvt fails.
LEMMA Activated ==
  ASSUME NEW n \in Nat
  PROVE  /\ n > 0 /\ activateVT(n) => vt' = n
         /\ n > 0 /\ ~ChvtMayFail /\ tryVT(n) => vt' = n
         /\ n > 0 /\ tryVT(n) => vt' \in {vt, n}
         /\ chvtFails(n) => vt' = vt
  BY DEF activateVT, tryVT, chvtFails

\* What a step of switchForeground may do to the base and to the hooks.
BaseLeft(t) ==
    /\ port' = port /\ loc'[t].op = loc[t].op
    /\ pc[t] \in ForegroundPath \cup {"foreground", "backToBase"}
    /\ pc'[t] \in ForegroundPath \cup {"backToBase", "release"}
    /\ runner' \in {runner, NoRunner}
    /\ runner' # NoRunner => rn'[runner].mode = rn[runner].mode
    /\ \A q \in Runners : rn'[q].hook \in {rn[q].hook, "foreground"}

\* Such a step keeps the notes about the base.
LEMMA BaseStaysLit ==
  ASSUME NEW t \in Threads, Arranged(t), Lit(t), BaseLeft(t),
         XNode /\ ModeVT > 0 => Seen(pc[t], loc[t])'
  PROVE  Lit(t)'
<1>1. loc[t].op # "fgEnded"
  BY DEF Arranged, Surfaces, BaseLeft, ForegroundPath, RecoveryPath, TokenPoints
<1>2. Aimed(pc[t], loc[t])'
  BY DEF Lit, Aimed, BaseLeft, ForegroundPath, NewPrimary, NewKiosk
<1>3. Shows(pc[t], loc[t])'
  BY <1>1 DEF Shows, BaseLeft, ForegroundPath, NewPrimary, NewKiosk
<1> QED BY <1>2, <1>3 DEF Lit

\* Every step of switchForeground.
LEMMA ForegroundLit ==
  ASSUME TypeInv, NEW t \in Threads, Arranged(t), Lit(t), SwitchForeground(t)
  PROVE  Lit(t)'
<1>a. TokenInv /\ DataOK /\ ModeVT \in Nat
  BY VTAssumption DEF TypeInv
<1>b. /\ loc[t].fg \in Runners \cup {NoRunner}
      /\ loc[t].r \in Runners \cup {NoRunner}
      /\ loc[t].base \in Runners \cup {NoRunner}
      /\ runner \in Runners \cup {NoRunner}
      /\ fgRunner \in Runners \cup {NoRunner}
      /\ NoRunner \notin Runners
  BY <1>a, Surfaced
<1>c. ASSUME NEW r \in Runners, rn' = cancelled(r)
      PROVE  \A q \in Runners : rn'[q].mode = rn[q].mode /\ rn'[q].hook = rn[q].hook
  BY <1>a, <1>c DEF DataOK, RunnerRecord, cancelled
<1>n. XNode /\ ModeVT > 0 => Seen(pc[t], loc[t])
  BY DEF Lit
<1> SUFFICES BaseLeft(t) /\ (XNode /\ ModeVT > 0 => Seen(pc[t], loc[t])')
  BY BaseStaysLit
<1> USE <1>b DEF Seen, BaseLeft, ForegroundPath
<1>1. CASE ShowSameForeground(t)
  <2>1. pc[t] = "foreground" /\ UNCHANGED <<runner, fgRunner, rn, port>>
        /\ (ModeVT > 0 => vt' = ModeVT \/ vt' = vt)
    BY <1>1, <1>a, Activated DEF ShowSameForeground, at, surfaces, cdp
  <2>2. \E ok \in BOOLEAN : finish(t, ok)
    BY <1>1 DEF ShowSameForeground
  <2>3. pc'[t] = "release" /\ loc'[t].op = loc[t].op /\ loc'[t].m = loc[t].m
    BY <1>a, <2>2, FinishAt
  <2> QED BY <1>n, <2>1, <2>3
<1>2. CASE CogToFront(t)
  <2>1. pc[t] = "foreground" /\ UNCHANGED <<runner, fgRunner, rn, port>>
    BY <1>2 DEF CogToFront, at, surfaces, cdp
  <2>2. CASE finish(t, FALSE) /\ chvtFails(ModeVT)
    <3>1. /\ pc'[t] = "release" /\ loc'[t].op = loc[t].op /\ loc'[t].m = loc[t].m
          /\ vt' = vt
      BY <1>a, <2>2, FinishAt, Activated
    <3> QED BY <1>n, <2>1, <3>1
  <2>3. CASE activateVT(ModeVT) /\ goto(t, "cogOpen") /\ UNCHANGED loc
    <3>1. /\ pc'[t] = "cogOpen" /\ loc' = loc /\ (ModeVT > 0 => vt' = ModeVT)
      BY <1>a, <2>3, GotoAt, Activated
    <3> QED BY <1>n, <2>1, <3>1
  <2> QED BY <1>2, <2>2, <2>3 DEF CogToFront
<1>3. CASE CogOpen(t)
  <2>1. /\ pc[t] = "cogOpen" /\ UNCHANGED <<runner, fgRunner, vt, port>>
        /\ \E ok \in BOOLEAN : finish(t, ok)
    BY <1>3 DEF CogOpen, at, surfaces, cdp
  <2>2. pc'[t] = "release" /\ loc'[t].op = loc[t].op /\ loc'[t].m = loc[t].m
    BY <1>a, <2>1, FinishAt
  <2>3. /\ \A q \in Runners : rn'[q].hook = rn[q].hook
        /\ \A q \in Runners \ {fgRunner} : rn'[q].mode = rn[q].mode
    <3>1. CASE rn' = rn
      BY <3>1
    <3>2. CASE rn' = [rn EXCEPT ![fgRunner].mode = loc[t].m]
      BY <1>a, <3>2 DEF DataOK, RunnerRecord
    <3> QED BY <1>3, <3>1, <3>2 DEF CogOpen
  <2>4. runner # NoRunner => runner # fgRunner
    BY DEF Arranged, Installed, overlay, baseMode
  <2> QED BY <1>n, <2>1, <2>2, <2>3, <2>4
<1>4. CASE ForegroundRefused(t) \/ BackToBase(t)
  <2>1. /\ pc[t] \in {"foreground", "backToBase"}
        /\ UNCHANGED <<runner, fgRunner, rn, port>> /\ finish(t, FALSE)
    BY <1>4 DEF ForegroundRefused, BackToBase, at, surfaces, cdp
  <2>2. pc'[t] = "release" /\ loc'[t].op = loc[t].op /\ loc'[t].m = loc[t].m
    BY <1>a, <2>1, FinishAt
  <2>3. vt' = vt \/ fgRunner = NoRunner
    BY <1>4 DEF ForegroundRefused, BackToBase, at, Arranged, Surfaces,
         FgUninstalled
  <2> QED BY <1>n, <2>1, <2>2, <2>3
<1>f. ASSUME foregroundFree(t), UNCHANGED <<surfaces, rn, vt, port>>,
             \/ pc[t] = "foreground" /\ loc[t].fg = NoRunner
             \/ pc[t] = "fgStopping"
      PROVE  BaseLeft(t) /\ (XNode /\ ModeVT > 0 => Seen(pc[t], loc[t])')
  <2>1. loc'[t].op = loc[t].op /\ loc'[t].m = loc[t].m
        /\ pc'[t] = IF isCogKiosk(loc[t].m) THEN "earlyVT" ELSE "startFg"
    BY <1>a, <1>f, LocalKeeps, GotoAt DEF foregroundFree
  <2>2. UNCHANGED <<runner, fgRunner, rn, vt, port>>
    BY <1>f DEF surfaces
  <2> QED BY <1>f, <1>n, <2>1, <2>2
<1>5. CASE ReplaceForeground(t)
  <2>1. CASE loc[t].fg = NoRunner
    BY <1>5, <2>1, <1>f DEF ReplaceForeground, at, surfaces, cdp
  <2>2. CASE loc[t].fg # NoRunner
    <3>1. /\ pc'[t] = "fgStopping" /\ pc[t] = "foreground" /\ loc' = loc
          /\ fgRunner' = NoRunner /\ UNCHANGED <<runner, vt, port>>
          /\ rn' = cancelled(loc[t].fg) /\ loc[t].fg \in Runners
      BY <1>a, <1>5, <2>2, GotoAt DEF ReplaceForeground, at, cdp
    <3>2. \A q \in Runners : rn'[q].mode = rn[q].mode /\ rn'[q].hook = rn[q].hook
      BY <3>1, <1>c
    <3> QED BY <1>n, <3>1, <3>2
  <2> QED BY <2>1, <2>2
<1>6. CASE OldForegroundStopped(t)
  BY <1>6, <1>f DEF OldForegroundStopped, at, cdp
<1>7. CASE EarlyVT(t)
  <2>1. /\ pc[t] = "earlyVT" /\ loc' = loc /\ fgRunner = NoRunner
        /\ UNCHANGED <<runner, fgRunner, rn, port>>
    BY <1>7 DEF EarlyVT, at, surfaces, cdp, Arranged, Surfaces, FgUninstalled
  <2>2. \/ pc'[t] = "startFg" /\ (ModeVT > 0 => vt' = ModeVT)
        \/ pc'[t] = "backToBase"
    BY <1>a, <1>7, GotoAt, Activated DEF EarlyVT
  <2> QED BY <1>n, <2>1, <2>2
<1>8. CASE StartForeground(t)
  <2>a. pc[t] = "startFg" /\ UNCHANGED <<runner, fgRunner, vt, port>>
        /\ fgRunner = NoRunner
    BY <1>8 DEF StartForeground, at, surfaces, cdp, Arranged, Surfaces,
         FgUninstalled
  <2>1. CASE goto(t, "backToBase") /\ UNCHANGED <<rn, loc>>
    <3>1. pc'[t] = "backToBase"
      BY <1>a, <2>1, GotoAt
    <3> QED BY <1>n, <2>a, <2>1, <3>1
  <2>2. ASSUME NEW r \in Runners, garbage(r),
               rn' = [rn EXCEPT ![r] = newRunner(loc[t].m, "up", "foreground",
                                           currentBaseMode(loc[t].base))],
               loc' = [loc EXCEPT ![t].r = r], goto(t, "installFg")
        PROVE  BaseLeft(t) /\ (XNode /\ ModeVT > 0 => Seen(pc[t], loc[t])')
    <3>1. /\ pc'[t] = "installFg" /\ loc'[t].op = loc[t].op /\ loc'[t].m = loc[t].m
      BY <1>a, <2>2, GotoAt, LocalKeeps
    <3>2. /\ rn'[r].hook = "foreground"
          /\ \A q \in Runners \ {r} : rn'[q] = rn[q]
          /\ r # runner
      BY <1>a, <2>2 DEF DataOK, garbage, newRunner, Arranged, Installed, started
    <3> QED BY <1>n, <2>a, <3>1, <3>2
  <2> QED BY <1>8, <2>1, <2>2 DEF StartForeground
<1>9. CASE InstallForeground(t)
  <2>1. /\ pc[t] = "installFg" /\ loc' = loc /\ UNCHANGED <<runner, rn, vt, port>>
        /\ pc'[t] = IF isCogKiosk(loc[t].m) THEN "freeBase" ELSE "showFg"
    BY <1>a, <1>9, GotoAt DEF InstallForeground, at, cdp
  <2> QED BY <1>n, <2>1
<1>10. CASE ShowForeground(t)
  <2>a. pc[t] = "showFg" /\ loc' = loc /\ UNCHANGED <<runner, port>>
        /\ loc[t].r \in Runners /\ loc[t].r = fgRunner
    BY <1>10 DEF ShowForeground, at, cdp, Arranged, Surfaces, InHand,
       ForegroundUp, started
  <2>1. CASE activateVT(ModeVT) /\ goto(t, "freeBase") /\ UNCHANGED <<fgRunner, rn>>
    <3>1. pc'[t] = "freeBase" /\ (ModeVT > 0 => vt' = ModeVT)
      BY <1>a, <2>1, GotoAt, Activated
    <3> QED BY <1>n, <2>a, <2>1, <3>1
  <2>2. CASE goto(t, "newStopping") /\ fgRunner' = NoRunner /\ rn' = cancelled(loc[t].r)
    <3>1. pc'[t] = "newStopping"
      BY <1>a, <2>2, GotoAt
    <3>2. \A q \in Runners : rn'[q].mode = rn[q].mode /\ rn'[q].hook = rn[q].hook
      BY <2>a, <2>2, <1>c
    <3> QED BY <1>n, <2>a, <2>2, <3>1, <3>2
  <2> QED BY <1>10, <2>a, <2>1, <2>2 DEF ShowForeground
<1>11. CASE NewForegroundStopped(t) \/ BaseFreed(t)
  <2>1. /\ pc[t] \in {"newStopping", "baseStopping"}
        /\ UNCHANGED <<runner, fgRunner, rn, vt, port>>
        /\ \E ok \in BOOLEAN : finish(t, ok)
    BY <1>11 DEF NewForegroundStopped, BaseFreed, at, surfaces, cdp
  <2>2. pc'[t] = "release" /\ loc'[t].op = loc[t].op /\ loc'[t].m = loc[t].m
    BY <1>a, <2>1, FinishAt
  <2> QED BY <1>n, <2>1, <2>2
<1>12. CASE FreeBase(t)
  <2>a. pc[t] = "freeBase" /\ UNCHANGED <<fgRunner, vt, port>>
    BY <1>12 DEF FreeBase, at
  <2>1. CASE finish(t, TRUE) /\ UNCHANGED <<runner, rn>>
    <3>1. pc'[t] = "release" /\ loc'[t].op = loc[t].op /\ loc'[t].m = loc[t].m
      BY <1>a, <2>1, FinishAt
    <3> QED BY <1>n, <2>a, <2>1, <3>1
  <2>2. CASE /\ runner \in Runners /\ runner' = NoRunner /\ rn' = cancelled(runner)
             /\ goto(t, "baseStopping") /\ loc' = [loc EXCEPT ![t].base = runner]
    <3>1. pc'[t] = "baseStopping" /\ loc'[t].op = loc[t].op /\ loc'[t].m = loc[t].m
      BY <1>a, <2>2, GotoAt, LocalKeeps
    <3>2. \A q \in Runners : rn'[q].mode = rn[q].mode /\ rn'[q].hook = rn[q].hook
      BY <2>2, <1>c
    <3> QED BY <1>n, <2>a, <2>2, <3>1, <3>2
  <2> QED BY <1>12, <2>1, <2>2 DEF FreeBase
<1> QED
  BY <1>1, <1>2, <1>3, <1>4, <1>5, <1>6, <1>7, <1>8, <1>9, <1>10, <1>11,
     <1>12 DEF SwitchForeground

\* A step that leaves no foreground installed, or the one it found under the VT
\* it found, keeps the note about it.
ForegroundLeft(t) ==
    /\ pc[t] # "showFg"
    /\ pc'[t] \notin {"showFg", "cogOpen", "freeBase", "startFg", "installFg"}
    /\ pc'[t] = "toX" => pc[t] = "toX"
    /\ \/ fgRunner' = NoRunner
       \/ fgRunner' = fgRunner /\ vt' = vt
    /\ \A q \in Runners : rn'[q].hook \in {rn[q].hook, "foreground", "none"}

LEMMA ForegroundStaysSeen ==
  ASSUME NEW t \in Threads, Seen(pc[t], loc[t]), ForegroundLeft(t)
  PROVE  Seen(pc[t], loc[t])'
  BY DEF Seen, ForegroundLeft

\* Every step of switchCompositor.
LEMMA CompositorLit ==
  ASSUME TypeInv, NEW t \in Threads, Arranged(t), Lit(t), SwitchCompositor(t)
  PROVE  Lit(t)'
<1>a. TokenInv /\ DataOK
  BY DEF TypeInv
<1>b. /\ loc[t].fg \in Runners \cup {NoRunner}
      /\ loc[t].r \in Runners \cup {NoRunner}
      /\ loc[t].base \in Runners \cup {NoRunner}
      /\ runner \in Runners \cup {NoRunner}
      /\ fgRunner \in Runners \cup {NoRunner}
      /\ NoRunner \notin Runners
  BY <1>a, Surfaced
<1>c. ASSUME NEW r \in Runners, rn' = cancelled(r)
      PROVE  \A q \in Runners : rn'[q].mode = rn[q].mode /\ rn'[q].hook = rn[q].hook
  BY <1>a, <1>c DEF DataOK, RunnerRecord, cancelled
<1>n. Aimed(pc[t], loc[t]) /\ (XNode /\ ModeVT > 0 => Seen(pc[t], loc[t]))
  BY DEF Lit
<1> DEFINE Path == {"compositor", "yielding", "yielded", "offStopping", "off", "inPlace"}
<1> SUFFICES /\ Aimed(pc[t], loc[t])' /\ ForegroundLeft(t)
             /\ loc'[t].op = loc[t].op /\ pc[t] \in Path
             /\ pc'[t] \in Path \cup {"primary", "release"}
  <2>1. loc[t].op # "fgEnded"
    BY DEF Arranged, Surfaces, RecoveryPath, TokenPoints
  <2>2. Shows(pc[t], loc[t])'
    BY <2>1 DEF Shows, NewPrimary, NewKiosk
  <2> QED BY <1>n, <2>2, ForegroundStaysSeen DEF Lit
<1> USE <1>b, <1>n DEF Aimed, ForegroundLeft, NewPrimary, NewKiosk
<1>1. CASE YieldForeground(t)
  <2>1. /\ pc[t] = "compositor" /\ loc' = loc /\ fgRunner' = NoRunner
        /\ UNCHANGED <<runner, vt, port>>
        /\ pc'[t] \in {"yielding", "yielded"}
    BY <1>a, <1>1, GotoAt DEF YieldForeground, at, cdp, Arranged, Surfaces
  <2>2. \A q \in Runners : rn'[q].mode = rn[q].mode /\ rn'[q].hook = rn[q].hook
    BY <1>1, <1>c DEF YieldForeground
  <2> QED BY <2>1, <2>2
<1>2. CASE ForegroundYielded(t) \/ BaseOff(t) \/ ReplaceBase(t)
  <2>1. /\ pc[t] \in Path /\ loc' = loc /\ UNCHANGED <<runner, fgRunner, rn, vt, port>>
        /\ pc'[t] \in {"yielded", "off", "primary"}
    BY <1>a, <1>2, GotoAt DEF ForegroundYielded, BaseOff, ReplaceBase, at,
       surfaces, cdp
  <2> QED BY <2>1
<1>3. CASE SwitchOff(t)
  <2>1. /\ pc[t] = "yielded" /\ loc' = loc /\ UNCHANGED <<fgRunner, vt, port>>
        /\ pc'[t] \in {"offStopping", "off"} /\ runner' \in {runner, NoRunner}
    BY <1>a, <1>3, GotoAt DEF SwitchOff, at, cdp
  <2>2. \A q \in Runners : rn'[q].mode = rn[q].mode /\ rn'[q].hook = rn[q].hook
    BY <1>3, <1>c DEF SwitchOff
  <2> QED BY <2>1, <2>2
<1>4. CASE ScreenOff(t)
  <2>1. /\ pc[t] = "off" /\ finish(t, TRUE) /\ UNCHANGED <<runner, fgRunner, rn, port>>
        /\ fgRunner = NoRunner
    BY <1>4 DEF ScreenOff, at, surfaces, Arranged, Surfaces, FgUninstalled
  <2> QED BY <1>a, <2>1, FinishAt
<1>5. CASE KeepBase(t)
  <2>1. /\ pc[t] = "yielded" /\ UNCHANGED <<runner, fgRunner, rn, port>>
        /\ fgRunner = NoRunner
    BY <1>5 DEF KeepBase, at, surfaces, cdp, Arranged, Surfaces, FgUninstalled
  <2>2. \/ pc'[t] = "inPlace" /\ loc' = loc
        \/ pc'[t] = "release" /\ loc'[t].op = loc[t].op
    BY <1>a, <1>5, GotoAt, FinishAt DEF KeepBase
  <2> QED BY <2>1, <2>2
<1>6. CASE InPlaceWeb(t)
  <2>1. /\ pc[t] = "inPlace" /\ UNCHANGED <<runner, fgRunner, vt>>
        /\ port' = cdpPort(loc[t].m) /\ runner = loc[t].base
        /\ fgRunner = NoRunner /\ runner \in Runners
        /\ rn[runner].mode.type = loc[t].m.type
        /\ rn[runner].mode.display = loc[t].m.display
    BY <1>6 DEF InPlaceWeb, at, surfaces, Arranged, Surfaces, InHand,
       FgUninstalled, BaseNoted, started
  <2>2. pc'[t] = "release" /\ loc'[t].op = loc[t].op
    BY <1>a, <1>6, FinishAt DEF InPlaceWeb
  <2>3. /\ \A q \in Runners : rn'[q].hook = rn[q].hook
        /\ rn'[runner].mode \in {rn[runner].mode, loc[t].m}
    <3>1. rn' = rn \/ rn' = [rn EXCEPT ![runner].mode = loc[t].m]
      BY <1>6, <2>1 DEF InPlaceWeb
    <3> QED BY <1>a, <2>1, <3>1 DEF DataOK, RunnerRecord
  <2> QED BY <2>1, <2>2, <2>3 DEF cdpPort, isWayland
<1> QED BY <1>1, <1>2, <1>3, <1>4, <1>5, <1>6 DEF SwitchCompositor

\* Every step of startPrimary and restoreWebKiosk.
LEMMA PrimaryLit ==
  ASSUME TypeInv, NEW t \in Threads, Arranged(t), Lit(t), Primary(t)
  PROVE  Lit(t)'
<1>a. TokenInv /\ DataOK /\ XVT \in Nat /\ WaylandVT \in Nat
  BY VTAssumption DEF TypeInv
<1>b. /\ loc[t].fg \in Runners \cup {NoRunner}
      /\ loc[t].r \in Runners \cup {NoRunner}
      /\ loc[t].base \in Runners \cup {NoRunner}
      /\ runner \in Runners \cup {NoRunner}
      /\ fgRunner \in Runners \cup {NoRunner}
      /\ NoRunner \notin Runners
  BY <1>a, Surfaced
<1>c. ASSUME NEW r \in Runners, rn' = cancelled(r)
      PROVE  \A q \in Runners : rn'[q].mode = rn[q].mode /\ rn'[q].hook = rn[q].hook
  BY <1>a, <1>c DEF DataOK, RunnerRecord, cancelled
<1>n. /\ Aimed(pc[t], loc[t])
      /\ ~ChvtMayFail /\ XVT > 0 /\ WaylandVT > 0 => Shows(pc[t], loc[t])
      /\ XNode /\ ModeVT > 0 => Seen(pc[t], loc[t])
  BY DEF Lit
<1>m. /\ loc[t].m \in AnyMode
      /\ \A m \in AnyMode : primaryVT(m) = IF isWaylandPrimary(m) THEN WaylandVT ELSE XVT
  BY <1>a, LocalTypes DEF primaryVT
<1> DEFINE Clear == ~ChvtMayFail /\ XVT > 0 /\ WaylandVT > 0
<1> SUFFICES /\ Aimed(pc[t], loc[t])'
             /\ Clear => Shows(pc[t], loc[t])'
             /\ XNode => ForegroundLeft(t)
  BY <1>n, ForegroundStaysSeen DEF Lit
<1> USE <1>b, <1>n DEF Aimed, Shows, ForegroundLeft, NewPrimary, NewKiosk
<1>f. ASSUME failPrimary(t)
      PROVE  \/ pc'[t] = "fallback" /\ loc' = loc
             \/ pc'[t] = "release" /\ loc'[t].op = loc[t].op /\ loc[t].op # "fgEnded"
  BY <1>a, <1>f, GotoAt, FinishAt DEF failPrimary
<1>r. ASSUME NEW ok \in BOOLEAN, returnFrom(t, ok)
      PROVE  \/ pc'[t] = "settle" /\ loc' = loc
             \/ pc'[t] = "release" /\ loc'[t].op = loc[t].op
  BY <1>a, <1>r, GotoAt, FinishAt DEF returnFrom
<1>1. CASE PrimaryRefused(t)
  <2>1. pc[t] = "primary" /\ UNCHANGED <<runner, fgRunner, rn, vt, port>>
    BY <1>1 DEF PrimaryRefused, at, surfaces, cdp
  <2> QED BY <1>1, <1>f, <2>1 DEF PrimaryRefused
<1>2. CASE ReplacePrimary(t)
  <2>1. /\ pc[t] = "primary" /\ loc' = loc /\ UNCHANGED <<fgRunner, vt, port>>
        /\ pc'[t] \in {"prevStopping", "surface"} /\ runner' \in {runner, NoRunner}
    BY <1>a, <1>2, GotoAt DEF ReplacePrimary, at, cdp
  <2>2. \A q \in Runners : rn'[q].mode = rn[q].mode /\ rn'[q].hook = rn[q].hook
    BY <1>2, <1>c DEF ReplacePrimary
  <2> QED BY <2>1, <2>2
<1>3. CASE PrevStopped(t)
  <2>1. /\ pc[t] = "prevStopping" /\ loc' = loc /\ pc'[t] = "surface"
        /\ UNCHANGED <<runner, fgRunner, rn, vt, port>>
    BY <1>a, <1>3, GotoAt DEF PrevStopped, at, surfaces, cdp
  <2> QED BY <2>1
<1>4. CASE PrepareSurface(t)
  <2>1. /\ pc[t] = "surface" /\ loc' = loc /\ pc'[t] = "startPrimary"
        /\ UNCHANGED <<runner, fgRunner, rn>> /\ port' = cdpPort(loc[t].m)
        /\ tryVT(primaryVT(loc[t].m)) /\ runner = NoRunner /\ fgRunner = NoRunner
    BY <1>a, <1>4, GotoAt DEF PrepareSurface, at, surfaces, Arranged, Surfaces,
       FgUninstalled, BaseUninstalled
  <2>2. Clear => vt' = primaryVT(loc[t].m)
    BY <1>a, <2>1, Activated DEF primaryVT
  <2> QED BY <2>1, <2>2
<1>5. CASE StartPrimary(t)
  <2>a. /\ pc[t] = "startPrimary" /\ UNCHANGED <<runner, fgRunner, vt, port>>
        /\ runner = NoRunner
    BY <1>5 DEF StartPrimary, at, surfaces, cdp, Arranged, Surfaces,
         BaseUninstalled
  <2>1. CASE goto(t, "startFailed") /\ UNCHANGED <<rn, loc>>
    BY <1>a, <2>a, <2>1, GotoAt
  <2>2. ASSUME NEW r \in Runners,
               rn' = [rn EXCEPT ![r] =
                        newRunner(loc[t].m,
                          IF usesChrome(loc[t].m) THEN "attaching" ELSE "up",
                          IF isWaylandPrimary(loc[t].m) THEN "primary" ELSE "none",
                          IF isWaylandPrimary(loc[t].m)
                          THEN WebKiosk(urlOf(loc[t].m)) ELSE ZeroMode)],
               loc' = [loc EXCEPT ![t].r = r],
               goto(t, IF usesChrome(loc[t].m) THEN "attachPrimary"
                       ELSE "installPrimary")
        PROVE  /\ Aimed(pc[t], loc[t])'
               /\ Clear => Shows(pc[t], loc[t])'
               /\ XNode => ForegroundLeft(t)
    <3>1. /\ pc'[t] \in {"attachPrimary", "installPrimary"} /\ loc'[t].m = loc[t].m
      BY <1>a, <2>2, GotoAt, LocalKeeps
    <3>2. /\ rn'[r].hook = IF isWaylandPrimary(loc[t].m) THEN "primary" ELSE "none"
          /\ \A q \in Runners \ {r} : rn'[q] = rn[q]
      BY <1>a, <2>2 DEF DataOK, newRunner
    <3>3. XNode => rn'[r].hook = "none"
      BY <1>m, <3>2, XModes
    <3> QED BY <2>a, <3>1, <3>2, <3>3
  <2> QED BY <1>5, <2>1, <2>2 DEF StartPrimary
<1>6. CASE \/ Attach(t, "attachPrimary", "installPrimary")
           \/ Attach(t, "attachKiosk", "installKiosk")
  <2>1. /\ loc' = loc /\ UNCHANGED <<runner, fgRunner, vt, port>> /\ runner = NoRunner
        /\ \/ pc[t] = "attachPrimary" /\ pc'[t] = "installPrimary"
           \/ pc[t] = "attachKiosk" /\ pc'[t] = "installKiosk"
    BY <1>a, <1>6, GotoAt DEF Attach, at, surfaces, Arranged, Surfaces,
         BaseUninstalled
  <2>2. \A q \in Runners : rn'[q].hook = rn[q].hook
    <3>1. rn' = [rn EXCEPT ![loc[t].r].st = "running", ![loc[t].r].pt = "up"]
      BY <1>6 DEF Attach
    <3> QED BY <1>a, <3>1 DEF DataOK, RunnerRecord
  <2> QED BY <2>1, <2>2
<1>7. CASE InstallPrimary(t)
  <2>1. /\ pc[t] = "installPrimary" /\ UNCHANGED <<fgRunner, rn, vt, port>>
        /\ runner' = loc[t].r /\ rn[loc[t].r].mode = loc[t].m
        /\ returnFrom(t, TRUE)
    BY <1>7 DEF InstallPrimary, at, cdp, Arranged, InHand
  <2> QED BY <1>r, <2>1
<1>8. CASE StartFailed(t)
  <2>1. /\ pc[t] = "startFailed" /\ UNCHANGED <<runner, fgRunner, rn>> /\ port' = "x"
        /\ runner = NoRunner /\ fgRunner = NoRunner /\ tryVT(XVT)
    BY <1>8 DEF StartFailed, at, surfaces, Arranged, Surfaces, FgUninstalled,
       BaseUninstalled
  <2>2. Clear => vt' = XVT
    BY <1>a, <2>1, Activated
  <2>3. \/ pc'[t] = "kiosk" /\ loc' = loc
        \/ failPrimary(t)
    BY <1>a, <1>8, GotoAt DEF StartFailed
  <2> QED BY <1>f, <2>1, <2>2, <2>3
<1>9. CASE Fallback(t)
  <2>1. /\ pc[t] = "fallback" /\ UNCHANGED <<runner, fgRunner, rn>> /\ port' = "x"
        /\ runner = NoRunner /\ fgRunner = NoRunner /\ tryVT(XVT)
        /\ pc'[t] = "kiosk"
    BY <1>a, <1>9, GotoAt DEF Fallback, at, surfaces, Arranged, Surfaces,
       FgUninstalled, BaseUninstalled
  <2>2. Clear => vt' = XVT
    BY <1>a, <2>1, Activated
  <2> QED BY <2>1, <2>2
<1>10. CASE StartKiosk(t)
  <2>a. /\ pc[t] = "kiosk" /\ UNCHANGED <<runner, fgRunner, vt, port>>
        /\ runner = NoRunner
    BY <1>10 DEF StartKiosk, at, surfaces, cdp, Arranged, Surfaces,
         BaseUninstalled
  <2>1. CASE returnFrom(t, FALSE) /\ UNCHANGED rn
    BY <1>r, <2>a, <2>1
  <2>2. ASSUME NEW r \in Runners,
               rn' = [rn EXCEPT ![r] = newRunner(WebKiosk(urlOf(loc[t].m)),
                                                 "attaching", "none", ZeroMode)],
               loc' = [loc EXCEPT ![t].r = r], goto(t, "attachKiosk")
        PROVE  /\ Aimed(pc[t], loc[t])'
               /\ Clear => Shows(pc[t], loc[t])'
               /\ XNode => ForegroundLeft(t)
    <3>1. pc'[t] = "attachKiosk"
      BY <1>a, <2>2, GotoAt
    <3>2. rn'[r].hook = "none" /\ \A q \in Runners \ {r} : rn'[q] = rn[q]
      BY <1>a, <2>2 DEF DataOK, newRunner
    <3> QED BY <2>a, <3>1, <3>2
  <2> QED BY <1>10, <2>1, <2>2 DEF StartKiosk
<1>11. CASE InstallKiosk(t)
  <2>1. /\ pc[t] = "installKiosk" /\ UNCHANGED <<fgRunner, rn, vt, port>>
        /\ runner' = loc[t].r /\ rn[loc[t].r].mode = WebKiosk(urlOf(loc[t].m))
        /\ returnFrom(t, FALSE)
    BY <1>11 DEF InstallKiosk, at, cdp, Arranged, InHand, NewKiosk
  <2>2. /\ cdpPort(rn[loc[t].r].mode) = "x"
        /\ primaryVT(rn[loc[t].r].mode) = XVT
    BY <2>1 DEF cdpPort, primaryVT, isWayland, isWaylandPrimary, WebKiosk
  <2> QED BY <1>r, <2>1, <2>2
<1> QED
  BY <1>1, <1>2, <1>3, <1>4, <1>5, <1>6, <1>7, <1>8, <1>9, <1>10, <1>11
     DEF Primary

\* Every step of the holder of the token.
LEMMA HolderLit ==
  ASSUME TypeInv, NEW t \in Threads, Arranged(t), Lit(t), holds(t), Step(t)
  PROVE  Lit(t)'
<1>a. TokenInv /\ DataOK /\ XVT \in Nat /\ WaylandVT \in Nat
  BY VTAssumption DEF TypeInv
<1>b. /\ loc[t].fg \in Runners \cup {NoRunner}
      /\ loc[t].r \in Runners \cup {NoRunner}
      /\ loc[t].base \in Runners \cup {NoRunner}
      /\ runner \in Runners \cup {NoRunner}
      /\ fgRunner \in Runners \cup {NoRunner}
      /\ NoRunner \notin Runners
  BY <1>a, Surfaced
<1>n. /\ Aimed(pc[t], loc[t])
      /\ ~ChvtMayFail /\ XVT > 0 /\ WaylandVT > 0 => Shows(pc[t], loc[t])
      /\ XNode /\ ModeVT > 0 => Seen(pc[t], loc[t])
  BY DEF Lit
<1>1. CASE SwitchForeground(t) \/ SwitchCompositor(t) \/ Primary(t)
  BY <1>1, ForegroundLit, CompositorLit, PrimaryLit
<1> DEFINE Clear == ~ChvtMayFail /\ XVT > 0 /\ WaylandVT > 0
<1>s. ASSUME /\ Aimed(pc[t], loc[t])'
             /\ Clear => Shows(pc[t], loc[t])'
             /\ XNode /\ ModeVT > 0 => ForegroundLeft(t)
      PROVE  Lit(t)'
  BY <1>n, <1>s, ForegroundStaysSeen DEF Lit
<1> USE <1>b, <1>n DEF Aimed, Shows, ForegroundLeft, NewPrimary, NewKiosk
<1>2. CASE Reattach(t)
  <2>1. /\ pc[t] = "reattach" /\ UNCHANGED <<runner, fgRunner, rn, vt>>
        /\ port' = cdpPort(loc[t].m) /\ finish(t, attached') /\ attached' \in BOOLEAN
        /\ loc[t].op = "other"
    BY <1>2 DEF Reattach, at, surfaces, Arranged, Wanted
  <2>2. pc'[t] = "release" /\ loc'[t].op = loc[t].op
    BY <1>a, <2>1, FinishAt
  <2> QED BY <1>s, <2>1, <2>2
<1>3. CASE Navigate(t)
  <2>1. /\ pc[t] = "navigate" /\ UNCHANGED <<runner, fgRunner, vt, port>>
        /\ \E ok \in BOOLEAN : finish(t, ok)
        /\ loc[t].op = "other" /\ runner = loc[t].base /\ runner \in Runners
    BY <1>3 DEF Navigate, at, surfaces, cdp, Arranged, Wanted, Surfaces, InHand,
       BaseNoted
  <2>2. pc'[t] = "release" /\ loc'[t].op = loc[t].op
    BY <1>a, <2>1, FinishAt
  <2>3. /\ \A q \in Runners : rn'[q].hook = rn[q].hook
        /\ rn'[runner].mode.type = rn[runner].mode.type
        /\ rn'[runner].mode.display = rn[runner].mode.display
    <3>1. \/ rn' = rn
          \/ rn' = [rn EXCEPT ![runner].mode = setURL(@, loc[t].m.param)]
      BY <1>3, <2>1 DEF Navigate
    <3>2. rn[runner].mode \in AnyMode
      BY <1>a, <2>1 DEF DataOK, RunnerRecord
    <3>3. /\ setURL(rn[runner].mode, loc[t].m.param).type = rn[runner].mode.type
          /\ setURL(rn[runner].mode, loc[t].m.param).display = rn[runner].mode.display
      BY <3>2, ModeIsRecord DEF setURL
    <3>4. \/ rn' = rn
          \/ /\ rn'[runner].mode = setURL(rn[runner].mode, loc[t].m.param)
             /\ \A q \in Runners : rn'[q].hook = rn[q].hook
      BY <1>a, <2>1, <3>1 DEF DataOK, RunnerRecord
    <3> QED BY <3>3, <3>4
  <2> QED BY <1>s, <2>1, <2>2, <2>3 DEF usesChrome, cdpPort, isWayland
<1>4. CASE ScrollPage(t)
  <2>1. /\ pc[t] = "scroll" /\ UNCHANGED <<runner, fgRunner, rn, vt, port>>
        /\ finish(t, TRUE) /\ loc[t].op = "other"
    BY <1>4 DEF ScrollPage, at, surfaces, cdp, Arranged, Wanted
  <2>2. pc'[t] = "release" /\ loc'[t].op = loc[t].op
    BY <1>a, <2>1, FinishAt
  <2> QED BY <1>s, <2>1, <2>2
<1>5. CASE Release(t)
  <2>1. /\ pc[t] = "release" /\ UNCHANGED <<runner, fgRunner, vt, port>>
        /\ pc'[t] \in {"status", "idle"}
    BY <1>a, <1>5, GotoAt DEF Release, at, surfaces, cdp
  <2>2. \A q \in Runners : rn'[q].mode = rn[q].mode /\ rn'[q].hook = rn[q].hook
    <3>1. rn' = rn \/ rn' = [rn EXCEPT ![t].pt = "ended"]
      BY <1>5 DEF Release
    <3> QED BY <1>a, <3>1 DEF DataOK, RunnerRecord
  <2> QED BY <1>s, <2>1, <2>2
<1>6. CASE ReadStatus(t, "status", "record") \/ ForegroundDown(t) \/ BaseDown(t)
  BY <1>6 DEF ReadStatus, ForegroundDown, BaseDown, holds, at, TokenPoints
<1>7. CASE ReadStatus(t, "settle", "settleRecord")
  <2>1. /\ pc[t] = "settle" /\ UNCHANGED <<runner, fgRunner, rn, vt, port>>
        /\ loc' = [loc EXCEPT ![t].m = Status] /\ pc'[t] = "settleRecord"
    BY <1>a, <1>7, GotoAt DEF ReadStatus, at, surfaces, cdp
  <2>2. loc'[t].op = loc[t].op
    BY <1>a, <2>1, LocalKeeps
  <2> QED BY <1>s, <2>1, <2>2
<1>8. CASE RecordMode(t)
  <2>1. pc[t] = "settleRecord"
    BY <1>8 DEF RecordMode, at, holds, TokenPoints
  <2>2. /\ UNCHANGED <<runner, fgRunner, rn, vt, port>> /\ loc' = loc
        /\ pc'[t] = "release"
    BY <1>a, <1>8, <2>1, GotoAt DEF RecordMode, surfaces, cdp
  <2> QED BY <1>s, <2>1, <2>2
<1>9. CASE ReturnToBase(t)
  <2>1. /\ pc[t] = "returnVT" /\ UNCHANGED <<runner, fgRunner, rn, port>> /\ loc' = loc
        /\ pc'[t] = "settle" /\ tryVT(baseVT) /\ fgRunner = NoRunner
    BY <1>a, <1>9, GotoAt DEF ReturnToBase, at, surfaces, cdp, Arranged,
       Surfaces, FgUninstalled
  <2>2. Clear => vt' = baseVT
    BY <1>a, <2>1, Activated DEF baseVT, primaryVT
  <2> QED BY <1>s, <2>1, <2>2 DEF baseVT
<1>10. CASE IdleScreen(t)
  <2>1. /\ pc[t] = "idleScreen" /\ UNCHANGED <<runner, fgRunner, rn, port>>
        /\ loc' = loc /\ pc'[t] = "settle" /\ fgRunner = NoRunner /\ runner = NoRunner
    BY <1>a, <1>10, GotoAt DEF IdleScreen, at, surfaces, Arranged, Surfaces,
       FgUninstalled, BaseUninstalled
  <2> QED BY <1>s, <2>1
<1>11. CASE ToX(t)
  <2>1. /\ pc[t] = "toX" /\ UNCHANGED <<runner, fgRunner, rn>> /\ port' = "x"
        /\ pc'[t] = "kiosk" /\ tryVT(XVT) /\ runner = NoRunner
    BY <1>a, <1>11, GotoAt DEF ToX, at, surfaces, Arranged, Surfaces,
       BaseUninstalled
  <2>2. Clear => vt' = XVT
    BY <1>a, <2>1, Activated
  <2>3. ~(XNode /\ ModeVT > 0)
    BY <2>1 DEF Seen
  <2> QED BY <1>s, <2>1, <2>2, <2>3
<1> QED
  BY <1>1, <1>2, <1>3, <1>4, <1>5, <1>6, <1>7, <1>8, <1>9, <1>10, <1>11 DEF Step

\* A request finds the notes of a free token and begins with them.
LEMMA RequestLit ==
  ASSUME TypeInv, NEW t \in Threads, Lit(t), Request(t)
  PROVE  Lit(t)'
<1>a. TokenInv /\ DataOK
  BY DEF TypeInv
<1>1. /\ pc[t] = "idle" /\ UNCHANGED <<runner, fgRunner, rn, vt, port>>
      /\ \/ /\ pc'[t] \in {"compositor", "foreground", "primary", "navigate", "scroll"}
         \/ /\ pc'[t] = "release" /\ loc'[t].op # "fgEnded"
         \/ /\ pc'[t] = "reattach" /\ runner # NoRunner
            /\ loc'[t].m = rn[runner].mode
  <2>a. ASSUME NEW point, NEW locals, claim(t, point, locals)
        PROVE  pc[t] = "idle" /\ pc'[t] = point /\ loc'[t] = locals
    BY <1>a, <2>a, ClaimAt
  <2>1. CASE \E m \in ModeSet : Switch(t, m)
    <3>1. PICK m \in ModeSet : Switch(t, m)
      BY <2>1
    <3>2. PICK point \in {"compositor", "release", "foreground"}, ok \in BOOLEAN :
            claim(t, point, [op |-> "switch", m |-> m, base |-> runner,
                             fg |-> fgRunner, r |-> NoRunner, ok |-> ok])
      BY <3>1 DEF Switch
    <3> QED BY <2>a, <3>1, <3>2 DEF Switch, surfaces, cdp
  <2>2. CASE RestartMode(t)
    <3>1. PICK point \in {"foreground", "primary", "release"},
               m \in {Status, ZeroMode} :
            claim(t, point, [op |-> "restart", m |-> m, base |-> runner,
                             fg |-> fgRunner, r |-> NoRunner, ok |-> TRUE])
      BY <2>2 DEF RestartMode
    <3> QED BY <2>2, <2>a, <3>1 DEF RestartMode, surfaces, cdp
  <2>3. CASE ReattachWeb(t)
    <3>1. claim(t, "reattach", onBase(rn[runner].mode)) /\ runner # NoRunner
      BY <2>3 DEF ReattachWeb, webOnScreen
    <3>2. onBase(rn[runner].mode).m = rn[runner].mode
      BY DEF onBase, NoLocals
    <3> QED BY <2>3, <2>a, <3>1, <3>2 DEF ReattachWeb, surfaces, cdp
  <2>4. CASE AdvanceDocument(t)
    BY <2>4, <2>a DEF AdvanceDocument, surfaces, cdp
  <2>5. CASE \E url \in Urls : NavigateIfWeb(t, url)
    BY <2>5, <2>a DEF NavigateIfWeb, surfaces, cdp
  <2> QED BY <2>1, <2>2, <2>3, <2>4, <2>5 DEF Request
<1> QED BY <1>1 DEF Lit, Aimed, Shows, Seen, NewPrimary, NewKiosk

\* So does a recovery.
LEMMA RecoveryLit ==
  ASSUME TypeInv, NEW t \in Runners, Arranged(t), Lit(t),
         RecoverForeground(t) \/ RecoverPrimary(t)
  PROVE  Lit(t)'
<1>a. TokenInv /\ DataOK /\ t \in Threads
  BY DEF TypeInv, Threads
<1>b. /\ runner \in Runners \cup {NoRunner}
      /\ fgRunner \in Runners \cup {NoRunner}
      /\ NoRunner \notin Runners
  BY <1>a, Surfaced
<1>1. \A q \in Runners : rn'[q].mode = rn[q].mode /\ rn'[q].hook = rn[q].hook
  <2>1. rn' = [rn EXCEPT ![t].pt = "recovering"]
    BY DEF RecoverForeground, RecoverPrimary
  <2> QED BY <1>a, <2>1 DEF DataOK, RunnerRecord
<1>2. CASE RecoverForeground(t)
  <2>1. /\ pc[t] = "idle" /\ pc'[t] \in {"returnVT", "idleScreen", "primary"}
    BY <1>2, <1>a, ClaimAt DEF RecoverForeground
  <2>2. fgRunner' = NoRunner /\ UNCHANGED <<runner, vt, port>>
    BY <1>2 DEF RecoverForeground, cdp
  <2> QED BY <1>b, <1>1, <2>1, <2>2 DEF Lit, Aimed, Shows, Seen, NewPrimary,
       NewKiosk
<1>3. CASE RecoverPrimary(t)
  <2>1. pc[t] = "idle" /\ pc'[t] = "toX"
    BY <1>3, <1>a, ClaimAt DEF RecoverPrimary
  <2>2. /\ runner' = NoRunner /\ UNCHANGED <<fgRunner, vt, port>>
        /\ rn[t].hook = "primary"
    BY <1>3 DEF RecoverPrimary, cdp
  <2> QED BY <1>b, <1>1, <2>1, <2>2 DEF Lit, Aimed, Shows, Seen, NewPrimary,
       NewKiosk
<1> QED BY <1>2, <1>3

\* Whatever the loop of a runner asserts is what is wanted of the screen.
LEMMA LoopLit ==
  ASSUME TypeInv, NEW t \in Threads, Arranged(t), Lit(t),
         NEW r \in Runners, LoopStep(r)
  PROVE  Lit(t)'
<1>a. TokenInv /\ DataOK /\ WaylandVT \in Nat
  BY VTAssumption DEF TypeInv
<1>b. /\ loc[t].r \in Runners \cup {NoRunner}
      /\ runner \in Runners \cup {NoRunner}
      /\ fgRunner \in Runners \cup {NoRunner}
      /\ NoRunner \notin Runners
  BY <1>a, Surfaced
<1>1. /\ UNCHANGED <<runner, fgRunner, pc, loc>>
      /\ \A q \in Runners : rn'[q].mode = rn[q].mode
  BY <1>a, LoopKeeps
<1>2. \A q \in Runners : rn'[q].hook = rn[q].hook
  <2>1. \E st, point : \/ rn' = [rn EXCEPT ![r].pt = point]
                       \/ rn' = [rn EXCEPT ![r].st = st, ![r].pt = point]
                       \/ rn' = [rn EXCEPT ![r].pt = point, ![r].st = st]
    BY DEF LoopStep, RecoveryBails, BackoffOver, Respawn, RespawnAttach,
       ChildExits, terminal
  <2> QED BY <1>a, <2>1 DEF DataOK, RunnerRecord
<1>3. CASE UNCHANGED <<vt, port>>
  BY <1>b, <1>1, <1>2, <1>3 DEF Lit, Aimed, Shows, Seen
<1>4. CASE /\ rn[r].pt = "backoff" /\ ~rn[r].cancel /\ isWaylandPrimary(rn[r].mode)
           /\ tryVT(WaylandVT) /\ port' = cdpPort(rn[r].mode)
  <2>1. /\ WaylandVT > 0 /\ ~ChvtMayFail => vt' = WaylandVT
        /\ primaryVT(rn[r].mode) = WaylandVT
    BY <1>a, <1>4, Activated DEF primaryVT
  <2>2. ~XNode
    BY <1>a, <1>4, XModes DEF DataOK, RunnerRecord
  <2>3. \/ r = runner
        \/ pc[t] \in NewPrimary \cup NewKiosk /\ r = loc[t].r
    BY <1>4 DEF Arranged, Homed, InHand, restless, foreground, isWaylandPrimary,
       OldBase
  <2>4. CASE r = runner
    <3>1. pc[t] \notin {"startPrimary", "kiosk"} \cup NewPrimary \cup NewKiosk
      BY <1>b, <2>4 DEF Arranged, Surfaces, BaseUninstalled, NewPrimary,
           NewKiosk
    <3> QED BY <1>b, <1>1, <1>4, <2>1, <2>2, <2>4, <3>1 DEF Lit, Aimed, Shows
  <2>5. CASE pc[t] \in NewPrimary \cup NewKiosk /\ r = loc[t].r
    <3>1. runner = NoRunner /\ pc[t] = "installPrimary" /\ rn[r].mode = loc[t].m
      BY <1>b, <1>4, <2>5 DEF Arranged, Surfaces, InHand, BaseUninstalled,
         NewPrimary, NewKiosk, WebKiosk, isWaylandPrimary
    <3> QED BY <1>1, <1>4, <2>1, <2>2, <2>5, <3>1
          DEF Lit, Aimed, Shows, NewPrimary, NewKiosk
  <2> QED BY <2>3, <2>4, <2>5
<1> QED
  BY <1>3, <1>4 DEF LoopStep, RecoveryBails, BackoffOver, Respawn,
     RespawnAttach, ChildExits, cdp, loopAt

-----------------------------------------------------------------------------
\* Until Shutdown, whoever may touch the screen finds the notes true.
LitInv ==
    operating => \A t \in Threads : holds(t) \/ ~switching => Lit(t)

ShownInv == SafetyInv /\ LitInv

\* A step of a goroutine that may touch the screen.
LEMMA MoverLit ==
  ASSUME TokenInv, TokenInv', NEW t \in Threads, NEW point, goto(t, point),
         holds(t) \/ ~switching, holds(t)' \/ ~switching', Lit(t)'
  PROVE  LitInv'
<1> SUFFICES ASSUME NEW u \in Threads, holds(u)' \/ ~switching'
             PROVE  Lit(u)'
  BY DEF LitInv
<1>1. CASE switching'
  BY <1>1 DEF TokenInv, TokenHeld
<1>2. CASE ~switching'
  <2>1. pc'[t] \notin TokenPoints /\ pc'[u] \notin TokenPoints
    BY <1>2 DEF TokenInv, TokenHeld, holds
  <2> QED
    BY <2>1 DEF Lit, Aimed, Shows, Seen, NewPrimary, NewKiosk, TokenPoints
<1> QED BY <1>1, <1>2 DEF TokenInv

\* Initially there is no base to aim at and none to show.
LEMMA InitShownInv == Init => ShownInv
<1> SUFFICES ASSUME Init PROVE ShownInv
  OBVIOUS
<1>1. ASSUME NEW t \in Threads PROVE Lit(t)
  <2>1. /\ pc[t] = "idle" /\ runner = NoRunner /\ fgRunner = NoRunner
        /\ \A q \in Runners : rn[q].hook = "none"
    BY DEF Init, FreeRunner
  <2> QED BY <2>1 DEF Lit, Aimed, Shows, Seen, NewPrimary, NewKiosk
<1> QED BY <1>1, InitSafetyInv DEF ShownInv, LitInv

\* Every step keeps the invariant.
LEMMA NextShownInv == ShownInv /\ [Next]_vars => ShownInv'
<1> SUFFICES ASSUME ShownInv, [Next]_vars PROVE ShownInv'
  OBVIOUS
<1>1. /\ SafetyInv /\ SafetyInv' /\ TypeInv /\ TokenInv /\ DataOK /\ TokenInv'
  BY NextSafetyInv DEF ShownInv, SafetyInv, TypeInv
<1>2. ASSUME operating' PROVE LitInv'
  <2>a. /\ operating
        /\ \A t \in Threads : holds(t) \/ ~switching => Lit(t) /\ Arranged(t)
    BY <1>1, <1>2, NextMainsApart DEF ShownInv, LitInv, SafetyInv, ScreenInv
  <2>1. CASE \E t \in Callers : Request(t)
    <3>1. PICK t \in Callers : Request(t)
      BY <2>1
    <3>2. ~switching /\ t \in Threads
      BY <3>1 DEF Request, Switch, RestartMode, ReattachWeb, NavigateIfWeb,
         AdvanceDocument, claim, Threads
    <3>3. holds(t)' /\ \E point : goto(t, point)
      BY <1>1, <2>a, <3>1, <3>2, RequestArranged
    <3>4. Lit(t)'
      BY <1>1, <2>a, <3>1, <3>2, RequestLit
    <3> QED BY <1>1, <3>2, <3>3, <3>4, MoverLit
  <2>2. ASSUME NEW t \in Threads \ Mains, Step(t) PROVE LitInv'
    <3>1. (\E point : goto(t, point)) /\ pc[t] \notin DownPoints
      BY <1>1, <2>2, StepNavigates DEF SafetyInv, MainsApart
    <3>2. CASE holds(t)
      <4>1. Lit(t)'
        BY <1>1, <2>2, <2>a, <3>2, HolderLit
      <4>2. holds(t)' \/ ~switching'
        BY <1>1, <2>2, <3>1, <3>2, StepStays DEF Release
      <4> QED BY <1>1, <3>1, <3>2, <4>1, <4>2, MoverLit
    <3>3. CASE ~holds(t)
      <4>1. /\ UNCHANGED <<runner, fgRunner, rn, switching, vt, port>>
            /\ pc'[t] \in {"record", "idle"}
            /\ \A u \in Threads \ {t} : pc'[u] = pc[u] /\ loc'[u] = loc[u]
        BY <1>1, <2>2, <3>1, <3>3, StepStays
      <4>2. ~holds(t)'
        BY <4>1 DEF holds, TokenPoints
      <4>3. ASSUME NEW u \in Threads \ {t}, Lit(u) PROVE Lit(u)'
        BY <4>1, <4>3 DEF Lit, Aimed, Shows, Seen
      <4>4. Lit(t) => Lit(t)'
        BY <3>3, <4>1 DEF Lit, Aimed, Shows, Seen, NewPrimary, NewKiosk, holds,
           TokenPoints
      <4> QED BY <2>a, <3>3, <4>1, <4>2, <4>3, <4>4 DEF LitInv, holds
    <3> QED BY <3>2, <3>3
  <2>3. ASSUME NEW r \in Runners, RunnerStep(r) \/ ChildExits(r)
        PROVE  LitInv'
    <3>1. CASE RecoverForeground(r) \/ RecoverPrimary(r)
      <4>1. ~switching /\ r \in Threads
        BY <3>1 DEF RecoverForeground, RecoverPrimary, claim, Threads
      <4>2. holds(r)' /\ \E point : goto(r, point)
        BY <1>1, <2>a, <3>1, <4>1, RecoveryArranged
      <4>3. Lit(r)'
        BY <1>1, <2>a, <3>1, <4>1, RecoveryLit
      <4> QED BY <1>1, <4>1, <4>2, <4>3, MoverLit
    <3>2. CASE LoopStep(r)
      <4>1. ASSUME NEW u \in Threads, Arranged(u), Lit(u) PROVE Lit(u)'
        BY <1>1, <3>2, <4>1, LoopLit
      <4>2. UNCHANGED <<pc, switching>>
        BY <1>1, <3>2, LoopKeeps
      <4> QED BY <2>a, <4>1, <4>2 DEF LitInv, holds
    <3> QED BY <2>3, <3>1, <3>2 DEF RunnerStep, LoopStep
  <2>4. CASE UNCHANGED vars
    <3>1. ASSUME NEW u \in Threads, Lit(u) PROVE Lit(u)'
      BY <2>4, <3>1 DEF vars, surfaces, cdp, Lit, Aimed, Shows, Seen
    <3> QED BY <2>a, <2>4, <3>1 DEF vars, LitInv, holds
  <2> QED BY <1>1, <1>2, <2>1, <2>2, <2>3, <2>4, NextMainsApart
<1> QED BY <1>1, <1>2 DEF ShownInv, LitInv

-----------------------------------------------------------------------------
\* The invariant in every reachable state.
LEMMA ShownAlways == Spec => []ShownInv
  BY InitShownInv, NextShownInv, PTL DEF Spec

\* Between switches the controller is aimed at the browser of the base,
\* whatever crashes, restarts, fallbacks and takeovers led there: a re-attach
\* never drives the browser of the other backend.
THEOREM PortFollowsBase == Spec => []PortMatchesBase
<1>1. ShownInv => PortMatchesBase
  <2> SUFFICES ASSUME ShownInv, operating, ~switching, runner # NoRunner,
                      usesChrome(rn[runner].mode)
               PROVE  port = cdpPort(rn[runner].mode)
    BY DEF PortMatchesBase
  <2>1. runner \in Threads
    BY DEF ShownInv, SafetyInv, TypeInv, DataOK, Threads
  <2>2. Lit(runner)
    BY <2>1 DEF ShownInv, LitInv
  <2> QED BY <2>2 DEF Lit, Aimed
<1> QED BY <1>1, ShownAlways, PTL

\* When a foreground mode has ended on its own and its recovery is over, nothing
\* covers the base and, where chvt works, its VT is the active one.  A VT number
\* of 0 means that the node does not switch.
THEOREM RecoveryShown ==
  ASSUME XVT > 0, WaylandVT > 0
  PROVE  Spec => []RecoveryShowsBase
<1>1. ShownInv => RecoveryShowsBase
  <2> SUFFICES ASSUME ShownInv, NEW r \in Runners, operating,
                      pc[r] = "release", loc[r].op = "fgEnded"
               PROVE  /\ fgRunner = NoRunner
                      /\ runner # NoRunner /\ ~ChvtMayFail
                           => vt = primaryVT(rn[runner].mode)
    BY DEF RecoveryShowsBase
  <2>1. r \in Threads /\ holds(r)
    BY DEF Threads, holds, TokenPoints
  <2>2. Arranged(r) /\ Lit(r)
    BY <2>1 DEF ShownInv, LitInv, SafetyInv, ScreenInv
  <2> QED BY <2>2 DEF Arranged, Surfaces, Lit, Shows, TokenPoints
<1> QED BY <1>1, ShownAlways, PTL

\* Between switches an installed foreground mode is the one on screen, however
\* often chvt fails, on a node without Wayland modes.
THEOREM ForegroundShown ==
  ASSUME XNode, ModeVT > 0
  PROVE  Spec => []ForegroundVisible
<1>1. ShownInv => ForegroundVisible
  <2> SUFFICES ASSUME ShownInv, operating, ~switching, fgRunner # NoRunner
               PROVE  vt = ModeVT
    BY DEF ForegroundVisible
  <2>1. fgRunner \in Threads /\ pc[fgRunner] # "showFg"
    BY DEF ShownInv, SafetyInv, TypeInv, TokenInv, TokenHeld, DataOK, Threads,
       holds, TokenPoints
  <2>2. Lit(fgRunner)
    BY <2>1 DEF ShownInv, LitInv
  <2> QED BY <2>1, <2>2 DEF Lit, Seen
<1> QED BY <1>1, ShownAlways, PTL
=============================================================================
