---------------------------- MODULE MCSupervisor ----------------------------
(***************************************************************************)
(* Small nodes for Supervisor: one with both compositors, an X node that   *)
(* is shut down while it works, and the least that shows each divergence.  *)
(***************************************************************************)
EXTENDS Supervisor, TLC

CONSTANTS c1, main, r1, r2, r3

OneCaller == {c1}
JustMain == {main}
Nobody == {}
TwoRunners == {r1, r2}
ThreeRunners == {r1, r2, r3}

Kiosk   == WebKiosk("url")
Xapp    == [type |-> "app", display |-> "compositor", param |-> "bad"]
Labwc   == [type |-> "web", display |-> "wayland", param |-> "url"]
Htop    == [type |-> "app", display |-> "console", param |-> "htop"]
Film    == [type |-> "media", display |-> "kms", param |-> "film"]
Cog     == [type |-> "web", display |-> "kms", param |-> "url"]

DualModes == {Kiosk, Labwc, Htop, Film, OffMode}
OverlayModes == {Kiosk, Htop}
AppModes == {Kiosk, Xapp, Htop}
TakeoverModes == {Kiosk, Film, Htop}
WaylandModes == {Labwc, Htop}
CogModes == {Kiosk, Htop, Cog}

NoUrls == {}
SameUrl == {"url"}

Symmetry == Permutations(ThreeRunners)

\* What no action and no property of these runs looks at is left out of the
\* view: a runner that is garbage, the closure of one whose goroutine is over,
\* and the mode that was recorded before (properties look at active' only).
forgotten(r) ==
    IF garbage(r) THEN FreeRunner
    ELSE IF rn[r].pt = "ended"
    THEN [rn[r] EXCEPT !.cancel = TRUE, !.hook = "none", !.back = ZeroMode]
    ELSE rn[r]

View == <<surfaces, switching, [r \in Runners |-> forgotten(r)], vt, cdp,
          pc, loc>>
=============================================================================
