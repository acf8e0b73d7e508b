-------------------------------- MODULE Chrome --------------------------------
(***************************************************************************)
(* The CDP controller (agent/chrome.go, type Chrome): one connection to    *)
(* the page of the Chromium that the supervisor runs.                      *)
(*                                                                         *)
(* Three threads call it.  The switcher holds the switch token: it starts  *)
(* a kiosk and attaches, attaches or navigates in place, re-attaches.  The *)
(* loop of the mode runner detaches when Chromium exits and attaches to    *)
(* the next one, with no token.  A setter is an HTTP request: zoom, theme, *)
(* message, screenshot.  A call snapshots the fields under c.mu, runs      *)
(* commands on the browser with c.mu free and records what it did, so the  *)
(* three interleave, and the browser dies at any time.                     *)
(*                                                                         *)
(* The look of the page is its zoom and its colour scheme.  Messages,      *)
(* scrolling and screenshots leave it alone: they are one call, eval.  The *)
(* field c.dark is written and never read, and left out.                   *)
(***************************************************************************)
EXTENDS Naturals

CONSTANTS
    Conns,         \* connections, reused when they are closed
    None,
    Zooms,         \* page zoom factors; 1 is 100%
    Schemes,       \* colour schemes: dark is TRUE
    MaxBrowsers,   \* Chromiums launched in a behaviour
    MaxCalls,      \* calls of the setter
    MaxSwitches    \* calls of the switcher

VARIABLES
    ctx,       \* the connection the controller holds, or None: not attached
    zoom,      \* the zoom it re-applies
    port,      \* the port it attaches to
    link,      \* the Chromium at the end of each connection; 0 when closed
    driven,    \* connections whose page was navigated, or re-bound as it was
    browser,   \* what runs, on which port, and the look of its page
    launched,  \* Chromiums so far
    base,      \* the runner of the kiosk: its port, its colours, not given up
    pc, loc,   \* each thread: where it is, and the locals of its call
    calls,     \* those of the setter, and of the switcher
    alone,     \* history: each thread, no other call overlapped its call
    raced,     \* history: the last change of the look overlapped or failed
    crowded    \* history: two threads were connecting at once

fields == <<ctx, zoom, port>>
closes == <<ctx, link, driven>>
kiosk  == <<browser, launched, base>>
hist   == <<calls, alone, raced, crowded>>
vars   == <<fields, link, driven, kiosk, pc, loc, hist>>

Threads   == {"switcher", "loop", "setter"}
Requests  == {"zoom", "theme", "eval"}
Ports     == {"x", "wayland"}
NoBrowser == [id |-> 0, port |-> "x", zoom |-> 1, dark |-> FALSE]
NoBase    == [id |-> 0, port |-> "x", dark |-> FALSE, alive |-> FALSE]
NoCall    == [op |-> "none", what |-> "none", base |-> 0, port |-> "x",
              dark |-> FALSE, zoom |-> 1, ctx |-> None, found |-> 0]

attached      == ctx # None
busy(t)       == pc[t] \notin {"idle", "dead"}
others(t)     == {o \in Threads \ {t} : busy(o)}
connecting(t) == pc[t] \in {"wait", "run", "publish"}
goto(t, p)    == pc' = [pc EXCEPT ![t] = p]

\* A call begins: it is not alone with the calls that are under way.
begin(t, p, call) ==
    /\ ~busy(t) /\ goto(t, p)
    /\ loc' = [loc EXCEPT ![t] = call]
    /\ alone' = [o \in Threads |-> IF o = t THEN others(t) = {}
                                   ELSE alone[o] /\ ~busy(o)]

\* The calls of a thread are bounded.
counted(t, max) == calls[t] < max /\ calls' = [calls EXCEPT ![t] = @ + 1]

\* A call returns.  A start installs its runner however the attach went; the
\* colours are recorded by a theme, and by an in-place switch unless its
\* navigation failed.
return(t, ok) ==
    /\ goto(t, "idle") /\ loc' = [loc EXCEPT ![t] = NoCall]
    /\ base' =
         CASE loc[t].op = "start" ->
                [id |-> loc[t].base, port |-> loc[t].port, dark |-> loc[t].dark,
                 alive |-> TRUE]
           [] ok /\ loc[t].op \in {"switch", "theme"} /\ loc[t].base = base.id ->
                [base EXCEPT !.dark = loc[t].dark]
           [] OTHER -> base

Target(p) == port' = p
endpoint  == port

\* Chromium is launched on port p, its page unzoomed.
launch(t, p) ==
    /\ launched < MaxBrowsers /\ launched' = launched + 1
    /\ browser' = [NoBrowser EXCEPT !.id = launched + 1, !.port = p]
    /\ raced' = (others(t) # {})

\* The connection the controller holds is forgotten, and closed.
Detach ==
    /\ ctx' = None
    /\ link' = [c \in Conns |-> IF c = ctx THEN 0 ELSE link[c]]
    /\ driven' = driven \ {ctx}

\* SetZoomDefault: the zoom is the persisted one.
NewChrome ==
    /\ ctx = None /\ zoom \in Zooms /\ port = "x"
    /\ link = [c \in Conns |-> 0] /\ driven = {}
    /\ browser = NoBrowser /\ launched = 0 /\ base = NoBase
    /\ pc = [t \in Threads |-> "idle"] /\ loc = [t \in Threads |-> NoCall]
    /\ calls = [setter |-> 0, switcher |-> 0]
    /\ alone = [t \in Threads |-> TRUE] /\ raced = FALSE /\ crowded = FALSE

(* The browser, and the loop of its runner *)

BrowserDies ==
    /\ browser.id # 0 /\ browser' = NoBrowser
    /\ UNCHANGED <<fields, link, driven, launched, base, pc, loc, hist>>

\* runLoop has reaped the child.  It began when start() returned.
ExitHook ==
    /\ base.alive /\ browser.id = 0
    /\ pc["loop"] = "idle" /\ goto("loop", "dead") /\ Detach
    /\ UNCHANGED <<zoom, port, kiosk, loc, hist>>

GiveUp ==
    /\ base.alive /\ pc["loop"] = "dead" /\ goto("loop", "idle")
    /\ base' = [base EXCEPT !.alive = FALSE]
    /\ UNCHANGED <<fields, link, driven, browser, launched, loc, hist>>

\* The backoff, a second at least, is over: whatever connected to the dead
\* browser has published by then.  A Wayland kiosk sets its port again.
Relaunch ==
    /\ base.alive /\ pc["loop"] = "dead"
    /\ \A t \in Threads : pc[t] # "publish"
    /\ begin("loop", "connect",
             [NoCall EXCEPT !.op = "relaunch", !.base = base.id, !.dark = base.dark])
    /\ launch("loop", base.port)
    /\ Target(IF base.port = "wayland" THEN "wayland" ELSE port)
    /\ UNCHANGED <<closes, zoom, base, calls, crowded>>

(* The switcher *)

\* startPrimary, or off: the runner is forgotten and its child killed.
StopBase(op, p, d) ==
    /\ begin("switcher", "stop",
             [NoCall EXCEPT !.op = op, !.port = p, !.dark = d])
    /\ counted("switcher", MaxSwitches)
    /\ base' = NoBase /\ browser' = NoBrowser
    /\ UNCHANGED <<fields, link, driven, launched, raced, crowded>>

\* Stop() waits for the loop, with its attach.  Then off is done ...
Off ==
    /\ pc["switcher"] = "stop" /\ loc["switcher"].op = "off" /\ ~busy("loop")
    /\ pc' = [pc EXCEPT !["switcher"] = "idle", !["loop"] = "idle"]
    /\ Detach
    /\ UNCHANGED <<zoom, port, kiosk, loc, hist>>

\* ... and startPrimary targets the port of the next child.
StartPrimary ==
    LET c == loc["switcher"] IN
    /\ pc["switcher"] = "stop" /\ c.op = "start" /\ ~busy("loop")
    /\ Detach /\ Target(c.port) /\ launch("switcher", c.port)
    /\ pc' = [pc EXCEPT !["switcher"] = "connect", !["loop"] = "idle"]
    /\ loc' = [loc EXCEPT !["switcher"].base = launched']
    /\ UNCHANGED <<zoom, base, calls, alone, crowded>>

\* The same backend is up: attach again, on return from a foreground mode or
\* when CDP is lost, or else navigate.
InPlace(d) ==
    /\ base.alive
    /\ \E p \in {"connect"} \cup IF attached THEN {"snapshot"} ELSE {} :
           begin("switcher", p, [NoCall EXCEPT !.op = "switch", !.what = "navigate",
                                               !.base = base.id, !.dark = d])
    /\ counted("switcher", MaxSwitches) /\ Target(base.port)
    /\ UNCHANGED <<closes, zoom, kiosk, raced, crowded>>

\* ReattachWeb: a live kiosk whose connection is lost.
ReattachWeb ==
    /\ base.alive /\ ~attached
    /\ begin("switcher", "connect",
             [NoCall EXCEPT !.op = "reattach", !.base = base.id, !.dark = base.dark])
    /\ counted("switcher", MaxSwitches) /\ Target(base.port)
    /\ UNCHANGED <<closes, zoom, kiosk, raced, crowded>>

\* The rotation, or the scroll, of a page that is attached.
onPage(what) ==
    /\ base.alive /\ attached /\ counted("switcher", MaxSwitches)
    /\ begin("switcher", "snapshot",
             [NoCall EXCEPT !.op = "rotate", !.what = what, !.base = base.id,
                            !.dark = base.dark])
    /\ UNCHANGED <<fields, link, driven, kiosk, raced, crowded>>

NavigateIfWeb   == onPage("navigate")
AdvanceDocument == onPage("eval")

\* A request is served while the kiosk is up and attached.
Ask(what, z, d) ==
    /\ base.id # 0 /\ attached /\ counted("setter", MaxCalls)
    /\ begin("setter", "snapshot",
             [NoCall EXCEPT !.op = what, !.what = what, !.base = base.id,
                            !.zoom = z, !.dark = d])
    /\ UNCHANGED <<fields, link, driven, kiosk, raced, crowded>>

handleZoom(z)  == Ask("zoom", z, FALSE)
handleTheme(d) == Ask("theme", 1, d)
handleMessage  == Ask("eval", 1, FALSE)
Screenshot     == Ask("eval", 1, FALSE)

(* connect, Attach and Reattach *)

Connect(t) ==
    /\ pc[t] = "connect" /\ goto(t, "wait") /\ Detach
    /\ crowded' = (crowded \/ \E o \in Threads \ {t} : connecting(o))
    /\ UNCHANGED <<zoom, port, kiosk, loc, calls, alone, raced>>

\* waitForPageTarget, on the port of this moment.
PageTarget(t) ==
    /\ pc[t] = "wait" /\ goto(t, "run")
    /\ browser.id # 0 /\ browser.port = endpoint
    /\ loc' = [loc EXCEPT ![t].found = browser.id]
    /\ UNCHANGED <<fields, link, driven, kiosk, hist>>

unused == {c \in Conns : link[c] = 0 /\ \A t \in Threads : loc[t].ctx # c}

\* The socket is allocated on the port of this moment, which may be another.
Bind(t) ==
    /\ pc[t] = "run" /\ goto(t, "publish")
    /\ browser.id = loc[t].found /\ browser.port = endpoint
    /\ unused # {}
    /\ LET c == CHOOSE c \in unused : TRUE IN
           link' = [link EXCEPT ![c] = browser.id] /\ loc' = [loc EXCEPT ![t].ctx = c]
    /\ UNCHANGED <<fields, driven, kiosk, hist>>

\* No page in time, or no connection: the contexts are cancelled.
ConnectFails(t) ==
    /\ pc[t] \in {"wait", "run"} /\ return(t, TRUE)
    /\ UNCHANGED <<fields, link, driven, browser, launched, hist>>

\* The fields are set, over what they held; Attach navigates, Reattach goes on
\* with the colours.
Publish(t) ==
    LET again == loc[t].op = "reattach" IN
    /\ pc[t] = "publish" /\ goto(t, IF again THEN "zoom" ELSE "snapshot")
    /\ ctx' = loc[t].ctx
    /\ driven' = IF again THEN driven \cup {loc[t].ctx} ELSE driven
    /\ loc' = [loc EXCEPT ![t].what = IF again THEN "theme" ELSE "navigate"]
    /\ UNCHANGED <<zoom, port, link, kiosk, hist>>

\* Reattach reads the zoom before it re-applies the colours.
ReadZoom(t) ==
    /\ pc[t] = "zoom" /\ goto(t, "snapshot") /\ loc' = [loc EXCEPT ![t].zoom = zoom]
    /\ UNCHANGED <<fields, link, driven, kiosk, hist>>

(* Navigate, SetZoom, SetTheme and eval *)

Snapshot(t) ==
    /\ pc[t] = "snapshot" /\ attached /\ goto(t, "act")
    /\ loc' = [loc EXCEPT ![t].ctx = ctx,
                          ![t].zoom = IF loc[t].what = "navigate"
                                      THEN zoom ELSE @]
    /\ UNCHANGED <<fields, link, driven, kiosk, hist>>

\* Mutation: the zoom is left at what a navigation resets it to.
navigatedUnzoomed(t) == [browser EXCEPT !.zoom = 1, !.dark = loc[t].dark]

\* A navigation resets the zoom of the page, and applies the one it read.
navigated(t) == [browser EXCEPT !.zoom = loc[t].zoom, !.dark = loc[t].dark]
SetZoom(t)  == [browser EXCEPT !.zoom = loc[t].zoom]
SetTheme(t) == [browser EXCEPT !.dark = loc[t].dark]
looks(t) ==
    CASE loc[t].what = "navigate" -> navigated(t)
      [] loc[t].what = "zoom"     -> SetZoom(t)
      [] loc[t].what = "theme"    -> SetTheme(t)
      [] loc[t].what = "eval"     -> browser

\* What a call does next: Reattach re-applies a zoom, if there is one.
goesOn(t, ok) ==
    IF loc[t].op = "reattach" /\ loc[t].what = "theme" /\ loc[t].zoom # 1
    THEN /\ goto(t, "snapshot") /\ loc' = [loc EXCEPT ![t].what = "zoom"]
         /\ UNCHANGED base
    ELSE return(t, ok)

Act(t) ==
    /\ pc[t] = "act" /\ link[loc[t].ctx] # 0 /\ link[loc[t].ctx] = browser.id
    /\ browser' = looks(t)
    /\ driven' = IF loc[t].what = "navigate" THEN driven \cup {loc[t].ctx}
                 ELSE driven
    /\ raced' = (~alone[t] \/ (raced /\ loc[t].what # "navigate"))
    /\ IF loc[t].what = "zoom"
       THEN goto(t, "record") /\ UNCHANGED <<loc, base>>
       ELSE goesOn(t, TRUE)
    /\ UNCHANGED <<fields, link, launched, calls, alone, crowded>>

\* Not attached, an error or a timeout, before or after the page had changed.
\* Attach then drops the connection.
ActFails(t) ==
    /\ \/ pc[t] = "snapshot" /\ ~attached /\ UNCHANGED browser
       \/ /\ pc[t] = "act"
          /\ \/ UNCHANGED browser
             \/ /\ link[loc[t].ctx] # 0 /\ link[loc[t].ctx] = browser.id
                /\ browser' \in {looks(t), [looks(t) EXCEPT !.zoom = 1]}
    /\ IF loc[t].found # 0 /\ loc[t].what = "navigate"
       THEN goto(t, "drop") /\ UNCHANGED <<loc, base>>
       ELSE goesOn(t, FALSE)
    /\ raced' = TRUE
    /\ UNCHANGED <<fields, link, driven, launched, calls, alone, crowded>>

\* The zoom is recorded.
Record(t) ==
    /\ pc[t] = "record" /\ zoom' = loc[t].zoom /\ return(t, TRUE)
    /\ UNCHANGED <<closes, port, browser, launched, hist>>

\* Whatever connection the controller holds by now.
Drop(t) ==
    /\ pc[t] = "drop" /\ Detach /\ return(t, TRUE)
    /\ UNCHANGED <<zoom, port, browser, launched, hist>>

Next ==
    \/ BrowserDies \/ ExitHook \/ GiveUp \/ Relaunch \/ Off \/ StartPrimary
    \/ StopBase("off", "x", FALSE)
    \/ \E p \in Ports, d \in Schemes : StopBase("start", p, d)
    \/ \E d \in Schemes : InPlace(d)
    \/ ReattachWeb \/ NavigateIfWeb \/ AdvanceDocument
    \/ \E z \in Zooms : handleZoom(z)
    \/ \E d \in Schemes : handleTheme(d)
    \/ handleMessage \/ Screenshot
    \/ \E t \in Threads :
           \/ Connect(t) \/ PageTarget(t) \/ Bind(t) \/ ConnectFails(t)
           \/ Publish(t) \/ ReadZoom(t) \/ Snapshot(t) \/ Act(t) \/ ActFails(t)
           \/ Record(t) \/ Drop(t)

Spec == NewChrome /\ [][Next]_vars

-----------------------------------------------------------------------------
quiet == \A t \in Threads : pc[t] = "idle"
held  == {ctx} \cup {loc[t].ctx : t \in Threads}

TypeOK ==
    /\ ctx \in Conns \cup {None} /\ zoom \in Zooms /\ port \in Ports
    /\ link \in [Conns -> 0..MaxBrowsers] /\ driven \subseteq Conns
    /\ launched \in 0..MaxBrowsers
    /\ browser \in [id : 0..launched, port : Ports, zoom : Zooms,
                    dark : BOOLEAN]
    /\ base.id \in 0..launched /\ base.port \in Ports
    /\ loc \in [Threads -> [op : {"none", "start", "off", "switch", "reattach",
                                  "rotate", "relaunch"} \cup Requests,
                            what : {"none", "navigate"} \cup Requests,
                            base : 0..MaxBrowsers, port : Ports,
                            dark : BOOLEAN, zoom : Zooms,
                            ctx : Conns \cup {None}, found : 0..MaxBrowsers]]
    /\ pc \in [Threads -> {"idle", "dead", "stop", "connect", "wait", "run",
                           "publish", "zoom", "snapshot", "act", "record", "drop"}]

\* "Attached() never reports true for a browser we couldn't actually drive onto
\* the page" (Attach): with no attach under way, the connection that is held was
\* navigated or bound to a page as it was, whoever else connects meanwhile.
AttachedWasDriven ==
    \/ ~attached \/ ctx \in driven
    \/ \E t \in Threads :
           pc[t] \in {"snapshot", "act", "drop"} /\ loc[t].found # 0

\* Once the kiosk is up again and nothing is under way, the controller is not
\* attached to the Chromium that died (runLoop, connect).
AttachedToLive ==
    quiet /\ attached /\ base.alive /\ browser.id # 0 => link[ctx] = browser.id

\* No connection stays open that nobody holds, unless two threads connected at
\* once: then the second publishes over the first (connect).
NothingLeaks ==
    ~crowded => \A c \in Conns : link[c] # 0 => c \in held

\* The page has the zoom and the colours that are recorded, over navigations,
\* exits and re-attaches, if the last change of them ran alone and did not fail.
ShownAsRecorded ==
    quiet /\ attached /\ base.alive /\ ~raced /\ link[ctx] = browser.id
      => browser.zoom = zoom /\ browser.dark = base.dark
=============================================================================
