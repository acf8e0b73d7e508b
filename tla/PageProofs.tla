----------------------------- MODULE PageProofs -----------------------------
(***************************************************************************)
(* Proof that the CDP controller is attached to a page it has driven, of   *)
(* the Chromium that runs, leaks no connection and shows what is recorded  *)
(* (Chrome, as Services composes it), for every number of connections,     *)
(* launches and calls, whatever the zooms and the colour schemes.          *)
(*                                                                         *)
(* The three threads interleave at every point between a snapshot of the   *)
(* fields and the record of what was done, so the invariant says of each   *)
(* call in progress what it still owes: a connection to publish, a page to *)
(* navigate, a zoom to re-apply.  First comes what each action does, field *)
(* by field, then that each part of the invariant survives it.             *)
(***************************************************************************)
EXTENDS Services, TLAPS

Calls == [op : {"none", "start", "off", "switch", "reattach", "rotate", "relaunch"}
               \cup C!Requests,
          what : {"none", "navigate"} \cup C!Requests,
          base : Nat, port : C!Ports, dark : Schemes \cup BOOLEAN,
          zoom : Zooms \cup {1}, ctx : Conns \cup {None}, found : Nat]
Pages == [id : Nat, port : C!Ports, zoom : Zooms \cup {1},
          dark : Schemes \cup BOOLEAN]
Bases == [id : Nat, port : C!Ports, dark : Schemes \cup BOOLEAN, alive : BOOLEAN]
Points == {"idle", "dead", "stop", "connect", "wait", "run", "publish", "zoom",
           "snapshot", "act", "record", "drop"}

PageTypes ==
    /\ ctx \in Conns \cup {None} /\ zoom \in Zooms \cup {1} /\ port \in C!Ports
    /\ link \in [Conns -> Nat] /\ launched \in Nat
    /\ browser \in Pages /\ base \in Bases
    /\ local \in [C!Threads -> Calls] /\ threadPc \in [C!Threads -> Points]
    /\ alone \in [C!Threads -> BOOLEAN]
    /\ raced \in BOOLEAN /\ connectors \in BOOLEAN

\* What a call is for, and so what it does to the page.
Purpose(t) ==
    \/ local[t].what = "navigate"
       /\ local[t].op \in {"start", "switch", "rotate", "relaunch"}
    \/ local[t].what = "eval" /\ local[t].op \in {"rotate", "eval"}
    \/ local[t].what = "theme" /\ local[t].op \in {"theme", "reattach"}
    \/ local[t].what = "zoom" /\ local[t].op \in {"zoom", "reattach"}

Phases ==
    /\ \A t \in C!Threads :
          /\ threadPc[t] \in {"snapshot", "act"} => Purpose(t)
          /\ threadPc[t] = "record" => local[t].op \in {"zoom", "reattach"}
          /\ threadPc[t] = "zoom" =>
                local[t].op = "reattach" /\ local[t].what = "theme"
          /\ threadPc[t] \in {"connect", "wait", "run", "publish"} =>
                local[t].op \in {"start", "switch", "reattach", "relaunch"}
          /\ threadPc[t] \in {"run", "publish"} => local[t].found # 0
    /\ threadPc["setter"] \notin {"dead", "stop", "connect", "wait", "run",
                                  "publish", "zoom"}
    /\ C!busy("setter") => local["setter"].op \in C!Requests

\* The call will navigate on the connection that is held, or drop it.
Drives(t) ==
    /\ local[t].found # 0
    /\ \/ threadPc[t] = "drop"
       \/ threadPc[t] = "snapshot" /\ local[t].what = "navigate"
       \/ threadPc[t] = "act" /\ local[t].what = "navigate" /\ local[t].ctx = ctx

\* No connection leads to a Chromium yet to be launched.
LinksKnown ==
    /\ \A c \in Conns : link[c] <= launched
    /\ browser.id <= launched

\* Launches are bounded, and what a call keeps of a Chromium was launched; what
\* acts has a connection.
Bounded ==
    /\ driven \subseteq Conns /\ launched <= MaxBrowsers /\ base.id <= launched
    /\ \A t \in C!Threads :
          /\ local[t].base <= launched /\ local[t].found <= launched
          /\ threadPc[t] = "act" => local[t].ctx \in Conns

HeldIsOpen == C!attached => link[ctx] # 0

\* A connection that is about to be published is open, to the Chromium that
\* runs, and no one else's.
Published ==
    \A t \in C!Threads : threadPc[t] = "publish" =>
        /\ local[t].ctx \in Conns /\ local[t].ctx # ctx
        /\ link[local[t].ctx] # 0
        /\ browser.id # 0 => link[local[t].ctx] = browser.id
        /\ \A o \in C!Threads \ {t} :
              threadPc[o] = "publish" => local[o].ctx # local[t].ctx

\* The connection leads to the Chromium that runs, or is about to be replaced.
LeadsToLive ==
    C!attached /\ browser.id # 0 /\ link[ctx] # browser.id =>
        \E t \in C!Threads : threadPc[t] = "connect"

WillBeDriven == C!attached /\ ctx \notin driven => \E t \in C!Threads : Drives(t)

\* While no two threads have connected at once, one at most is connecting, and
\* what is open is the connection held or the one it is about to publish.
OneConnects ==
    ~connectors =>
        /\ \A t \in C!Threads : C!connecting(t) =>
              /\ ctx = None
              /\ \A o \in C!Threads \ {t} : ~C!connecting(o)
        /\ \A c \in Conns : link[c] # 0 =>
              \/ c = ctx
              \/ \E t \in C!Threads : threadPc[t] = "publish" /\ local[t].ctx = c

\* A call that runs alone: what it read is still so.
Alone ==
    \A t \in C!Threads : C!busy(t) /\ alone[t] =>
        /\ \A o \in C!Threads \ {t} : ~C!busy(o)
        /\ local[t].op \notin {"start", "off"} => local[t].base = base.id
        /\ local[t].op \in {"reattach", "rotate", "relaunch"} =>
              local[t].dark = base.dark
        /\ threadPc[t] = "act" /\ local[t].what = "navigate" => local[t].zoom = zoom
        /\ threadPc[t] \in {"snapshot", "act"} /\ local[t].op = "reattach" =>
              local[t].zoom = zoom

ToAct(t) == threadPc[t] \in {"zoom", "snapshot", "act"}

\* A call that runs alone will give the page its zoom, and its colours.
WillShow(t) ==
    \/ local[t].what = "navigate" /\ threadPc[t] # "zoom"
    \/ local[t].op = "reattach" /\ local[t].what = "theme"
    \/ local[t].op = "reattach" /\ local[t].what = "zoom" /\ browser.dark = base.dark

DropsRaced == \A t \in C!Threads : threadPc[t] = "drop" => raced

ZoomKnown ==
    ~raced /\ browser.id # 0 =>
        /\ \A t \in C!Threads :
              threadPc[t] = "record" => browser.zoom = local[t].zoom
        /\ \/ browser.zoom \in {1, zoom}
           \/ \E t \in C!Threads : threadPc[t] = "record"

\* Whoever connects beside a connection that is held is not alone.
ConnectsBeside ==
    ~raced /\ C!attached =>
        \A t \in C!Threads : threadPc[t] \in {"wait", "run", "publish"} =>
            \E o \in C!Threads \ {t} : ToAct(o) /\ ~alone[o]

\* The page looks as it should, or a call is about to make it so.
LooksRight ==
    ~raced /\ C!attached /\ browser.id # 0 /\ link[ctx] = browser.id =>
        \/ browser.zoom = zoom /\ browser.dark = base.dark
        \/ \E t \in C!Threads : threadPc[t] = "record" /\ browser.dark = base.dark
        \/ \E t \in C!Threads : ToAct(t) /\ (alone[t] => WillShow(t))

PageInv ==
    /\ PageTypes /\ Phases
    /\ LinksKnown /\ Bounded /\ HeldIsOpen /\ Published /\ LeadsToLive /\ WillBeDriven
    /\ OneConnects
    /\ Alone /\ DropsRaced /\ ZoomKnown /\ ConnectsBeside /\ LooksRight

\* A change of one local of a call leaves the others.
LEMMA CallChanges ==
  ASSUME NEW l \in Calls
  PROVE  /\ \A v \in Conns \cup {None} :
               /\ [l EXCEPT !.ctx = v] \in Calls
               /\ [l EXCEPT !.ctx = v].ctx = v /\ [l EXCEPT !.ctx = v].op = l.op
               /\ [l EXCEPT !.ctx = v].what = l.what /\ [l EXCEPT !.ctx = v].base = l.base
               /\ [l EXCEPT !.ctx = v].dark = l.dark /\ [l EXCEPT !.ctx = v].zoom = l.zoom
               /\ [l EXCEPT !.ctx = v].found = l.found
         /\ \A v \in {"navigate", "theme", "zoom"} :
               /\ [l EXCEPT !.what = v] \in Calls
               /\ [l EXCEPT !.what = v].what = v /\ [l EXCEPT !.what = v].op = l.op
               /\ [l EXCEPT !.what = v].ctx = l.ctx /\ [l EXCEPT !.what = v].base = l.base
               /\ [l EXCEPT !.what = v].dark = l.dark /\ [l EXCEPT !.what = v].zoom = l.zoom
               /\ [l EXCEPT !.what = v].found = l.found
         /\ \A v \in Zooms \cup {1} :
               /\ [l EXCEPT !.zoom = v] \in Calls
               /\ [l EXCEPT !.zoom = v].zoom = v /\ [l EXCEPT !.zoom = v].op = l.op
               /\ [l EXCEPT !.zoom = v].ctx = l.ctx /\ [l EXCEPT !.zoom = v].base = l.base
               /\ [l EXCEPT !.zoom = v].dark = l.dark /\ [l EXCEPT !.zoom = v].what = l.what
               /\ [l EXCEPT !.zoom = v].found = l.found
  BY DEF Calls, C!Requests

\* What the locals of a call range over.
LEMMA CallFields ==
  ASSUME NEW l \in Calls
  PROVE  /\ l.op \in {"none", "start", "off", "switch", "reattach", "rotate",
                      "relaunch", "zoom", "theme", "eval"}
         /\ l.what \in {"none", "navigate", "zoom", "theme", "eval"}
         /\ l.base \in Nat /\ l.port \in C!Ports /\ l.dark \in Schemes \cup BOOLEAN
         /\ l.zoom \in Zooms \cup {1} /\ l.ctx \in Conns \cup {None} /\ l.found \in Nat
  BY DEF Calls, C!Requests

\* begin: the thread was free, and is alone if the others are.
LEMMA Begun ==
  ASSUME PageTypes, NEW t \in C!Threads, NEW p \in Points, NEW call \in Calls,
         C!begin(t, p, call)
  PROVE  /\ ~C!busy(t)
         /\ threadPc' \in [C!Threads -> Points] /\ local' \in [C!Threads -> Calls]
         /\ alone' \in [C!Threads -> BOOLEAN]
         /\ threadPc'[t] = p /\ local'[t] = call
         /\ alone'[t] <=> \A o \in C!Threads \ {t} : ~C!busy(o)
         /\ \A o \in C!Threads \ {t} :
               /\ threadPc'[o] = threadPc[o] /\ local'[o] = local[o]
               /\ alone'[o] <=> alone[o] /\ ~C!busy(o)
<1> USE DEF PageTypes
<1>1. /\ threadPc' = [threadPc EXCEPT ![t] = p] /\ local' = [local EXCEPT ![t] = call]
      /\ alone' = [o \in C!Threads |-> IF o = t THEN C!others(t) = {}
                                       ELSE alone[o] /\ ~C!busy(o)]
      /\ ~C!busy(t)
  BY DEF C!begin, C!goto
<1>2. /\ (C!others(t) = {}) \in BOOLEAN
      /\ C!others(t) = {} <=> \A o \in C!Threads \ {t} : ~C!busy(o)
  BY DEF C!others
<1>3. \A o \in C!Threads : (alone[o] /\ ~C!busy(o)) \in BOOLEAN
  OBVIOUS
<1>4. alone' \in [C!Threads -> BOOLEAN]
  BY <1>1, <1>2, <1>3
<1> QED BY <1>1, <1>2, <1>4

\* return: what a call that ends does to the runner of the kiosk.
LEMMA Returned ==
  ASSUME PageTypes, NEW t \in C!Threads, NEW ok \in BOOLEAN, C!return(t, ok)
  PROVE  /\ threadPc' \in [C!Threads -> Points] /\ local' \in [C!Threads -> Calls]
         /\ threadPc'[t] = "idle"
         /\ \A o \in C!Threads \ {t} :
               /\ threadPc'[o] = threadPc[o] /\ local'[o] = local[o]
         /\ local'[t].base = 0 /\ local'[t].found = 0
         /\ base' \in Bases
         /\ local[t].op # "start" => base'.id = base.id
         /\ local[t].op = "start" =>
               base'.id = local[t].base /\ base'.dark = local[t].dark
         /\ local[t].op \in {"switch", "theme"} /\ ok /\ local[t].base = base.id =>
               base'.dark = local[t].dark
         /\ local[t].op \notin {"start", "switch", "theme"} => base' = base
<1> USE DEF PageTypes
<1>1. /\ threadPc' = [threadPc EXCEPT ![t] = "idle"] /\ local' = [local EXCEPT ![t] = C!NoCall]
  BY DEF C!return, C!goto
<1>2. C!NoCall \in Calls /\ C!NoCall.base = 0 /\ C!NoCall.found = 0
  BY DEF C!NoCall, Calls, C!Ports
<1>3. "idle" \in Points
  BY DEF Points
<1>4. local[t] \in Calls
  OBVIOUS
<1>5. /\ base' \in Bases
      /\ local[t].op # "start" => base'.id = base.id
      /\ local[t].op = "start" =>
            base'.id = local[t].base /\ base'.dark = local[t].dark
      /\ local[t].op \in {"switch", "theme"} /\ ok /\ local[t].base = base.id =>
               base'.dark = local[t].dark
      /\ local[t].op \notin {"start", "switch", "theme"} => base' = base
  <2>1. CASE local[t].op = "start"
    BY <2>1, <1>4, CallFields DEF C!return, Bases
  <2>2. CASE local[t].op # "start" /\ ok /\ local[t].op \in {"switch", "theme"} /\ local[t].base = base.id
    BY <2>2, <1>4, CallFields DEF C!return, Bases
  <2>3. CASE local[t].op # "start" /\ ~(ok /\ local[t].op \in {"switch", "theme"} /\ local[t].base = base.id)
    BY <2>3, <1>4, CallFields DEF C!return, Bases
  <2> QED BY <2>1, <2>2, <2>3
<1> QED BY <1>1, <1>2, <1>3, <1>5

\* looks: a page again, of the same Chromium, with what the call read.
LEMMA Looked ==
  ASSUME PageTypes, NEW t \in C!Threads, Purpose(t)
  PROVE  /\ C!looks(t) \in Pages /\ C!looks(t).id = browser.id
         /\ [C!looks(t) EXCEPT !.zoom = 1] \in Pages
         /\ [C!looks(t) EXCEPT !.zoom = 1].id = browser.id
         /\ C!looks(t).zoom = IF local[t].what \in {"navigate", "zoom"} THEN local[t].zoom
                              ELSE browser.zoom
         /\ C!looks(t).dark = IF local[t].what \in {"navigate", "theme"} THEN local[t].dark
                              ELSE browser.dark
<1>1. local[t] \in Calls /\ browser \in Pages
  BY DEF PageTypes
<1>2. /\ local[t].dark \in Schemes \cup BOOLEAN /\ local[t].zoom \in Zooms \cup {1}
  BY <1>1, CallFields
<1>3. local[t].what \in {"navigate", "zoom", "theme", "eval"}
  BY DEF Purpose
<1>4. CASE local[t].what = "navigate"
  BY <1>1, <1>2, <1>4 DEF C!looks, C!navigated, Pages
<1>5. CASE local[t].what = "zoom"
  BY <1>1, <1>2, <1>5 DEF C!looks, C!SetZoom, Pages
<1>6. CASE local[t].what = "theme"
  BY <1>1, <1>2, <1>6 DEF C!looks, C!SetTheme, Pages
<1>7. CASE local[t].what = "eval"
  BY <1>1, <1>2, <1>7 DEF C!looks, Pages
<1> QED BY <1>3, <1>4, <1>5, <1>6, <1>7

\* launch: a Chromium of its own number, its page unzoomed.
LEMMA Launched ==
  ASSUME PageTypes, NEW t \in C!Threads, NEW p \in C!Ports, C!launch(t, p)
  PROVE  /\ launched' = launched + 1 /\ launched' \in Nat
         /\ browser' \in Pages /\ browser'.id = launched + 1 /\ browser'.zoom = 1
         /\ launched < MaxBrowsers
         /\ raced' \in BOOLEAN /\ (raced' <=> \E o \in C!Threads \ {t} : C!busy(o))
<1>1. /\ launched' = launched + 1 /\ raced' = (C!others(t) # {})
      /\ launched < MaxBrowsers
      /\ browser' = [C!NoBrowser EXCEPT !.id = launched + 1, !.port = p]
  BY DEF C!launch
<1>2. launched + 1 \in Nat
  BY DEF PageTypes
<1>3. LET b == [C!NoBrowser EXCEPT !.id = launched + 1, !.port = p]
      IN  b \in Pages /\ b.id = launched + 1 /\ b.zoom = 1
  BY <1>2 DEF Pages, C!NoBrowser
<1>4. /\ (C!others(t) # {}) \in BOOLEAN
      /\ C!others(t) # {} <=> \E o \in C!Threads \ {t} : C!busy(o)
  BY DEF C!others
<1> QED BY <1>1, <1>2, <1>3, <1>4

CallsTyped == /\ threadPc' \in [C!Threads -> Points] /\ local' \in [C!Threads -> Calls]
         /\ alone' \in [C!Threads -> BOOLEAN]

\* Thread t begins a call.
Enters(t, p, o, w, b, d, z) ==
    /\ ~C!busy(t) /\ CallsTyped /\ threadPc'[t] = p
    /\ local'[t].op = o /\ local'[t].what = w /\ local'[t].base = b
    /\ local'[t].dark = d /\ local'[t].zoom = z
    /\ local'[t].ctx = None /\ local'[t].found = 0
    /\ alone'[t] <=> \A q \in C!Threads \ {t} : ~C!busy(q)
    /\ \A q \in C!Threads \ {t} :
          /\ threadPc'[q] = threadPc[q] /\ local'[q] = local[q]
          /\ alone'[q] <=> alone[q] /\ ~C!busy(q)

\* The loop begins to attach to the Chromium it launched (runLoop).
LEMMA RelaunchEnters ==
  ASSUME PageTypes, C!Relaunch
  PROVE  Enters("loop", "connect", "relaunch", "none", base.id, base.dark, 1)
<1>1. base.id \in Nat /\ base.dark \in Schemes \cup BOOLEAN
  BY DEF PageTypes, Bases
<1>2. "loop" \in C!Threads /\ "connect" \in Points /\ "x" \in C!Ports /\ 1 \in Zooms \cup {1}
  BY DEF C!Threads, Points, C!Ports
<1>3. C!begin("loop", "connect",
               [C!NoCall EXCEPT !.op = "relaunch", !.base = base.id, !.dark = base.dark])
  BY DEF C!Relaunch
<1> DEFINE c == [C!NoCall EXCEPT !.op = "relaunch", !.base = base.id, !.dark = base.dark]
<1>4. /\ c \in Calls /\ c.op = "relaunch" /\ c.what = "none" /\ c.base = base.id
      /\ c.dark = base.dark /\ c.zoom = 1 /\ c.ctx = None /\ c.found = 0
  BY <1>1 DEF Calls, C!NoCall, C!Ports, C!Requests
<1>5. C!begin("loop", "connect", c)
  BY <1>3
<1> HIDE DEF c
<1> QED BY <1>2, <1>4, <1>5, Begun DEF Enters, CallsTyped

\* The switcher begins to stop the kiosk (startPrimary, off).
LEMMA StopBaseEnters ==
  ASSUME PageTypes, NEW o \in {"off", "start"}, NEW p \in C!Ports,
         NEW d \in Schemes \cup BOOLEAN, C!StopBase(o, p, d)
  PROVE  Enters("switcher", "stop", o, "none", 0, d, 1)
<1>2. "switcher" \in C!Threads /\ "stop" \in Points /\ 0 \in Nat /\ 1 \in Zooms \cup {1}
  BY DEF C!Threads, Points
<1>3. C!begin("switcher", "stop",
               [C!NoCall EXCEPT !.op = o, !.port = p, !.dark = d])
  BY DEF C!StopBase
<1> DEFINE c == [C!NoCall EXCEPT !.op = o, !.port = p, !.dark = d]
<1>4. /\ c \in Calls /\ c.op = o /\ c.what = "none" /\ c.base = 0
      /\ c.dark = d /\ c.zoom = 1 /\ c.ctx = None /\ c.found = 0
  BY <1>2 DEF Calls, C!NoCall, C!Ports, C!Requests
<1>5. C!begin("switcher", "stop", c)
  BY <1>3
<1> HIDE DEF c
<1> QED BY <1>2, <1>4, <1>5, Begun DEF Enters, CallsTyped

\* The switcher begins a switch in place (switchTo).
LEMMA InPlaceEnters ==
  ASSUME PageTypes, NEW d \in Schemes \cup BOOLEAN, C!InPlace(d)
  PROVE  \E p \in {"connect", "snapshot"} :
            /\ p = "snapshot" => C!attached
            /\ Enters("switcher", p, "switch", "navigate", base.id, d, 1)
<1>1. base.id \in Nat
  BY DEF PageTypes, Bases
<1>2. "switcher" \in C!Threads /\ {"connect", "snapshot"} \subseteq Points
  BY DEF C!Threads, Points
<1>3. PICK p \in {"connect", "snapshot"} :
         /\ p = "snapshot" => C!attached
         /\ C!begin("switcher", p, [C!NoCall EXCEPT !.op = "switch", !.what = "navigate",
                                                    !.base = base.id, !.dark = d])
  BY DEF C!InPlace
<1> DEFINE c == [C!NoCall EXCEPT !.op = "switch", !.what = "navigate",
                                   !.base = base.id, !.dark = d]
<1>4. /\ c \in Calls /\ c.op = "switch" /\ c.what = "navigate" /\ c.base = base.id
      /\ c.dark = d /\ c.zoom = 1 /\ c.ctx = None /\ c.found = 0
  BY <1>1 DEF Calls, C!NoCall, C!Ports, C!Requests
<1>6. C!begin("switcher", p, c)
  BY <1>3
<1> HIDE DEF c
<1>7. Enters("switcher", p, "switch", "navigate", base.id, d, 1)
  BY <1>2, <1>4, <1>6, Begun DEF Enters, CallsTyped
<1> QED BY <1>3, <1>7

\* The switcher begins to re-attach to a live kiosk (ReattachWeb).
LEMMA ReattachWebEnters ==
  ASSUME PageTypes, C!ReattachWeb
  PROVE  Enters("switcher", "connect", "reattach", "none", base.id, base.dark, 1)
<1>1. base.id \in Nat /\ base.dark \in Schemes \cup BOOLEAN
  BY DEF PageTypes, Bases
<1>2. /\ "switcher" \in C!Threads /\ "connect" \in Points /\ "x" \in C!Ports
      /\ 1 \in Zooms \cup {1}
  BY DEF C!Threads, Points, C!Ports
<1>3. C!begin("switcher", "connect",
               [C!NoCall EXCEPT !.op = "reattach", !.base = base.id, !.dark = base.dark])
  BY DEF C!ReattachWeb
<1> DEFINE c == [C!NoCall EXCEPT !.op = "reattach", !.base = base.id, !.dark = base.dark]
<1>4. /\ c \in Calls /\ c.op = "reattach" /\ c.what = "none" /\ c.base = base.id
      /\ c.dark = base.dark /\ c.zoom = 1 /\ c.ctx = None /\ c.found = 0
  BY <1>1 DEF Calls, C!NoCall, C!Ports, C!Requests
<1>5. C!begin("switcher", "connect", c)
  BY <1>3
<1> HIDE DEF c
<1> QED BY <1>2, <1>4, <1>5, Begun DEF Enters, CallsTyped

\* The switcher begins a rotation or a scroll (NavigateIfWeb).
LEMMA onPageEnters ==
  ASSUME PageTypes, NEW w \in {"navigate", "eval"}, C!onPage(w)
  PROVE  Enters("switcher", "snapshot", "rotate", w, base.id, base.dark, 1)
<1>1. base.id \in Nat /\ base.dark \in Schemes \cup BOOLEAN
  BY DEF PageTypes, Bases
<1>2. /\ "switcher" \in C!Threads /\ "snapshot" \in Points /\ "x" \in C!Ports
      /\ 1 \in Zooms \cup {1} /\ w \in {"navigate"} \cup C!Requests
  BY DEF C!Threads, Points, C!Ports, C!Requests
<1>3. C!begin("switcher", "snapshot",
               [C!NoCall EXCEPT !.op = "rotate", !.what = w, !.base = base.id,
                                   !.dark = base.dark])
  BY DEF C!onPage
<1> DEFINE c == [C!NoCall EXCEPT !.op = "rotate", !.what = w, !.base = base.id,
                                   !.dark = base.dark]
<1>4. /\ c \in Calls /\ c.op = "rotate" /\ c.what = w /\ c.base = base.id
      /\ c.dark = base.dark /\ c.zoom = 1 /\ c.ctx = None /\ c.found = 0
  BY <1>1, <1>2 DEF Calls, C!NoCall, C!Ports, C!Requests
<1>5. C!begin("switcher", "snapshot", c)
  BY <1>3
<1> HIDE DEF c
<1> QED BY <1>2, <1>4, <1>5, Begun DEF Enters, CallsTyped

\* A request begins (handleZoom, handleTheme, handleMessage).
LEMMA AskEnters ==
  ASSUME PageTypes, NEW w \in C!Requests, NEW z \in Zooms \cup {1},
         NEW d \in Schemes \cup BOOLEAN, C!Ask(w, z, d)
  PROVE  Enters("setter", "snapshot", w, w, base.id, d, z)
<1>1. base.id \in Nat
  BY DEF PageTypes, Bases
<1>2. "setter" \in C!Threads /\ "snapshot" \in Points /\ "x" \in C!Ports
  BY DEF C!Threads, Points, C!Ports
<1>3. C!begin("setter", "snapshot",
               [C!NoCall EXCEPT !.op = w, !.what = w, !.base = base.id,
                                   !.zoom = z, !.dark = d])
  BY DEF C!Ask
<1> DEFINE c == [C!NoCall EXCEPT !.op = w, !.what = w, !.base = base.id,
                                   !.zoom = z, !.dark = d]
<1>4. /\ c \in Calls /\ c.op = w /\ c.what = w /\ c.base = base.id
      /\ c.dark = d /\ c.zoom = z /\ c.ctx = None /\ c.found = 0
  BY <1>1 DEF Calls, C!NoCall, C!Ports, C!Requests
<1>5. C!begin("setter", "snapshot", c)
  BY <1>3
<1> HIDE DEF c
<1> QED BY <1>2, <1>4, <1>5, Begun DEF Enters, CallsTyped

\* What a call does next.
LEMMA WentOn ==
  ASSUME PageTypes, NEW t \in C!Threads, NEW ok \in BOOLEAN, C!goesOn(t, ok),
         alone' = alone
  PROVE  /\ CallsTyped /\ base' \in Bases
         /\ \A o \in C!Threads \ {t} : threadPc'[o] = threadPc[o] /\ local'[o] = local[o]
         /\ IF local[t].op = "reattach" /\ local[t].what = "theme" /\ local[t].zoom # 1
            THEN /\ threadPc'[t] = "snapshot" /\ local'[t].what = "zoom" /\ base' = base
                 /\ local'[t].op = local[t].op /\ local'[t].zoom = local[t].zoom
                 /\ local'[t].dark = local[t].dark /\ local'[t].base = local[t].base
                 /\ local'[t].ctx = local[t].ctx /\ local'[t].found = local[t].found
            ELSE C!return(t, ok) /\ threadPc'[t] = "idle"
<1>1. CASE local[t].op = "reattach" /\ local[t].what = "theme" /\ local[t].zoom # 1
  <2>1. /\ threadPc' = [threadPc EXCEPT ![t] = "snapshot"]
        /\ local' = [local EXCEPT ![t] = [local[t] EXCEPT !.what = "zoom"]] /\ base' = base
    BY <1>1 DEF C!goesOn, C!goto
  <2>2. local[t] \in Calls /\ "snapshot" \in Points
    BY DEF PageTypes, Points
  <2> QED BY <1>1, <2>1, <2>2, CallChanges DEF CallsTyped, PageTypes
<1>2. CASE ~(local[t].op = "reattach" /\ local[t].what = "theme" /\ local[t].zoom # 1)
  <2>1. C!return(t, ok)
    BY <1>2 DEF C!goesOn
  <2> QED BY <1>2, <2>1, Returned DEF CallsTyped, PageTypes
<1> QED BY <1>1, <1>2

Same(t) ==
    \A o \in C!Threads \ {t} : threadPc'[o] = threadPc[o] /\ local'[o] = local[o]

Moves(t, p, q) ==
    threadPc[t] = p /\ threadPc'[t] = q /\ Same(t)

Closes ==
    /\ ctx' = None /\ driven' = driven \ {ctx}
    /\ \A c \in Conns : link'[c] = IF c = ctx THEN 0 ELSE link[c]

\* The locals of t that a step leaves alone.
KeepsBut(t, changed) ==
    /\ "op" \notin changed => local'[t].op = local[t].op
    /\ "what" \notin changed => local'[t].what = local[t].what
    /\ "base" \notin changed => local'[t].base = local[t].base
    /\ "dark" \notin changed => local'[t].dark = local[t].dark
    /\ "zoom" \notin changed => local'[t].zoom = local[t].zoom
    /\ "ctx" \notin changed => local'[t].ctx = local[t].ctx
    /\ "found" \notin changed => local'[t].found = local[t].found

LaunchedBy(t) ==
    /\ launched < MaxBrowsers /\ launched' = launched + 1
    /\ browser'.id = launched + 1 /\ browser'.zoom = 1
    /\ raced' <=> \E o \in C!Threads \ {t} : C!busy(o)

ReturnedBy(t, ok) ==
    /\ threadPc'[t] = "idle" /\ Same(t)
    /\ local'[t].base = 0 /\ local'[t].found = 0
    /\ local[t].op # "start" => base'.id = base.id
    /\ local[t].op = "start" =>
          base'.id = local[t].base /\ base'.dark = local[t].dark
    /\ local[t].op \in {"switch", "theme"} /\ ok /\ local[t].base = base.id =>
          base'.dark = local[t].dark
    /\ local[t].op \notin {"start", "switch", "theme"} => base' = base

GoesOnBy(t, ok) ==
    IF local[t].op = "reattach" /\ local[t].what = "theme" /\ local[t].zoom # 1
    THEN /\ threadPc'[t] = "snapshot" /\ local'[t].what = "zoom" /\ base' = base
         /\ KeepsBut(t, {"what"}) /\ Same(t)
    ELSE ReturnedBy(t, ok)

\* What a step of the controller does: one disjunct for each action, and one
\* for all those that begin a call.
Dies ==
    /\ browser'.id = 0
    /\ UNCHANGED <<ctx, zoom, link, driven, launched, base, threadPc, local, alone,
                   raced, connectors>>

Exits ==
    /\ Moves("loop", "idle", "dead") /\ local' = local /\ Closes
    /\ UNCHANGED <<zoom, browser, launched, base, alone, raced, connectors>>

GivesUp ==
    /\ Moves("loop", "dead", "idle") /\ local' = local
    /\ base'.id = base.id /\ base'.dark = base.dark
    /\ UNCHANGED <<ctx, zoom, link, driven, browser, launched, alone, raced, connectors>>

Relaunches ==
    /\ Enters("loop", "connect", "relaunch", "none", base.id, base.dark, 1)
    /\ threadPc["loop"] = "dead" /\ \A t \in C!Threads : threadPc[t] # "publish"
    /\ LaunchedBy("loop")
    /\ UNCHANGED <<ctx, zoom, link, driven, base, connectors>>

Stops ==
    /\ \E o \in {"off", "start"}, d \in Schemes \cup BOOLEAN :
          Enters("switcher", "stop", o, "none", 0, d, 1)
    /\ base'.id = 0 /\ browser'.id = 0
    /\ UNCHANGED <<ctx, zoom, link, driven, launched, raced, connectors>>

TurnsOff ==
    /\ threadPc["switcher"] = "stop" /\ ~C!busy("loop")
    /\ threadPc'["switcher"] = "idle" /\ threadPc'["loop"] = "idle"
    /\ threadPc'["setter"] = threadPc["setter"] /\ local' = local /\ Closes
    /\ UNCHANGED <<zoom, browser, launched, base, alone, raced, connectors>>

Starts ==
    /\ threadPc["switcher"] = "stop" /\ local["switcher"].op = "start"
    /\ ~C!busy("loop") /\ threadPc'["switcher"] = "connect" /\ threadPc'["loop"] = "idle"
    /\ threadPc'["setter"] = threadPc["setter"]
    /\ KeepsBut("switcher", {"base"}) /\ local'["switcher"].base = launched'
    /\ \A o \in C!Threads \ {"switcher"} : local'[o] = local[o]
    /\ LaunchedBy("switcher") /\ Closes
    /\ UNCHANGED <<zoom, base, alone, connectors>>

\* A switch in place, a re-attach, a rotation, a scroll, a request.
Begins ==
    /\ \E t \in C!Threads, p \in {"connect", "snapshot"},
          o \in {"switch", "reattach", "rotate", "zoom", "theme", "eval"},
          w \in {"none", "navigate", "zoom", "theme", "eval"},
          d \in Schemes \cup BOOLEAN, z \in Zooms \cup {1} :
          /\ Enters(t, p, o, w, base.id, d, z)
          /\ p = "connect" => t = "switcher" /\ o \in {"switch", "reattach"}
          /\ p = "snapshot" =>
                /\ C!attached
                /\ \/ w = "navigate" /\ o \in {"switch", "rotate"}
                   \/ w = "eval" /\ o \in {"rotate", "eval"}
                   \/ w = o /\ o \in {"zoom", "theme"}
          /\ t = "setter" => o \in C!Requests
          /\ o \in {"reattach", "rotate"} => d = base.dark
    /\ UNCHANGED <<ctx, zoom, link, driven, browser, launched, base, raced, connectors>>

Connects(t) ==
    /\ Moves(t, "connect", "wait") /\ local' = local /\ Closes
    /\ connectors' <=> connectors \/ \E o \in C!Threads \ {t} : C!connecting(o)
    /\ UNCHANGED <<zoom, browser, launched, base, alone, raced>>

Finds(t) ==
    /\ Moves(t, "wait", "run") /\ KeepsBut(t, {"found"})
    /\ local'[t].found # 0 /\ local'[t].found = browser.id
    /\ UNCHANGED <<ctx, zoom, link, driven, browser, launched, base, alone,
                   raced, connectors>>

Binds(t) ==
    \E c \in Conns :
        /\ Moves(t, "run", "publish") /\ KeepsBut(t, {"ctx"}) /\ local'[t].ctx = c
        /\ link[c] = 0 /\ \A o \in C!Threads : local[o].ctx # c
        /\ browser.id = local[t].found
        /\ \A d \in Conns : link'[d] = IF d = c THEN browser.id ELSE link[d]
        /\ UNCHANGED <<ctx, zoom, driven, browser, launched, base, alone, raced,
                       connectors>>

FailsToConnect(t) ==
    /\ threadPc[t] \in {"wait", "run"} /\ ReturnedBy(t, TRUE)
    /\ UNCHANGED <<ctx, zoom, link, driven, browser, launched, alone, raced, connectors>>

Publishes(t) ==
    LET again == local[t].op = "reattach" IN
    /\ Moves(t, "publish", IF again THEN "zoom" ELSE "snapshot")
    /\ ctx' = local[t].ctx
    /\ driven' = IF again THEN driven \cup {local[t].ctx} ELSE driven
    /\ KeepsBut(t, {"what"})
    /\ local'[t].what = IF again THEN "theme" ELSE "navigate"
    /\ UNCHANGED <<zoom, link, browser, launched, base, alone, raced, connectors>>

Reads(t) ==
    /\ Moves(t, "zoom", "snapshot") /\ KeepsBut(t, {"zoom"})
    /\ local'[t].zoom = zoom
    /\ UNCHANGED <<ctx, zoom, link, driven, browser, launched, base, alone,
                   raced, connectors>>

Snapshots(t) ==
    /\ C!attached /\ Moves(t, "snapshot", "act") /\ KeepsBut(t, {"ctx", "zoom"})
    /\ local'[t].ctx = ctx
    /\ local'[t].zoom = IF local[t].what = "navigate" THEN zoom ELSE local[t].zoom
    /\ UNCHANGED <<ctx, zoom, link, driven, browser, launched, base, alone,
                   raced, connectors>>

Acts(t) ==
    /\ threadPc[t] = "act" /\ Purpose(t)
    /\ browser'.id = browser.id
    /\ browser'.zoom = IF local[t].what \in {"navigate", "zoom"} THEN local[t].zoom
                       ELSE browser.zoom
    /\ browser'.dark = IF local[t].what \in {"navigate", "theme"} THEN local[t].dark
                       ELSE browser.dark
    /\ driven' = IF local[t].what = "navigate" THEN driven \cup {local[t].ctx}
                 ELSE driven
    /\ raced' <=> ~alone[t] \/ (raced /\ local[t].what # "navigate")
    /\ IF local[t].what = "zoom"
       THEN threadPc'[t] = "record" /\ Same(t) /\ KeepsBut(t, {}) /\ base' = base
       ELSE GoesOnBy(t, TRUE)
    /\ UNCHANGED <<ctx, zoom, link, launched, alone, connectors>>

Fails(t) ==
    /\ threadPc[t] = "act" \/ (threadPc[t] = "snapshot" /\ ~C!attached)
    /\ Purpose(t) /\ browser'.id = browser.id
    /\ IF local[t].found # 0 /\ local[t].what = "navigate"
       THEN threadPc'[t] = "drop" /\ Same(t) /\ KeepsBut(t, {}) /\ base' = base
       ELSE GoesOnBy(t, FALSE)
    /\ raced'
    /\ UNCHANGED <<ctx, zoom, link, driven, launched, alone, connectors>>

Records(t) ==
    /\ threadPc[t] = "record" /\ zoom' = local[t].zoom /\ ReturnedBy(t, TRUE)
    /\ UNCHANGED <<ctx, link, driven, browser, launched, alone, raced, connectors>>

Drops(t) ==
    /\ threadPc[t] = "drop" /\ Closes /\ ReturnedBy(t, TRUE)
    /\ UNCHANGED <<zoom, browser, launched, alone, raced, connectors>>

Stays ==
    UNCHANGED <<ctx, zoom, link, driven, browser, launched, base, threadPc, local,
                alone, raced, connectors>>

ThreadStep(t) ==
    \/ Connects(t) \/ Finds(t) \/ Binds(t) \/ FailsToConnect(t) \/ Publishes(t)
    \/ Reads(t) \/ Snapshots(t) \/ Acts(t) \/ Fails(t) \/ Records(t) \/ Drops(t)

PageStep ==
    \/ Dies \/ Exits \/ GivesUp \/ Relaunches \/ Stops \/ TurnsOff \/ Starts
    \/ Begins \/ Stays
    \/ \E t \in C!Threads : ThreadStep(t)

\* What each action does, from its definition.
LEMMA RelaunchDoes ==
  ASSUME PageTypes, C!Relaunch
  PROVE  Relaunches
<1>1. C!launch("loop", base.port) /\ base.port \in C!Ports /\ "loop" \in C!Threads
  BY DEF C!Relaunch, C!Threads, PageTypes, Bases
<1>2. LaunchedBy("loop")
  BY <1>1, Launched DEF LaunchedBy
<1> QED BY <1>2, RelaunchEnters DEF Relaunches, C!Relaunch, C!closes, PageTypes,
           Pages

\* startPrimary launches the next Chromium, and goes on to connect.
LEMMA StartPrimaryDoes ==
  ASSUME PageTypes, C!StartPrimary
  PROVE  Starts
<1> DEFINE c == local["switcher"]
<1>1. /\ C!launch("switcher", c.port) /\ "switcher" \in C!Threads /\ c \in Calls
  BY DEF C!StartPrimary, C!Threads, PageTypes
<1>2. c.port \in C!Ports
  BY <1>1, CallFields
<1>3. LaunchedBy("switcher")
  BY <1>1, <1>2, Launched DEF LaunchedBy
<1>4. Closes
  BY DEF C!StartPrimary, C!Detach, Closes, PageTypes
<1>5. /\ KeepsBut("switcher", {"base"}) /\ local'["switcher"].base = launched + 1
      /\ \A o \in C!Threads \ {"switcher"} : local'[o] = local[o]
  <2>1. local' = [local EXCEPT !["switcher"].base = launched + 1]
    BY <1>3 DEF C!StartPrimary, LaunchedBy
  <2> QED BY <1>1, <2>1 DEF KeepsBut, PageTypes, Calls
<1> QED BY <1>1, <1>3, <1>4, <1>5
        DEF Starts, C!StartPrimary, PageTypes, C!Threads, LaunchedBy

\* connect lets go of what was held.
LEMMA ConnectDoes ==
  ASSUME PageTypes, NEW t \in C!Threads, C!Connect(t)
  PROVE  Connects(t)
  BY DEF Connects, C!Connect, C!goto, C!Detach, C!kiosk, Moves, Same, Closes,
     PageTypes

\* waitForPageTarget finds the page of the Chromium that runs.
LEMMA PageTargetDoes ==
  ASSUME PageTypes, NEW t \in C!Threads, C!PageTarget(t)
  PROVE  Finds(t)
  BY DEF Finds, C!PageTarget, C!goto, C!fields, C!kiosk, C!hist, Moves, Same,
     KeepsBut,
     PageTypes, Calls

\* The socket is opened to the Chromium that was found.
LEMMA BindDoes ==
  ASSUME PageTypes, NEW t \in C!Threads, C!Bind(t)
  PROVE  Binds(t)
<1>1. PICK c \in C!unused : /\ link' = [link EXCEPT ![c] = browser.id]
                            /\ local' = [local EXCEPT ![t].ctx = c]
  BY DEF C!Bind
<1>2. c \in Conns /\ link[c] = 0 /\ \A o \in C!Threads : local[o].ctx # c
  BY DEF C!unused
<1>3. Moves(t, "run", "publish") /\ KeepsBut(t, {"ctx"}) /\ local'[t].ctx = c
  BY <1>1, <1>2 DEF C!Bind, C!goto, Moves, Same, KeepsBut, PageTypes, Calls
<1>4. \A d \in Conns : link'[d] = IF d = c THEN browser.id ELSE link[d]
  BY <1>1, <1>2 DEF PageTypes
<1>5. UNCHANGED <<ctx, zoom, driven, browser, launched, base, alone, raced, connectors>>
  BY DEF C!Bind, C!fields, C!kiosk, C!hist
<1>6. browser.id = local[t].found
  BY DEF C!Bind
<1> QED BY <1>2, <1>3, <1>4, <1>5, <1>6 DEF Binds

\* A return, field by field.
LEMMA ReturnDoes ==
  ASSUME PageTypes, NEW t \in C!Threads, NEW ok \in BOOLEAN, C!return(t, ok)
  PROVE  ReturnedBy(t, ok)
  BY Returned DEF ReturnedBy, Same

\* The connection is published over the one that was held.
LEMMA PublishDoes ==
  ASSUME PageTypes, NEW t \in C!Threads, C!Publish(t)
  PROVE  Publishes(t)
  BY DEF Publishes, C!Publish, C!goto, C!kiosk, C!hist, Moves, Same, KeepsBut,
     PageTypes, Calls

\* Reattach reads the zoom.
LEMMA ReadZoomDoes ==
  ASSUME PageTypes, NEW t \in C!Threads, C!ReadZoom(t)
  PROVE  Reads(t)
  BY DEF Reads, C!ReadZoom, C!goto, C!fields, C!kiosk, C!hist, Moves, Same,
     KeepsBut,
     PageTypes, Calls

\* A call reads the connection, and a navigation the zoom.
LEMMA SnapshotDoes ==
  ASSUME PageTypes, NEW t \in C!Threads, C!Snapshot(t)
  PROVE  Snapshots(t)
  BY DEF Snapshots, C!Snapshot, C!goto, C!fields, C!kiosk, C!hist, Moves, Same,
     KeepsBut,
     PageTypes, Calls

\* What a call does next, field by field.
LEMMA GoesOnDoes ==
  ASSUME PageTypes, NEW t \in C!Threads, NEW ok \in BOOLEAN, C!goesOn(t, ok),
         alone' = alone
  PROVE  GoesOnBy(t, ok)
  BY WentOn, ReturnDoes DEF GoesOnBy, KeepsBut, Same

\* The command succeeds: the page has the look the call wanted.
LEMMA ActDoes ==
  ASSUME PageTypes, Phases, NEW t \in C!Threads, C!Act(t)
  PROVE  Acts(t)
<1>1. Purpose(t) /\ threadPc[t] = "act" /\ browser' = C!looks(t)
  BY DEF C!Act, Phases
<1>2. CASE local[t].what = "zoom"
  <2>1. threadPc' = [threadPc EXCEPT ![t] = "record"] /\ local' = local /\ base' = base
    BY <1>2 DEF C!Act, C!goto
  <2>2. threadPc'[t] = "record" /\ Same(t) /\ KeepsBut(t, {})
    BY <2>1 DEF Same, KeepsBut, PageTypes
  <2> QED BY <1>1, <1>2, <2>1, <2>2, Looked DEF Acts, C!Act, C!fields
<1>3. CASE local[t].what # "zoom"
  <2>1. C!goesOn(t, TRUE) /\ alone' = alone
    BY <1>3 DEF C!Act
  <2>2. GoesOnBy(t, TRUE)
    BY <2>1, GoesOnDoes
  <2> QED BY <1>1, <1>3, <2>2, Looked DEF Acts, C!Act, C!fields
<1> QED BY <1>2, <1>3

\* The command fails: an attach goes on to drop the connection.
LEMMA ActFailsDoes ==
  ASSUME PageTypes, Phases, NEW t \in C!Threads, C!ActFails(t)
  PROVE  Fails(t)
<1>1. Purpose(t) /\ browser' \in {browser, C!looks(t), [C!looks(t) EXCEPT !.zoom = 1]}
  BY DEF C!ActFails, Phases
<1>2. browser'.id = browser.id
  BY <1>1, Looked
<1>a. /\ threadPc[t] = "act" \/ (threadPc[t] = "snapshot" /\ ~C!attached)
      /\ raced' = TRUE /\ UNCHANGED <<ctx, zoom, link, driven, launched, alone, connectors>>
  <2>1. threadPc[t] = "act" \/ (threadPc[t] = "snapshot" /\ ~C!attached)
    BY DEF C!ActFails
  <2>2. raced' = TRUE /\ UNCHANGED <<ctx, zoom, link, driven, launched, alone, connectors>>
    BY DEF C!ActFails, C!fields
  <2> QED BY <2>1, <2>2
<1>3. CASE local[t].found # 0 /\ local[t].what = "navigate"
  <2>1. threadPc' = [threadPc EXCEPT ![t] = "drop"] /\ local' = local /\ base' = base
    BY <1>3 DEF C!ActFails, C!goto
  <2>2. threadPc'[t] = "drop" /\ Same(t) /\ KeepsBut(t, {})
    BY <2>1 DEF Same, KeepsBut, PageTypes
  <2> QED BY <1>a, <1>1, <1>2, <1>3, <2>1, <2>2 DEF Fails
<1>4. CASE ~(local[t].found # 0 /\ local[t].what = "navigate")
  <2>1. C!goesOn(t, FALSE) /\ alone' = alone
    BY <1>4 DEF C!ActFails
  <2>2. GoesOnBy(t, FALSE)
    BY <2>1, GoesOnDoes
  <2> QED BY <1>a, <1>1, <1>2, <1>4, <2>2 DEF Fails
<1> QED BY <1>3, <1>4

\* The zoom is recorded.
LEMMA RecordDoes ==
  ASSUME PageTypes, NEW t \in C!Threads, C!Record(t)
  PROVE  Records(t)
  BY ReturnDoes DEF Records, C!Record, C!closes, C!hist

\* The connection is dropped.
LEMMA DropDoes ==
  ASSUME PageTypes, NEW t \in C!Threads, C!Drop(t)
  PROVE  Drops(t)
<1>1. Closes
  BY DEF C!Drop, C!Detach, Closes, PageTypes
<1> QED BY <1>1, ReturnDoes DEF Drops, C!Drop, C!hist

\* The kiosk is forgotten, and its Chromium killed.
LEMMA StopBaseDoes ==
  ASSUME PageTypes, NEW o \in {"off", "start"}, NEW p \in C!Ports,
         NEW d \in Schemes \cup BOOLEAN, C!StopBase(o, p, d)
  PROVE  Stops
<1>1. Enters("switcher", "stop", o, "none", 0, d, 1)
  BY StopBaseEnters
<1>2. base'.id = 0 /\ browser'.id = 0
  BY DEF C!StopBase, C!NoBase, C!NoBrowser
<1> QED BY <1>1, <1>2 DEF C!StopBase, C!fields, Stops

\* A call that begins changes nothing but its own locals.
LEMMA BeginDoes ==
  ASSUME PageTypes, NEW d \in Schemes \cup BOOLEAN, NEW z \in Zooms \cup {1},
         NEW w \in C!Requests, NEW v \in {"navigate", "eval"},
         C!InPlace(d) \/ C!ReattachWeb \/ C!onPage(v) \/ C!Ask(w, z, d)
  PROVE  Begins
<1>1. {"switcher", "setter"} \subseteq C!Threads
  BY DEF C!Threads
<1>2. base.dark \in Schemes \cup BOOLEAN /\ 1 \in Zooms \cup {1}
  BY DEF PageTypes, Bases
<1>3. CASE C!InPlace(d)
  <2>1. UNCHANGED <<ctx, zoom, link, driven, browser, launched, base, raced, connectors>>
    BY <1>3 DEF C!InPlace, C!closes, C!kiosk
  <2>2. PICK p \in {"connect", "snapshot"} :
           /\ p = "snapshot" => C!attached
           /\ Enters("switcher", p, "switch", "navigate", base.id, d, 1)
    BY <1>3, InPlaceEnters
  <2> QED BY <1>1, <1>2, <2>1, <2>2 DEF Begins
<1>4. CASE C!ReattachWeb
  <2>1. UNCHANGED <<ctx, zoom, link, driven, browser, launched, base, raced, connectors>>
    BY <1>4 DEF C!ReattachWeb, C!closes, C!kiosk
  <2>2. Enters("switcher", "connect", "reattach", "none", base.id, base.dark, 1)
    BY <1>4, ReattachWebEnters
  <2> QED BY <1>1, <1>2, <2>1, <2>2 DEF Begins
<1>5. CASE C!onPage(v)
  <2>1. /\ UNCHANGED <<ctx, zoom, link, driven, browser, launched, base, raced, connectors>>
        /\ C!attached
    BY <1>5 DEF C!onPage, C!fields, C!kiosk
  <2>2. Enters("switcher", "snapshot", "rotate", v, base.id, base.dark, 1)
    BY <1>5, onPageEnters
  <2> QED BY <1>1, <1>2, <2>1, <2>2 DEF Begins
<1>6. CASE C!Ask(w, z, d)
  <2>1. /\ UNCHANGED <<ctx, zoom, link, driven, browser, launched, base, raced, connectors>>
        /\ C!attached
    BY <1>6 DEF C!Ask, C!fields, C!kiosk
  <2>2. Enters("setter", "snapshot", w, w, base.id, d, z)
    BY <1>6, AskEnters
  <2>3. w \in {"zoom", "theme", "eval"} /\ w \in C!Requests
    BY DEF C!Requests
  <2> QED BY <1>1, <1>2, <2>1, <2>2, <2>3 DEF Begins
<1> QED BY <1>3, <1>4, <1>5, <1>6

\* Off ends with nothing held.
LEMMA OffDoes ==
  ASSUME PageTypes, C!Off
  PROVE  TurnsOff
<1>1. Closes
  BY DEF C!Off, C!Detach, Closes, PageTypes
<1> QED BY <1>1 DEF C!Off, C!kiosk, C!hist, C!Threads, TurnsOff, PageTypes

\* What the loop of the runner does without a connection to make.
LEMMA LoopDoes ==
  ASSUME PageTypes
  PROVE  /\ C!ExitHook => Exits
         /\ C!GiveUp => GivesUp
         /\ C!BrowserDies => Dies
<1>1. C!Detach => Closes
  BY DEF C!Detach, Closes, PageTypes
<1>2. C!ExitHook => Exits
  BY <1>1 DEF C!ExitHook, C!goto, C!kiosk, C!hist, Exits, Moves, Same, PageTypes,
     C!Threads
<1>3. C!GiveUp => GivesUp
  BY DEF C!GiveUp, C!goto, C!fields, C!hist, GivesUp, Moves, Same, PageTypes, Bases,
     C!Threads
<1>4. C!BrowserDies => Dies
  BY DEF C!BrowserDies, C!NoBrowser, C!fields, C!hist, Dies
<1> QED BY <1>2, <1>3, <1>4

\* No page, or no connection: the call returns.
LEMMA ConnectFailsDoes ==
  ASSUME PageTypes, NEW t \in C!Threads, C!ConnectFails(t)
  PROVE  FailsToConnect(t)
<1>1. ReturnedBy(t, TRUE)
  BY ReturnDoes DEF C!ConnectFails
<1> QED BY <1>1 DEF C!ConnectFails, C!fields, C!hist, FailsToConnect

\* Every step of the controller is one of those.
LEMMA StepsDo ==
  ASSUME PageTypes, Phases, [C!Next]_(C!vars)
  PROVE  PageStep
<1>1. CASE C!BrowserDies \/ C!ExitHook \/ C!GiveUp
  BY <1>1, LoopDoes DEF PageStep
<1>2. CASE C!Relaunch \/ C!Off \/ C!StartPrimary
  BY <1>2, RelaunchDoes, OffDoes, StartPrimaryDoes DEF PageStep
<1>3. ASSUME NEW o \in {"off", "start"}, NEW p \in C!Ports,
             NEW d \in Schemes \cup {FALSE}, C!StopBase(o, p, d)
      PROVE  PageStep
  BY <1>3, StopBaseDoes DEF PageStep
<1>4. ASSUME NEW d \in Schemes \cup {FALSE}, NEW z \in Zooms \cup {1},
             NEW w \in C!Requests, NEW v \in {"navigate", "eval"},
             C!InPlace(d) \/ C!ReattachWeb \/ C!onPage(v) \/ C!Ask(w, z, d)
      PROVE  PageStep
  BY <1>4, BeginDoes DEF PageStep
<1>5. ASSUME NEW t \in C!Threads,
             \/ C!Connect(t) \/ C!PageTarget(t) \/ C!Bind(t) \/ C!ConnectFails(t)
             \/ C!Publish(t) \/ C!ReadZoom(t) \/ C!Snapshot(t) \/ C!Act(t)
             \/ C!ActFails(t) \/ C!Record(t) \/ C!Drop(t)
      PROVE  PageStep
  <2>1. ThreadStep(t)
    BY <1>5, ConnectDoes, PageTargetDoes, BindDoes, ConnectFailsDoes, PublishDoes,
       ReadZoomDoes, SnapshotDoes, ActDoes, ActFailsDoes, RecordDoes, DropDoes
       DEF ThreadStep
  <2> QED BY <2>1 DEF PageStep
<1>6. CASE UNCHANGED C!vars
  BY <1>6 DEF C!vars, C!fields, C!kiosk, C!hist, Stays, PageStep
<1>7. "eval" \in C!Requests /\ "zoom" \in C!Requests /\ "theme" \in C!Requests
  BY DEF C!Requests
<1> QED
  BY <1>1, <1>2, <1>3, <1>4, <1>5, <1>6, <1>7
     DEF C!Next, C!NavigateIfWeb, C!AdvanceDocument, C!handleZoom, C!handleTheme,
         C!handleMessage, C!Screenshot, C!Ports

-----------------------------------------------------------------------------
(* Each part of the invariant is kept *)

\* Every step of the controller keeps the types of what it holds.
LEMMA TypesStep ==
  ASSUME PageTypes, Phases, [C!Next]_(C!vars)
  PROVE  PageTypes'
<1> USE DEF C!Ports, C!Requests
<1>1. CASE C!BrowserDies
  BY <1>1 DEF C!BrowserDies, C!NoBrowser, C!fields, C!hist, PageTypes, Pages
<1>2. CASE C!ExitHook
  BY <1>2 DEF C!ExitHook, C!Detach, C!goto, C!kiosk, C!hist, PageTypes, Points
<1>3. CASE C!GiveUp
  BY <1>3 DEF C!GiveUp, C!goto, C!fields, C!hist, PageTypes, Points, Bases
<1>4. CASE C!Relaunch
  <2>1. C!launch("loop", base.port) /\ base.port \in C!Ports /\ "loop" \in C!Threads
    BY <1>4 DEF C!Relaunch, C!Threads, PageTypes, Bases
  <2>2. /\ launched' \in Nat /\ browser' \in Pages /\ raced' \in BOOLEAN
    BY <2>1, Launched
  <2>3. CallsTyped
    BY <1>4, RelaunchEnters DEF Enters
  <2>4. port' \in C!Ports
    BY <1>4 DEF C!Relaunch, C!Target, PageTypes, C!Ports
  <2>5. UNCHANGED <<ctx, zoom, link, base, connectors>>
    BY <1>4 DEF C!Relaunch, C!closes
  <2> QED BY <2>2, <2>3, <2>4, <2>5 DEF PageTypes, CallsTyped
<1>5. CASE C!Off
  BY <1>5 DEF C!Off, C!Detach, C!kiosk, C!hist, PageTypes, Points
<1>6. CASE C!StartPrimary
  <2> DEFINE c == local["switcher"]
  <2>1. /\ C!launch("switcher", c.port) /\ "switcher" \in C!Threads /\ c \in Calls
    BY <1>6 DEF C!StartPrimary, C!Threads, PageTypes
  <2>2. c.port \in C!Ports
    BY <2>1, CallFields
  <2>3. /\ launched' \in Nat /\ browser' \in Pages /\ raced' \in BOOLEAN
    BY <2>1, <2>2, Launched
  <2>4. local' \in [C!Threads -> Calls]
    BY <1>6, <2>1, <2>3 DEF C!StartPrimary, PageTypes, Calls
  <2>5. threadPc' \in [C!Threads -> Points]
    BY <1>6 DEF C!StartPrimary, PageTypes, Points
  <2>6. /\ ctx' = None /\ link' \in [Conns -> Nat] /\ port' \in C!Ports
    BY <1>6, <2>2 DEF C!StartPrimary, C!Detach, C!Target, PageTypes
  <2>7. UNCHANGED <<zoom, base, alone, connectors>>
    BY <1>6 DEF C!StartPrimary
  <2> QED BY <2>3, <2>4, <2>5, <2>6, <2>7 DEF PageTypes
<1>7. ASSUME NEW op \in {"off", "start"}, NEW p \in C!Ports,
             NEW d \in Schemes \cup {FALSE}, C!StopBase(op, p, d)
      PROVE  PageTypes'
  <2>1. CallsTyped
    BY <1>7, StopBaseEnters DEF Enters
  <2>2. UNCHANGED <<ctx, zoom, port, link, launched, raced, connectors>>
    BY <1>7 DEF C!StopBase, C!fields
  <2>3. base' \in Bases /\ browser' \in Pages
    BY <1>7 DEF C!StopBase, C!NoBase, C!NoBrowser, Bases, Pages
  <2> QED BY <2>1, <2>2, <2>3 DEF PageTypes, CallsTyped
<1>8. ASSUME NEW d \in Schemes, C!InPlace(d)
      PROVE  PageTypes'
  <2>1. CallsTyped
    BY <1>8, InPlaceEnters DEF Enters
  <2>2. /\ port' \in C!Ports
        /\ UNCHANGED <<ctx, zoom, link, launched, browser, base, raced, connectors>>
    BY <1>8 DEF C!InPlace, C!Target, PageTypes, Bases, C!closes, C!kiosk
  <2> QED BY <2>1, <2>2 DEF PageTypes, CallsTyped
<1>9. CASE C!ReattachWeb
  <2>1. CallsTyped
    BY <1>9, ReattachWebEnters DEF Enters
  <2>2. /\ port' \in C!Ports
        /\ UNCHANGED <<ctx, zoom, link, launched, browser, base, raced, connectors>>
    BY <1>9 DEF C!ReattachWeb, C!Target, PageTypes, Bases, C!closes, C!kiosk
  <2> QED BY <2>1, <2>2 DEF PageTypes, CallsTyped
<1>10. ASSUME NEW w \in {"navigate", "eval"}, C!onPage(w)
      PROVE  PageTypes'
  <2>1. CallsTyped
    BY <1>10, onPageEnters DEF Enters
  <2>2. UNCHANGED <<ctx, zoom, port, link, launched, browser, base, raced, connectors>>
    BY <1>10 DEF C!onPage, C!fields, C!kiosk
  <2> QED BY <2>1, <2>2 DEF PageTypes, CallsTyped
<1>11. ASSUME NEW w \in C!Requests, NEW z \in Zooms \cup {1},
              NEW d \in Schemes \cup {FALSE}, C!Ask(w, z, d)
      PROVE  PageTypes'
  <2>1. CallsTyped
    BY <1>11, AskEnters DEF Enters
  <2>2. UNCHANGED <<ctx, zoom, port, link, launched, browser, base, raced, connectors>>
    BY <1>11 DEF C!Ask, C!fields, C!kiosk
  <2> QED BY <2>1, <2>2 DEF PageTypes, CallsTyped
<1>12. ASSUME NEW t \in C!Threads, C!Connect(t)
      PROVE  PageTypes'
  BY <1>12 DEF C!Connect, C!Detach, C!goto, C!kiosk, PageTypes, Points
<1>13. ASSUME NEW t \in C!Threads, C!PageTarget(t)
      PROVE  PageTypes'
  BY <1>13 DEF C!PageTarget, C!goto, C!fields, C!kiosk, C!hist, PageTypes, Points,
     Calls, Pages
<1>14. ASSUME NEW t \in C!Threads, C!Bind(t)
      PROVE  PageTypes'
  BY <1>14 DEF C!Bind, C!unused, C!goto, C!fields, C!kiosk, C!hist, PageTypes,
     Points, Calls, Pages
<1>15. ASSUME NEW t \in C!Threads, C!ConnectFails(t)
      PROVE  PageTypes'
  <2>1. /\ C!return(t, TRUE)
        /\ UNCHANGED <<ctx, zoom, port, link, browser, launched, alone, raced, connectors>>
    BY <1>15 DEF C!ConnectFails, C!fields, C!hist
  <2> QED BY <2>1, Returned DEF PageTypes
<1>16. ASSUME NEW t \in C!Threads, C!Publish(t)
      PROVE  PageTypes'
  BY <1>16 DEF C!Publish, C!goto, C!fields, C!kiosk, C!hist, PageTypes, Points,
     Calls, Pages
<1>17. ASSUME NEW t \in C!Threads, C!ReadZoom(t)
      PROVE  PageTypes'
  BY <1>17 DEF C!ReadZoom, C!goto, C!fields, C!kiosk, C!hist, PageTypes, Points,
     Calls, Pages, C!Threads, C!NoCall, C!NoBrowser, C!NoBase, Bases
<1>18. ASSUME NEW t \in C!Threads, C!Snapshot(t)
      PROVE  PageTypes'
  BY <1>18 DEF C!Snapshot, C!goto, C!fields, C!kiosk, C!hist, PageTypes, Points,
     Calls, Pages, C!Threads, C!NoCall, C!NoBrowser, C!NoBase, Bases
<1>19. ASSUME NEW t \in C!Threads, C!Act(t)
      PROVE  PageTypes'
  <2>1. Purpose(t) /\ browser' = C!looks(t)
    BY <1>19 DEF C!Act, Phases
  <2>2. CallsTyped /\ base' \in Bases
    <3>1. CASE local[t].what = "zoom"
      BY <1>19, <3>1 DEF C!Act, PageTypes, CallsTyped, Points, C!goto
    <3>2. CASE local[t].what # "zoom"
      <4>1. C!goesOn(t, TRUE) /\ alone' = alone
        BY <1>19, <3>2 DEF C!Act
      <4> QED BY <4>1, WentOn
    <3> QED BY <3>1, <3>2
  <2>3. browser' \in Pages
    BY <2>1, Looked
  <2>4. raced' \in BOOLEAN
    BY <1>19 DEF C!Act, PageTypes
  <2>5. UNCHANGED <<ctx, zoom, port, link, launched, connectors>>
    BY <1>19 DEF C!Act, C!fields
  <2> QED BY <2>2, <2>3, <2>4, <2>5 DEF PageTypes, CallsTyped
<1>20. ASSUME NEW t \in C!Threads, C!ActFails(t)
      PROVE  PageTypes'
  <2>1. Purpose(t)
    BY <1>20 DEF C!ActFails, Phases
  <2>2. CallsTyped /\ base' \in Bases
    <3>1. CASE local[t].found # 0 /\ local[t].what = "navigate"
      BY <1>20, <3>1 DEF C!ActFails, PageTypes, CallsTyped, Points, C!goto
    <3>2. CASE ~(local[t].found # 0 /\ local[t].what = "navigate")
      <4>1. C!goesOn(t, FALSE) /\ alone' = alone
        BY <1>20, <3>2 DEF C!ActFails
      <4> QED BY <4>1, WentOn
    <3> QED BY <3>1, <3>2
  <2>3. browser' \in Pages
    <3>1. browser' \in {browser, C!looks(t), [C!looks(t) EXCEPT !.zoom = 1]}
      BY <1>20 DEF C!ActFails
    <3> QED BY <2>1, <3>1, Looked DEF PageTypes
  <2>4. raced' = TRUE /\ UNCHANGED <<ctx, zoom, port, link, launched, connectors>>
    BY <1>20 DEF C!ActFails, C!fields
  <2> QED BY <2>2, <2>3, <2>4 DEF PageTypes, CallsTyped
<1>21. ASSUME NEW t \in C!Threads, C!Record(t)
      PROVE  PageTypes'
  <2>1. /\ C!return(t, TRUE)
        /\ UNCHANGED <<ctx, port, link, browser, launched, alone, raced, connectors>>
    BY <1>21 DEF C!Record, C!closes, C!hist
  <2>2. /\ threadPc' \in [C!Threads -> Points]
        /\ local' \in [C!Threads -> Calls] /\ base' \in Bases
    BY <2>1, Returned
  <2>3. local[t] \in Calls /\ zoom' = local[t].zoom
    BY <1>21 DEF C!Record, PageTypes
  <2>4. zoom' \in Zooms \cup {1}
    BY <2>3, CallFields
  <2> QED BY <2>1, <2>2, <2>4 DEF PageTypes
<1>22. ASSUME NEW t \in C!Threads, C!Drop(t)
      PROVE  PageTypes'
  <2>1. /\ C!return(t, TRUE)
        /\ UNCHANGED <<zoom, port, browser, launched, alone, raced, connectors>>
    BY <1>22 DEF C!Drop, C!hist
  <2>2. /\ threadPc' \in [C!Threads -> Points]
        /\ local' \in [C!Threads -> Calls] /\ base' \in Bases
    BY <2>1, Returned
  <2>3. ctx' = None /\ link' \in [Conns -> Nat]
    BY <1>22 DEF C!Drop, C!Detach, PageTypes
  <2> QED BY <2>1, <2>2, <2>3 DEF PageTypes
<1>23. CASE UNCHANGED C!vars
  BY <1>23 DEF C!vars, C!fields, C!kiosk, C!hist, PageTypes
<1> QED
  BY <1>1, <1>2, <1>3, <1>4, <1>5, <1>6, <1>7, <1>8, <1>9, <1>10, <1>11, <1>12,
     <1>13, <1>14, <1>15, <1>16, <1>17, <1>18, <1>19, <1>20, <1>21, <1>22, <1>23
     DEF C!Next, C!NavigateIfWeb, C!AdvanceDocument, C!handleZoom, C!handleTheme,
         C!handleMessage, C!Screenshot, C!Ports, C!Requests

\* What a call is for, and where it has come to, agree.
LEMMA PhasesStep ==
  ASSUME PageTypes, PageTypes', Phases, PageStep
  PROVE  Phases'
<1> USE DEF Phases, Purpose, PageTypes, C!busy, C!Threads, C!Requests
<1>1. CASE Dies \/ GivesUp \/ Stays
  BY <1>1 DEF Dies, GivesUp, Moves, Same, Stays
<1>2. CASE Exits \/ TurnsOff
  BY <1>2 DEF Exits, Moves, Same, Closes, TurnsOff
<1>3. CASE Relaunches
  BY <1>3 DEF Relaunches, Enters, LaunchedBy
<1>4. CASE Stops
  BY <1>4 DEF Stops, Enters
<1>5. CASE Starts
  BY <1>5 DEF Starts, LaunchedBy, Closes, KeepsBut
<1>6. CASE Begins
  BY <1>6 DEF Begins, Enters
<1>7. ASSUME NEW t \in C!Threads, ThreadStep(t)
       PROVE  Phases'
  <2>1. CASE Connects(t)
    BY <2>1 DEF Connects, Moves, Same, Closes
  <2>2. CASE Finds(t) \/ Reads(t) \/ Snapshots(t)
    BY <2>2 DEF Finds, Moves, Same, KeepsBut, Reads, Snapshots
  <2>3. CASE Binds(t)
    BY <2>3 DEF Binds, Moves, Same, KeepsBut
  <2>4. CASE FailsToConnect(t)
    BY <2>4 DEF FailsToConnect, ReturnedBy, Same
  <2>5. CASE Publishes(t)
    BY <2>5 DEF Publishes, Moves, Same, KeepsBut
  <2>6. CASE Acts(t)
    BY <2>6 DEF Acts, GoesOnBy, ReturnedBy, Same, KeepsBut
  <2>7. CASE Fails(t)
    BY <2>7 DEF Fails, GoesOnBy, ReturnedBy, Same, KeepsBut
  <2>8. CASE Records(t)
    BY <2>8 DEF Records, ReturnedBy, Same
  <2>9. CASE Drops(t)
    BY <2>9 DEF Drops, Closes, ReturnedBy, Same
  <2> QED
    BY <1>7, <2>1, <2>2, <2>3, <2>4, <2>5, <2>6, <2>7, <2>8, <2>9
       DEF ThreadStep
<1> QED
  BY <1>1, <1>2, <1>3, <1>4, <1>5, <1>6, <1>7 DEF PageStep

\* A launch counts one Chromium more; a connection is bound to the one that runs.
LEMMA LinksKnownStep ==
  ASSUME PageTypes, PageTypes', Phases, LinksKnown, PageStep
  PROVE  LinksKnown'
<1> USE DEF LinksKnown, PageTypes, Pages
<1>1. CASE Dies \/ GivesUp \/ Stays
  BY <1>1 DEF Dies, GivesUp, Moves, Same, Stays
<1>2. CASE Exits \/ TurnsOff
  BY <1>2 DEF Exits, Moves, Same, Closes, TurnsOff
<1>3. CASE Relaunches
  BY <1>3 DEF Relaunches, Enters, LaunchedBy
<1>4. CASE Stops
  BY <1>4 DEF Stops, Enters
<1>5. CASE Starts
  BY <1>5 DEF Starts, LaunchedBy, Closes, KeepsBut
<1>6. CASE Begins
  BY <1>6 DEF Begins, Enters
<1>7. ASSUME NEW t \in C!Threads, ThreadStep(t)
       PROVE  LinksKnown'
  <2>1. CASE Connects(t)
    BY <2>1 DEF Connects, Moves, Same, Closes
  <2>2. CASE Finds(t) \/ Reads(t) \/ Snapshots(t)
    BY <2>2 DEF Finds, Moves, Same, KeepsBut, Reads, Snapshots
  <2>3. CASE Binds(t)
    BY <2>3 DEF Binds, Moves, Same, KeepsBut
  <2>4. CASE FailsToConnect(t)
    BY <2>4 DEF FailsToConnect, ReturnedBy, Same
  <2>5. CASE Publishes(t)
    BY <2>5 DEF Publishes, Moves, Same, KeepsBut
  <2>6. CASE Acts(t)
    BY <2>6 DEF Acts, GoesOnBy, ReturnedBy, Same, KeepsBut
  <2>7. CASE Fails(t)
    BY <2>7 DEF Fails, GoesOnBy, ReturnedBy, Same, KeepsBut
  <2>8. CASE Records(t)
    BY <2>8 DEF Records, ReturnedBy, Same
  <2>9. CASE Drops(t)
    BY <2>9 DEF Drops, Closes, ReturnedBy, Same
  <2> QED
    BY <1>7, <2>1, <2>2, <2>3, <2>4, <2>5, <2>6, <2>7, <2>8, <2>9
       DEF ThreadStep
<1> QED
  BY <1>1, <1>2, <1>3, <1>4, <1>5, <1>6, <1>7 DEF PageStep

\* A launch is counted, and a call keeps numbers of what was launched.
LEMMA BoundedStep ==
  ASSUME PageTypes, PageTypes', LinksKnown, Published, Bounded, PageStep
  PROVE  Bounded'
<1> USE DEF Bounded, PageTypes, Pages, Bases, C!attached, LinksKnown
<1>0. /\ launched \in Nat /\ browser.id \in Nat /\ base.id \in Nat
      /\ MaxBrowsers \in Nat /\ "switcher" \in C!Threads
      /\ \A t \in C!Threads : local[t].base \in Nat /\ local[t].found \in Nat
  BY BoundAssumption, CallFields DEF C!Threads
<1>1. CASE Dies \/ GivesUp \/ Stays
  BY <1>0, <1>1 DEF Dies, GivesUp, Moves, Same, Stays
<1>2. CASE Exits \/ TurnsOff
  BY <1>0, <1>2 DEF Exits, Moves, Same, Closes, TurnsOff, C!Threads
<1>3. CASE Relaunches
  BY <1>0, <1>3 DEF Relaunches, Enters, LaunchedBy
<1>4. CASE Stops
  BY <1>0, <1>4 DEF Stops, Enters
<1>5. CASE Starts
  BY <1>0, <1>5 DEF Starts, LaunchedBy, Closes, KeepsBut, C!Threads
<1>6. CASE Begins
  BY <1>0, <1>6 DEF Begins, Enters
<1>7. ASSUME NEW t \in C!Threads, ThreadStep(t)
      PROVE  Bounded'
  <2> USE <1>0
  <2>1. CASE Connects(t)
    BY <2>1 DEF Connects, Moves, Same, Closes
  <2>2. CASE Finds(t) \/ Reads(t) \/ Snapshots(t)
    BY <2>2 DEF Finds, Moves, Same, KeepsBut, Reads, Snapshots
  <2>3. CASE Binds(t)
    BY <2>3 DEF Binds, Moves, Same, KeepsBut
  <2>4. CASE FailsToConnect(t)
    BY <2>4 DEF FailsToConnect, ReturnedBy, Same
  <2>5. CASE Publishes(t)
    BY <2>5 DEF Publishes, Moves, Same, KeepsBut, Published
  <2>6. CASE Acts(t)
    BY <2>6 DEF Acts, GoesOnBy, ReturnedBy, Same, KeepsBut
  <2>7. CASE Fails(t)
    BY <2>7 DEF Fails, GoesOnBy, ReturnedBy, Same, KeepsBut
  <2>8. CASE Records(t)
    BY <2>8 DEF Records, ReturnedBy, Same
  <2>9. CASE Drops(t)
    BY <2>9 DEF Drops, Closes, ReturnedBy, Same
  <2> QED
    BY <1>7, <2>1, <2>2, <2>3, <2>4, <2>5, <2>6, <2>7, <2>8, <2>9
       DEF ThreadStep
<1> QED
  BY <1>1, <1>2, <1>3, <1>4, <1>5, <1>6, <1>7 DEF PageStep

\* What is published is open, and what is closed is let go of.
LEMMA HeldIsOpenStep ==
  ASSUME PageTypes, PageTypes', Phases, Published, HeldIsOpen, None \notin Conns,
         PageStep
  PROVE  HeldIsOpen'
<1> USE DEF HeldIsOpen, Published, PageTypes, C!attached, Phases
<1>1. CASE Dies \/ GivesUp \/ Stays
  BY <1>1 DEF Dies, GivesUp, Moves, Same, Stays
<1>2. CASE Exits \/ TurnsOff
  BY <1>2 DEF Exits, Moves, Same, Closes, TurnsOff
<1>3. CASE Relaunches
  BY <1>3 DEF Relaunches, Enters, LaunchedBy
<1>4. CASE Stops
  BY <1>4 DEF Stops, Enters
<1>5. CASE Starts
  BY <1>5 DEF Starts, LaunchedBy, Closes, KeepsBut
<1>6. CASE Begins
  BY <1>6 DEF Begins, Enters
<1>7. ASSUME NEW t \in C!Threads, ThreadStep(t)
       PROVE  HeldIsOpen'
  <2>1. CASE Connects(t)
    BY <2>1 DEF Connects, Moves, Same, Closes
  <2>2. CASE Finds(t) \/ Reads(t) \/ Snapshots(t)
    BY <2>2 DEF Finds, Moves, Same, KeepsBut, Reads, Snapshots
  <2>3. CASE Binds(t)
    BY <2>3 DEF Binds, Moves, Same, KeepsBut
  <2>4. CASE FailsToConnect(t)
    BY <2>4 DEF FailsToConnect, ReturnedBy, Same
  <2>5. CASE Publishes(t)
    BY <2>5 DEF Publishes, Moves, Same, KeepsBut
  <2>6. CASE Acts(t)
    BY <2>6 DEF Acts, GoesOnBy, ReturnedBy, Same, KeepsBut
  <2>7. CASE Fails(t)
    BY <2>7 DEF Fails, GoesOnBy, ReturnedBy, Same, KeepsBut
  <2>8. CASE Records(t)
    BY <2>8 DEF Records, ReturnedBy, Same
  <2>9. CASE Drops(t)
    BY <2>9 DEF Drops, Closes, ReturnedBy, Same
  <2> QED
    BY <1>7, <2>1, <2>2, <2>3, <2>4, <2>5, <2>6, <2>7, <2>8, <2>9
       DEF ThreadStep
<1> QED
  BY <1>1, <1>2, <1>3, <1>4, <1>5, <1>6, <1>7 DEF PageStep

\* A connection about to be published is bound by its call alone.
LEMMA PublishedStep ==
  ASSUME PageTypes, PageTypes', Phases, LinksKnown, Published, HeldIsOpen,
         None \notin Conns, PageStep
  PROVE  Published'
<1> USE DEF Published, PageTypes, Pages, LinksKnown, C!Threads, Phases, C!busy,
            HeldIsOpen, C!attached
<1>1. CASE Dies \/ GivesUp \/ Stays
  BY <1>1 DEF Dies, GivesUp, Moves, Same, Stays
<1>2. CASE Exits \/ TurnsOff
  BY <1>2 DEF Exits, Moves, Same, Closes, TurnsOff
<1>3. CASE Relaunches
  BY <1>3 DEF Relaunches, Enters, LaunchedBy
<1>4. CASE Stops
  BY <1>4 DEF Stops, Enters
<1>5. CASE Starts
  BY <1>5 DEF Starts, LaunchedBy, Closes, KeepsBut
<1>6. CASE Begins
  BY <1>6 DEF Begins, Enters
<1>7. ASSUME NEW t \in C!Threads, ThreadStep(t)
       PROVE  Published'
  <2>1. CASE Connects(t)
    BY <2>1 DEF Connects, Moves, Same, Closes
  <2>2. CASE Finds(t) \/ Reads(t) \/ Snapshots(t)
    BY <2>2 DEF Finds, Moves, Same, KeepsBut, Reads, Snapshots
  <2>3. CASE Binds(t)
    BY <2>3 DEF Binds, Moves, Same, KeepsBut
  <2>4. CASE FailsToConnect(t)
    BY <2>4 DEF FailsToConnect, ReturnedBy, Same
  <2>5. CASE Publishes(t)
    BY <2>5 DEF Publishes, Moves, Same, KeepsBut
  <2>6. CASE Acts(t)
    BY <2>6 DEF Acts, GoesOnBy, ReturnedBy, Same, KeepsBut
  <2>7. CASE Fails(t)
    BY <2>7 DEF Fails, GoesOnBy, ReturnedBy, Same, KeepsBut
  <2>8. CASE Records(t)
    BY <2>8 DEF Records, ReturnedBy, Same
  <2>9. CASE Drops(t)
    BY <2>9 DEF Drops, Closes, ReturnedBy, Same
  <2> QED
    BY <1>7, <2>1, <2>2, <2>3, <2>4, <2>5, <2>6, <2>7, <2>8, <2>9
       DEF ThreadStep
<1> QED
  BY <1>1, <1>2, <1>3, <1>4, <1>5, <1>6, <1>7 DEF PageStep

\* A Chromium is launched by a call that goes on to connect.
LEMMA LeadsToLiveStep ==
  ASSUME PageTypes, PageTypes', Phases, HeldIsOpen, Published, LeadsToLive,
         None \notin Conns, PageStep
  PROVE  LeadsToLive'
<1> USE DEF LeadsToLive, HeldIsOpen, Published, PageTypes, C!attached, C!busy,
            C!Threads
<1>1. CASE Dies \/ GivesUp \/ Stays
  BY <1>1 DEF Dies, GivesUp, Moves, Same, Stays
<1>2. CASE Exits \/ TurnsOff
  BY <1>2 DEF Exits, Moves, Same, Closes, TurnsOff
<1>3. CASE Relaunches
  BY <1>3 DEF Relaunches, Enters, LaunchedBy
<1>4. CASE Stops
  BY <1>4 DEF Stops, Enters
<1>5. CASE Starts
  BY <1>5 DEF Starts, LaunchedBy, Closes, KeepsBut
<1>6. CASE Begins
  BY <1>6 DEF Begins, Enters
<1>7. ASSUME NEW t \in C!Threads, ThreadStep(t)
       PROVE  LeadsToLive'
  <2>1. CASE Connects(t)
    BY <2>1 DEF Connects, Moves, Same, Closes
  <2>2. CASE Finds(t) \/ Reads(t) \/ Snapshots(t)
    BY <2>2 DEF Finds, Moves, Same, KeepsBut, Reads, Snapshots
  <2>3. CASE Binds(t)
    BY <2>3 DEF Binds, Moves, Same, KeepsBut
  <2>4. CASE FailsToConnect(t)
    BY <2>4 DEF FailsToConnect, ReturnedBy, Same
  <2>5. CASE Publishes(t)
    BY <2>5 DEF Publishes, Moves, Same, KeepsBut
  <2>6. CASE Acts(t)
    BY <2>6 DEF Acts, GoesOnBy, ReturnedBy, Same, KeepsBut
  <2>7. CASE Fails(t)
    BY <2>7 DEF Fails, GoesOnBy, ReturnedBy, Same, KeepsBut
  <2>8. CASE Records(t)
    BY <2>8 DEF Records, ReturnedBy, Same
  <2>9. CASE Drops(t)
    BY <2>9 DEF Drops, Closes, ReturnedBy, Same
  <2> QED
    BY <1>7, <2>1, <2>2, <2>3, <2>4, <2>5, <2>6, <2>7, <2>8, <2>9
       DEF ThreadStep
<1> QED
  BY <1>1, <1>2, <1>3, <1>4, <1>5, <1>6, <1>7 DEF PageStep

\* A call that publishes a connection navigates on it, or drops it (Attach).
LEMMA WillBeDrivenStep ==
  ASSUME PageTypes, PageTypes', Phases, WillBeDriven, PageStep
  PROVE  WillBeDriven'
<1> USE DEF WillBeDriven, Drives, C!attached, C!busy, C!Threads, Phases, PageTypes
<1>1. CASE Dies \/ GivesUp \/ Stays
  BY <1>1 DEF Dies, GivesUp, Moves, Same, Stays
<1>2. CASE Exits \/ TurnsOff
  BY <1>2 DEF Exits, Moves, Same, Closes, TurnsOff
<1>3. CASE Relaunches
  BY <1>3 DEF Relaunches, Enters, LaunchedBy
<1>4. CASE Stops
  BY <1>4 DEF Stops, Enters
<1>5. CASE Starts
  BY <1>5 DEF Starts, LaunchedBy, Closes, KeepsBut
<1>6. CASE Begins
  BY <1>6 DEF Begins, Enters
<1>7. ASSUME NEW t \in C!Threads, ThreadStep(t)
       PROVE  WillBeDriven'
  <2>1. CASE Connects(t)
    BY <2>1 DEF Connects, Moves, Same, Closes
  <2>2. CASE Finds(t) \/ Reads(t) \/ Snapshots(t)
    BY <2>2 DEF Finds, Moves, Same, KeepsBut, Reads, Snapshots
  <2>3. CASE Binds(t)
    BY <2>3 DEF Binds, Moves, Same, KeepsBut
  <2>4. CASE FailsToConnect(t)
    BY <2>4 DEF FailsToConnect, ReturnedBy, Same
  <2>5. CASE Publishes(t)
    BY <2>5 DEF Publishes, Moves, Same, KeepsBut
  <2>6. CASE Acts(t)
    BY <2>6 DEF Acts, GoesOnBy, ReturnedBy, Same, KeepsBut
  <2>7. CASE Fails(t)
    BY <2>7 DEF Fails, GoesOnBy, ReturnedBy, Same, KeepsBut
  <2>8. CASE Records(t)
    BY <2>8 DEF Records, ReturnedBy, Same
  <2>9. CASE Drops(t)
    BY <2>9 DEF Drops, Closes, ReturnedBy, Same
  <2> QED
    BY <1>7, <2>1, <2>2, <2>3, <2>4, <2>5, <2>6, <2>7, <2>8, <2>9
       DEF ThreadStep
<1> QED
  BY <1>1, <1>2, <1>3, <1>4, <1>5, <1>6, <1>7 DEF PageStep

\* A connection is replaced only after it is closed, unless two connect at once.
LEMMA OneConnectsStep ==
  ASSUME PageTypes, PageTypes', Phases, OneConnects, None \notin Conns, PageStep
  PROVE  OneConnects'
<1> USE DEF OneConnects, C!connecting, C!busy, C!Threads, PageTypes, Phases
<1>1. CASE Dies \/ GivesUp \/ Stays
  BY <1>1 DEF Dies, GivesUp, Moves, Same, Stays
<1>2. CASE Exits \/ TurnsOff
  BY <1>2 DEF Exits, Moves, Same, Closes, TurnsOff
<1>3. CASE Relaunches
  BY <1>3 DEF Relaunches, Enters, LaunchedBy
<1>4. CASE Stops
  BY <1>4 DEF Stops, Enters
<1>5. CASE Starts
  BY <1>5 DEF Starts, LaunchedBy, Closes, KeepsBut
<1>6. CASE Begins
  BY <1>6 DEF Begins, Enters
<1>7. ASSUME NEW t \in C!Threads, ThreadStep(t)
       PROVE  OneConnects'
  <2>1. CASE Connects(t)
    BY <2>1 DEF Connects, Moves, Same, Closes
  <2>2. CASE Finds(t) \/ Reads(t) \/ Snapshots(t)
    BY <2>2 DEF Finds, Moves, Same, KeepsBut, Reads, Snapshots
  <2>3. CASE Binds(t)
    BY <2>3 DEF Binds, Moves, Same, KeepsBut
  <2>4. CASE FailsToConnect(t)
    BY <2>4 DEF FailsToConnect, ReturnedBy, Same
  <2>5. CASE Publishes(t)
    <3>1. local[t].ctx \in Conns \cup {None} /\ ctx' = local[t].ctx /\ connectors' = connectors
      BY <2>5, CallFields DEF Publishes
    <3>2. ASSUME ~connectors, NEW o \in C!Threads, C!connecting(o)'
          PROVE  FALSE
      BY <2>5, <3>2 DEF Publishes, Moves, Same
    <3>3. ASSUME ~connectors, NEW c \in Conns, link'[c] # 0
          PROVE  c = ctx'
      <4>1. ctx = None /\ link'[c] = link[c]
        BY <2>5, <3>3 DEF Publishes, Moves
      <4>2. PICK o \in C!Threads : threadPc[o] = "publish" /\ local[o].ctx = c
        BY <3>3, <4>1 DEF OneConnects
      <4>3. o = t
        BY <2>5, <3>3, <4>2 DEF Publishes, Moves
      <4> QED BY <3>1, <4>2, <4>3
    <3> QED BY <3>1, <3>2, <3>3
  <2>6. CASE Acts(t)
    BY <2>6 DEF Acts, GoesOnBy, ReturnedBy, Same, KeepsBut
  <2>7. CASE Fails(t)
    BY <2>7 DEF Fails, GoesOnBy, ReturnedBy, Same, KeepsBut
  <2>8. CASE Records(t)
    BY <2>8 DEF Records, ReturnedBy, Same
  <2>9. CASE Drops(t)
    BY <2>9 DEF Drops, Closes, ReturnedBy, Same
  <2> QED
    BY <1>7, <2>1, <2>2, <2>3, <2>4, <2>5, <2>6, <2>7, <2>8, <2>9
       DEF ThreadStep
<1> QED
  BY <1>1, <1>2, <1>3, <1>4, <1>5, <1>6, <1>7 DEF PageStep

\* Nobody changes the zoom, the runner or its colours under a call that is alone.
LEMMA AloneStep ==
  ASSUME PageTypes, PageTypes', Phases, Alone, PageStep
  PROVE  Alone'
<1> USE DEF Alone, C!busy, C!Threads, PageTypes, Phases
<1>1. CASE Dies \/ GivesUp \/ Stays
  BY <1>1 DEF Dies, GivesUp, Moves, Same, Stays
<1>2. CASE Exits \/ TurnsOff
  BY <1>2 DEF Exits, Moves, Same, Closes, TurnsOff
<1>3. CASE Relaunches
  BY <1>3 DEF Relaunches, Enters, LaunchedBy
<1>4. CASE Stops
  BY <1>4 DEF Stops, Enters
<1>5. CASE Starts
  BY <1>5 DEF Starts, LaunchedBy, Closes, KeepsBut
<1>6. CASE Begins
  BY <1>6 DEF Begins, Enters
<1>7. ASSUME NEW t \in C!Threads, ThreadStep(t)
       PROVE  Alone'
  <2>1. CASE Connects(t)
    BY <2>1 DEF Connects, Moves, Same, Closes
  <2>2. CASE Finds(t) \/ Reads(t) \/ Snapshots(t)
    BY <2>2 DEF Finds, Moves, Same, KeepsBut, Reads, Snapshots
  <2>3. CASE Binds(t)
    BY <2>3 DEF Binds, Moves, Same, KeepsBut
  <2>4. CASE FailsToConnect(t)
    BY <2>4 DEF FailsToConnect, ReturnedBy, Same
  <2>5. CASE Publishes(t)
    BY <2>5 DEF Publishes, Moves, Same, KeepsBut
  <2>6. CASE Acts(t)
    BY <2>6 DEF Acts, GoesOnBy, ReturnedBy, Same, KeepsBut
  <2>7. CASE Fails(t)
    BY <2>7 DEF Fails, GoesOnBy, ReturnedBy, Same, KeepsBut
  <2>8. CASE Records(t)
    BY <2>8 DEF Records, ReturnedBy, Same
  <2>9. CASE Drops(t)
    BY <2>9 DEF Drops, Closes, ReturnedBy, Same
  <2> QED
    BY <1>7, <2>1, <2>2, <2>3, <2>4, <2>5, <2>6, <2>7, <2>8, <2>9
       DEF ThreadStep
<1> QED
  BY <1>1, <1>2, <1>3, <1>4, <1>5, <1>6, <1>7 DEF PageStep

\* A connection is dropped only after its navigation failed.
LEMMA DropsRacedStep ==
  ASSUME PageTypes, PageTypes', Phases, Alone, DropsRaced, PageStep
  PROVE  DropsRaced'
<1> USE DEF DropsRaced, Alone, C!busy, C!Threads, PageTypes, Phases
<1>1. CASE Dies \/ GivesUp \/ Stays
  BY <1>1 DEF Dies, GivesUp, Moves, Same, Stays
<1>2. CASE Exits \/ TurnsOff
  BY <1>2 DEF Exits, Moves, Same, Closes, TurnsOff
<1>3. CASE Relaunches
  BY <1>3 DEF Relaunches, Enters, LaunchedBy
<1>4. CASE Stops
  BY <1>4 DEF Stops, Enters
<1>5. CASE Starts
  BY <1>5 DEF Starts, LaunchedBy, Closes, KeepsBut
<1>6. CASE Begins
  BY <1>6 DEF Begins, Enters
<1>7. ASSUME NEW t \in C!Threads, ThreadStep(t)
       PROVE  DropsRaced'
  <2>1. CASE Connects(t)
    BY <2>1 DEF Connects, Moves, Same, Closes
  <2>2. CASE Finds(t) \/ Reads(t) \/ Snapshots(t)
    BY <2>2 DEF Finds, Moves, Same, KeepsBut, Reads, Snapshots
  <2>3. CASE Binds(t)
    BY <2>3 DEF Binds, Moves, Same, KeepsBut
  <2>4. CASE FailsToConnect(t)
    BY <2>4 DEF FailsToConnect, ReturnedBy, Same
  <2>5. CASE Publishes(t)
    BY <2>5 DEF Publishes, Moves, Same, KeepsBut
  <2>6. CASE Acts(t)
    BY <2>6 DEF Acts, GoesOnBy, ReturnedBy, Same, KeepsBut
  <2>7. CASE Fails(t)
    BY <2>7 DEF Fails, GoesOnBy, ReturnedBy, Same, KeepsBut
  <2>8. CASE Records(t)
    BY <2>8 DEF Records, ReturnedBy, Same
  <2>9. CASE Drops(t)
    BY <2>9 DEF Drops, Closes, ReturnedBy, Same
  <2> QED
    BY <1>7, <2>1, <2>2, <2>3, <2>4, <2>5, <2>6, <2>7, <2>8, <2>9
       DEF ThreadStep
<1> QED
  BY <1>1, <1>2, <1>3, <1>4, <1>5, <1>6, <1>7 DEF PageStep

\* The zoom of the page is that of its launch, the recorded one, or about to be.
LEMMA ZoomKnownStep ==
  ASSUME PageTypes, PageTypes', Phases, Alone, ZoomKnown, PageStep
  PROVE  ZoomKnown'
<1> USE DEF ZoomKnown, Alone, C!busy, C!Threads, PageTypes, Phases, Purpose
<1>1. CASE Dies \/ GivesUp \/ Stays
  BY <1>1 DEF Dies, GivesUp, Moves, Same, Stays
<1>2. CASE Exits \/ TurnsOff
  BY <1>2 DEF Exits, Moves, Same, Closes, TurnsOff
<1>3. CASE Relaunches
  BY <1>3 DEF Relaunches, Enters, LaunchedBy
<1>4. CASE Stops
  BY <1>4 DEF Stops, Enters
<1>5. CASE Starts
  BY <1>5 DEF Starts, LaunchedBy, Closes, KeepsBut
<1>6. CASE Begins
  BY <1>6 DEF Begins, Enters
<1>7. ASSUME NEW t \in C!Threads, ThreadStep(t)
       PROVE  ZoomKnown'
  <2>1. CASE Connects(t)
    BY <2>1 DEF Connects, Moves, Same, Closes
  <2>2. CASE Finds(t) \/ Reads(t) \/ Snapshots(t)
    BY <2>2 DEF Finds, Moves, Same, KeepsBut, Reads, Snapshots
  <2>3. CASE Binds(t)
    BY <2>3 DEF Binds, Moves, Same, KeepsBut
  <2>4. CASE FailsToConnect(t)
    BY <2>4 DEF FailsToConnect, ReturnedBy, Same
  <2>5. CASE Publishes(t)
    BY <2>5 DEF Publishes, Moves, Same, KeepsBut
  <2>6. CASE Acts(t)
    BY <2>6 DEF Acts, GoesOnBy, ReturnedBy, Same, KeepsBut
  <2>7. CASE Fails(t)
    BY <2>7 DEF Fails, GoesOnBy, ReturnedBy, Same, KeepsBut
  <2>8. CASE Records(t)
    BY <2>8 DEF Records, ReturnedBy, Same
  <2>9. CASE Drops(t)
    BY <2>9 DEF Drops, Closes, ReturnedBy, Same
  <2> QED
    BY <1>7, <2>1, <2>2, <2>3, <2>4, <2>5, <2>6, <2>7, <2>8, <2>9
       DEF ThreadStep
<1> QED
  BY <1>1, <1>2, <1>3, <1>4, <1>5, <1>6, <1>7 DEF PageStep

\* Who finds a connection published beside its own did not run alone.
LEMMA ConnectsBesideStep ==
  ASSUME PageTypes, PageTypes', Phases, Alone, ConnectsBeside, PageStep
  PROVE  ConnectsBeside'
<1> USE DEF ConnectsBeside, ToAct, Alone, C!busy, C!attached, C!Threads, PageTypes,
            Phases
<1>1. CASE Dies \/ GivesUp \/ Stays
  BY <1>1 DEF Dies, GivesUp, Moves, Same, Stays
<1>2. CASE Exits \/ TurnsOff
  BY <1>2 DEF Exits, Moves, Same, Closes, TurnsOff
<1>3. CASE Relaunches
  BY <1>3 DEF Relaunches, Enters, LaunchedBy
<1>4. CASE Stops
  BY <1>4 DEF Stops, Enters
<1>5. CASE Starts
  BY <1>5 DEF Starts, LaunchedBy, Closes, KeepsBut
<1>6. CASE Begins
  BY <1>6 DEF Begins, Enters
<1>7. ASSUME NEW t \in C!Threads, ThreadStep(t)
       PROVE  ConnectsBeside'
  <2>1. CASE Connects(t)
    BY <2>1 DEF Connects, Moves, Same, Closes
  <2>2. CASE Finds(t) \/ Reads(t) \/ Snapshots(t)
    BY <2>2 DEF Finds, Moves, Same, KeepsBut, Reads, Snapshots
  <2>3. CASE Binds(t)
    BY <2>3 DEF Binds, Moves, Same, KeepsBut
  <2>4. CASE FailsToConnect(t)
    BY <2>4 DEF FailsToConnect, ReturnedBy, Same
  <2>5. CASE Publishes(t)
    BY <2>5 DEF Publishes, Moves, Same, KeepsBut
  <2>6. CASE Acts(t)
    BY <2>6 DEF Acts, GoesOnBy, ReturnedBy, Same, KeepsBut
  <2>7. CASE Fails(t)
    BY <2>7 DEF Fails, GoesOnBy, ReturnedBy, Same, KeepsBut
  <2>8. CASE Records(t)
    BY <2>8 DEF Records, ReturnedBy, Same
  <2>9. CASE Drops(t)
    BY <2>9 DEF Drops, Closes, ReturnedBy, Same
  <2> QED
    BY <1>7, <2>1, <2>2, <2>3, <2>4, <2>5, <2>6, <2>7, <2>8, <2>9
       DEF ThreadStep
<1> QED
  BY <1>1, <1>2, <1>3, <1>4, <1>5, <1>6, <1>7 DEF PageStep

\* The last change of the look that ran alone and did not fail leaves it right.
LEMMA LooksRightStep ==
  ASSUME PageTypes, PageTypes', Phases, LinksKnown, HeldIsOpen, Alone, ZoomKnown,
         ConnectsBeside, LooksRight, None \notin Conns, PageStep
  PROVE  LooksRight'
<1> USE DEF LooksRight, ToAct, WillShow, Alone, C!busy, C!attached, C!Threads,
            PageTypes, Phases
<1>1. CASE Dies \/ GivesUp \/ Stays
  BY <1>1 DEF Dies, GivesUp, Moves, Same, Stays
<1>2. CASE Exits \/ TurnsOff
  BY <1>2 DEF Exits, Moves, Same, Closes, TurnsOff
<1>3. CASE Relaunches
  <2>1. browser'.id = launched + 1 /\ ctx' = ctx /\ link' = link
    BY <1>3 DEF Relaunches, LaunchedBy
  <2>2. C!attached' => link[ctx] <= launched /\ link[ctx] \in Nat
    BY <2>1 DEF LinksKnown
  <2>3. launched \in Nat /\ launched' \in Nat
    OBVIOUS
  <2>4. C!attached' => link'[ctx'] # browser'.id
    BY <2>1, <2>2, <2>3
  <2> QED BY <2>4
<1>4. CASE Stops
  BY <1>4 DEF Stops, Enters
<1>5. CASE Starts
  BY <1>5 DEF Starts, LaunchedBy, Closes, KeepsBut
<1>6. CASE Begins
  BY <1>6 DEF Begins, Enters
<1>7. ASSUME NEW t \in C!Threads, ThreadStep(t)
       PROVE  LooksRight'
  <2>1. CASE Connects(t)
    BY <2>1 DEF Connects, Moves, Same, Closes
  <2>2. CASE Finds(t) \/ Reads(t) \/ Snapshots(t)
    BY <2>2 DEF Finds, Moves, Same, KeepsBut, Reads, Snapshots
  <2>3. CASE Binds(t)
    <3>1. PICK c \in Conns :
             /\ link[c] = 0
             /\ \A d \in Conns : link'[d] = IF d = c THEN browser.id ELSE link[d]
      BY <2>3 DEF Binds
    <3>2. C!attached => link'[ctx] = link[ctx]
      BY <3>1 DEF HeldIsOpen
    <3>3. /\ UNCHANGED <<ctx, zoom, browser, base, alone, raced>>
          /\ \A o \in C!Threads \ {t} : threadPc'[o] = threadPc[o] /\ local'[o] = local[o]
          /\ threadPc[t] = "run" /\ threadPc'[t] = "publish"
      BY <2>3 DEF Binds, Moves, Same
    <3> QED BY <3>2, <3>3
  <2>4. CASE FailsToConnect(t)
    <3> SUFFICES ASSUME ~raced', C!attached'
                 PROVE  \E o \in C!Threads : ToAct(o)' /\ ~alone'[o]
      OBVIOUS
    <3>1. PICK o \in C!Threads \ {t} : ToAct(o) /\ ~alone[o]
      BY <2>4 DEF FailsToConnect, ConnectsBeside
    <3> QED BY <2>4, <3>1 DEF FailsToConnect, ReturnedBy, Same
  <2>5. CASE Publishes(t)
    BY <2>5 DEF Publishes, Moves, Same, KeepsBut
  <2>6. CASE Acts(t)
    <3> SUFFICES ASSUME ~raced', C!attached', browser'.id # 0, link'[ctx'] = browser'.id
                 PROVE  \/ browser'.zoom = zoom' /\ browser'.dark = base'.dark
                        \/ threadPc'[t] = "record" /\ browser'.dark = base'.dark
                        \/ ToAct(t)' /\ (alone'[t] => WillShow(t)')
      OBVIOUS
    <3>1. /\ alone[t] /\ (raced => local[t].what = "navigate") /\ C!busy(t)
          /\ threadPc[t] = "act" /\ Purpose(t) /\ zoom' = zoom
          /\ C!attached /\ browser.id # 0 /\ link[ctx] = browser.id
      BY <2>6 DEF Acts
    <3>2. \A o \in C!Threads \ {t} : ~C!busy(o)
      BY <3>1
    <3>3. \A o \in C!Threads : threadPc[o] # "record" /\ (ToAct(o) => o = t)
      BY <3>1, <3>2
    \* Without a navigation, the page looked right, or this call was to see to it.
    <3>4. local[t].what # "navigate" =>
             \/ browser.zoom = zoom /\ browser.dark = base.dark
             \/ WillShow(t)
      BY <3>1, <3>3
    <3>5. CASE local[t].what = "navigate"
      <4>1. browser'.zoom = local[t].zoom /\ browser'.dark = local[t].dark /\ ReturnedBy(t, TRUE)
        BY <2>6, <3>1, <3>5 DEF Acts, GoesOnBy, Purpose
      <4>2. local[t].zoom = zoom
        BY <3>1, <3>5
      <4>3. base'.dark = local[t].dark
        BY <3>1, <3>5, <4>1 DEF ReturnedBy, Purpose
      <4> QED BY <3>1, <4>1, <4>2, <4>3
    <3>6. CASE local[t].what = "eval"
      <4>1. browser'.zoom = browser.zoom /\ browser'.dark = browser.dark /\ base' = base
        BY <2>6, <3>1, <3>6 DEF Acts, GoesOnBy, ReturnedBy, Purpose
      <4> QED BY <3>1, <3>4, <3>6, <4>1 DEF Purpose
    <3>7. CASE local[t].what = "theme" /\ local[t].op = "theme"
      <4>1. browser'.zoom = browser.zoom /\ browser'.dark = local[t].dark /\ ReturnedBy(t, TRUE)
        BY <2>6, <3>1, <3>7 DEF Acts, GoesOnBy
      <4>2. browser.zoom = zoom
        BY <3>4, <3>7
      <4>3. base'.dark = local[t].dark
        BY <3>1, <3>7, <4>1 DEF ReturnedBy
      <4> QED BY <3>1, <4>1, <4>2, <4>3
    <3>8. CASE local[t].what = "theme" /\ local[t].op = "reattach"
      <4>1. /\ browser'.zoom = browser.zoom /\ browser'.dark = local[t].dark
            /\ local[t].dark = base.dark /\ local[t].zoom = zoom /\ GoesOnBy(t, TRUE)
        BY <2>6, <3>1, <3>8 DEF Acts
      <4>2. base' = base
        BY <3>8, <4>1 DEF GoesOnBy, ReturnedBy
      <4>3. CASE zoom = 1
        <5>1. browser.zoom = zoom
          BY <3>1, <3>3, <3>8, <4>3 DEF ZoomKnown
        <5> QED BY <3>1, <4>1, <4>2, <5>1
      <4>4. CASE zoom # 1
        <5>1. threadPc'[t] = "snapshot" /\ local'[t].what = "zoom" /\ local'[t].op = "reattach"
          BY <3>8, <4>1, <4>4 DEF GoesOnBy, KeepsBut
        <5> QED BY <4>1, <4>2, <5>1
      <4> QED BY <4>3, <4>4
    <3>9. CASE local[t].what = "zoom"
      <4>1. threadPc'[t] = "record" /\ base' = base /\ browser'.dark = browser.dark
        BY <2>6, <3>9 DEF Acts
      <4>2. browser.dark = base.dark
        BY <3>4, <3>9
      <4> QED BY <4>1, <4>2
    <3> QED BY <3>1, <3>5, <3>6, <3>7, <3>8, <3>9 DEF Purpose
  <2>7. CASE Fails(t)
    BY <2>7 DEF Fails, GoesOnBy, ReturnedBy, Same, KeepsBut
  <2>8. CASE Records(t)
    <3>1. /\ local[t].op \in {"zoom", "reattach"} /\ base' = base
          /\ \A o \in C!Threads \ {t} : threadPc'[o] = threadPc[o] /\ local'[o] = local[o]
          /\ UNCHANGED <<ctx, link, browser, alone, raced>> /\ zoom' = local[t].zoom
          /\ threadPc[t] = "record"
      BY <2>8 DEF Records, ReturnedBy, Same
    <3> SUFFICES ASSUME ~raced', C!attached', browser'.id # 0, link'[ctx'] = browser'.id
                 PROVE  \/ browser'.zoom = zoom' /\ browser'.dark = base'.dark
                        \/ \E o \in C!Threads : ToAct(o)' /\ (alone'[o] => WillShow(o)')
      OBVIOUS
    <3>2. browser'.zoom = zoom'
      BY <3>1 DEF ZoomKnown
    <3>3. \/ browser.dark = base.dark
          \/ \E o \in C!Threads : ToAct(o) /\ (alone[o] => WillShow(o))
      BY <3>1
    <3>4. ASSUME NEW o \in C!Threads, ToAct(o), alone[o] => WillShow(o)
          PROVE  ToAct(o)' /\ (alone'[o] => WillShow(o)')
      BY <3>1, <3>4
    <3> QED BY <3>1, <3>2, <3>3, <3>4
  <2>9. CASE Drops(t)
    BY <2>9 DEF Drops, Closes, ReturnedBy, Same
  <2> QED
    BY <1>7, <2>1, <2>2, <2>3, <2>4, <2>5, <2>6, <2>7, <2>8, <2>9
       DEF ThreadStep
<1> QED
  BY <1>1, <1>2, <1>3, <1>4, <1>5, <1>6, <1>7 DEF PageStep

-----------------------------------------------------------------------------
\* The controller starts with nothing attached, and nothing under way.
LEMMA PageInit == C!NewChrome => PageInv
<1> SUFFICES ASSUME C!NewChrome PROVE PageInv
  OBVIOUS
<1>1. /\ ctx = None /\ zoom \in Zooms /\ port = "x" /\ link = [c \in Conns |-> 0]
      /\ browser = C!NoBrowser /\ launched = 0 /\ base = C!NoBase
      /\ threadPc = [t \in C!Threads |-> "idle"]
      /\ local = [t \in C!Threads |-> C!NoCall]
      /\ alone = [t \in C!Threads |-> TRUE] /\ raced = FALSE /\ connectors = FALSE
  BY DEF C!NewChrome
<1>2. C!NoCall \in Calls /\ C!NoBrowser \in Pages /\ C!NoBase \in Bases
  BY DEF C!NoCall, C!NoBrowser, C!NoBase, Calls, Pages, Bases, C!Ports
<1>3. PageTypes
  BY <1>1, <1>2 DEF PageTypes, Points, C!Ports
<1>4. /\ \A t \in C!Threads : threadPc[t] = "idle" /\ ~C!busy(t) /\ ~C!connecting(t)
      /\ "setter" \in C!Threads /\ ~C!attached /\ browser.id = 0
      /\ \A c \in Conns : link[c] = 0
  BY <1>1 DEF C!busy, C!connecting, C!attached, C!NoBrowser, C!Threads
<1>5. Phases
  BY <1>4 DEF Phases
<1>b. Bounded
  <2>1. /\ launched <= MaxBrowsers /\ base.id <= launched /\ driven \subseteq Conns
    BY <1>1, BoundAssumption DEF C!NoBase, C!NewChrome
  <2>2. \A t \in C!Threads : local[t].base <= launched /\ local[t].found <= launched
    BY <1>1 DEF C!NoCall
  <2> QED BY <1>4, <2>1, <2>2 DEF Bounded
<1>6. LinksKnown /\ HeldIsOpen /\ Published /\ LeadsToLive /\ WillBeDriven /\ OneConnects
  BY <1>1, <1>4 DEF LinksKnown, HeldIsOpen, Published, LeadsToLive, WillBeDriven,
                    OneConnects
<1>7. Alone /\ DropsRaced /\ ZoomKnown /\ ConnectsBeside /\ LooksRight
  BY <1>4 DEF Alone, DropsRaced, ZoomKnown, ConnectsBeside, LooksRight
<1> QED BY <1>b, <1>3, <1>5, <1>6, <1>7 DEF PageInv

\* Every step of the controller keeps the whole invariant.
LEMMA PageInvStep == PageInv /\ [C!Next]_(C!vars) => PageInv'
<1> SUFFICES ASSUME PageInv, [C!Next]_(C!vars) PROVE PageInv'
  OBVIOUS
<1>1. None \notin Conns
  BY NothingAssumption
<1>2. PageStep
  BY StepsDo DEF PageInv
<1>3. PageTypes'
  BY TypesStep DEF PageInv
<1>4. Phases'
  BY <1>2, <1>3, PhasesStep DEF PageInv
<1>5. LinksKnown' /\ Bounded' /\ HeldIsOpen' /\ Published'
  BY <1>1, <1>2, <1>3, LinksKnownStep, BoundedStep, HeldIsOpenStep, PublishedStep
     DEF PageInv
<1>6. LeadsToLive' /\ WillBeDriven' /\ OneConnects'
  BY <1>1, <1>2, <1>3, LeadsToLiveStep, WillBeDrivenStep, OneConnectsStep
     DEF PageInv
<1>7. Alone' /\ DropsRaced' /\ ZoomKnown' /\ ConnectsBeside'
  BY <1>2, <1>3, AloneStep, DropsRacedStep, ZoomKnownStep, ConnectsBesideStep
     DEF PageInv
<1>8. LooksRight'
  BY <1>1, <1>2, <1>3, LooksRightStep DEF PageInv
<1> QED BY <1>3, <1>4, <1>5, <1>6, <1>7, <1>8 DEF PageInv

\* What the rest of the node does leaves the controller alone.
LEMMA PageAlone == Spec => C!NewChrome /\ [][C!Next]_(C!vars)
<1>1. Init => C!NewChrome
  BY DEF Init
<1>2. [Next]_vars => [C!Next]_(C!vars)
  BY DEF Next, vars, svars, avars, pvars, yvars, bvars, lvars, cvars, gvars, nvars,
         jvars, tvars, kvars, xvars, C!vars, C!fields, C!kiosk, C!hist
<1> QED BY <1>1, <1>2, PTL DEF Spec

\* While no attach is under way the connection that is held was driven, or
\* re-bound as it was; when all is quiet it leads to the Chromium that runs, and
\* the page shows the zoom and the colours that are recorded, if the last change
\* of them ran alone and did not fail; and no connection is open that nobody
\* holds, unless two threads connected at once (chrome.go).
THEOREM PageShown == Spec => []PageAsRecorded
<1>1. PageInv => C!AttachedWasDriven
  BY DEF PageInv, WillBeDriven, Drives, C!AttachedWasDriven
<1>2. PageInv => C!AttachedToLive
  BY DEF PageInv, LeadsToLive, C!AttachedToLive, C!quiet
<1>3. PageInv => C!NothingLeaks
  BY DEF PageInv, OneConnects, C!NothingLeaks, C!held
<1>4. PageInv => C!ShownAsRecorded
  BY DEF PageInv, PageTypes, HeldIsOpen, LooksRight, ToAct, C!ShownAsRecorded,
     C!quiet
<1>5. PageInv => PageAsRecorded
  BY <1>1, <1>2, <1>3, <1>4 DEF PageAsRecorded
<1> QED BY <1>5, PageAlone, PageInit, PageInvStep, PTL
=============================================================================
