---------------------------- MODULE ServicesProofs ----------------------------
(***************************************************************************)
(* The services of the node keep their promises for every number of        *)
(* requests, writers, viewers and processes and every bound.               *)
(*                                                                         *)
(* A behaviour of Services is, for each service, one of that service       *)
(* (the lemmas named Alone).  So each has an inductive invariant of its    *)
(* own, which says what its lock or its slot protects between the steps of *)
(* a call: the property a run checks, strengthened by where every call is. *)
(* At the end the theorems put them together as Services states them.      *)
(***************************************************************************)
EXTENDS ListProofs, PageProofs

-----------------------------------------------------------------------------
(* The control key: its rotation and its restart (auth.go) *)

\* Whoever brought a key is on its way through the rotation, and unless two of
\* them overlapped the temporary file, then the key file, holds just that key.
Rotating == {"open", "write", "rename", "apply"}
\* What is so while no two rotations have overlapped.
RotationInv ==
    /\ \A c, d \in Holders : newKey[c] # Blank /\ newKey[d] # Blank => c = d
    /\ \A c \in Holders : /\ keyFd[c] = IF authPc[c] = "write" THEN "tmp" ELSE "none"
                          /\ authPc[c] = "rename" => agentKeyTmp = {newKey[c]}
                          /\ authPc[c] = "apply"  => agentKey = newKey[c]
    /\ keyed => keyOption # Blank \/ (HasKeyFile /\ agentKey # Blank)
    /\ awake /\ keyed => liveKey # Blank \/ keySource = "unread"
    /\ awake /\ keySource = "file" /\ (\A c \in Holders : authPc[c] # "apply")
         => agentKey = liveKey

KeyInv ==
    /\ G!TypeOK
    /\ \A c \in Holders : newKey[c] # Blank <=> authPc[c] \in Rotating
    /\ \A c \in Holders : authPc[c] \in Rotating => HasKeyFile
    /\ ~awake => liveKey = Blank /\ \A c \in Holders : authPc[c] = "idle"
    /\ ~rotations => RotationInv

\* What the rest of the node does leaves this service alone.
LEMMA KeyAlone == Spec => G!Init /\ [][G!Next]_(G!vars)
<1>1. Init => G!Init
  BY DEF Init
<1>2. [Next]_vars => [G!Next]_(G!vars)
  BY DEF Next, vars, svars, avars, pvars, yvars, bvars, lvars, cvars, gvars, nvars,
         jvars, tvars, kvars, xvars, G!vars, G!memory, G!disk, G!hist
<1> QED BY <1>1, <1>2, PTL DEF Spec

\* Every step of a login, a rotation, a crash or a start keeps it.
LEMMA KeyStep == KeyInv /\ [G!Next]_(G!vars) => KeyInv'
<1> SUFFICES ASSUME KeyInv, [G!Next]_(G!vars) PROVE KeyInv'
  OBVIOUS
<1> USE BoundAssumption, NothingAssumption
    DEF KeyInv, RotationInv, Rotating, G!TypeOK
<1>1. CASE G!resolve
  BY <1>1 DEF G!resolve, G!explicit, G!ensureAuthKeyFile
<1>2. CASE G!Crash
  <2>1. /\ awake' = FALSE /\ liveKey' = Blank
        /\ authPc' = [c \in Holders |-> "idle"] /\ newKey' = [c \in Holders |-> Blank]
        /\ keyFd' = [c \in Holders |-> "none"]
        /\ UNCHANGED <<agentKey, agentKeyTmp, wizardDone, cookie, keyOption, keySource,
                       keyed, rotations>>
        /\ restarts' \in 0..MaxRestarts
    BY <1>2 DEF G!Crash, G!disk
  <2>2. \A c \in Holders : newKey'[c] = Blank /\ authPc'[c] = "idle" /\ keyFd'[c] = "none"
    BY <2>1
  <2>3. /\ authPc' \in [Holders -> {"idle", "cookie", "open", "write", "rename", "apply"}]
        /\ newKey' \in [Holders -> Keys \cup {Blank}]
        /\ keyFd' \in [Holders -> {"none", "tmp", "file"}]
    BY <2>1
  <2>4. {awake', wizardDone'} \subseteq BOOLEAN
    BY <2>1, Zenon
  <2>5. G!TypeOK'
    BY <2>1, <2>3, <2>4
  <2> QED BY <2>1, <2>2, <2>5
<1>3. ASSUME NEW c \in Holders, G!SetCookie(c) PROVE KeyInv'
  BY <1>3 DEF G!SetCookie, G!at, G!disk, G!hist
<1>4. ASSUME NEW c \in Holders, G!handleLogout(c) PROVE KeyInv'
  BY <1>4 DEF G!handleLogout, G!memory, G!disk, G!hist
<1>5. ASSUME NEW c \in Holders, G!handleSetupFinish(c) PROVE KeyInv'
  BY <1>5 DEF G!handleSetupFinish, G!memory, G!hist
<1>6. ASSUME NEW c \in Holders, G!writeAuthKeyFile(c) PROVE KeyInv'
  BY <1>6 DEF G!writeAuthKeyFile, G!at, G!hist
<1>7. ASSUME NEW c \in Holders, G!Write(c) PROVE KeyInv'
  BY <1>7 DEF G!Write, G!at, G!hist
<1>8. ASSUME NEW c \in Holders, G!Rename(c) PROVE KeyInv'
  BY <1>8 DEF G!Rename, G!renamed, G!at, G!hist
<1>9. ASSUME NEW c \in Holders, G!WriteFails(c) PROVE KeyInv'
  BY <1>9 DEF G!WriteFails, G!at, G!hist
<1>10. ASSUME NEW c \in Holders, G!SetAuthKey(c) PROVE KeyInv'
  <2>1. newKey[c] # Blank /\ HasKeyFile
    BY <1>10 DEF G!SetAuthKey, G!at
  <2>2. ~rotations => agentKey = newKey[c] /\ \A d \in Holders \ {c} : newKey[d] = Blank
    BY <1>10, <2>1 DEF G!SetAuthKey, G!at
  <2>3. /\ awake /\ awake' /\ liveKey' = newKey[c]
        /\ authPc' = [authPc EXCEPT ![c] = "idle"]
        /\ newKey' = [newKey EXCEPT ![c] = Blank]
        /\ keyed' = TRUE /\ keySource' = "file"
        /\ UNCHANGED <<agentKey, agentKeyTmp, keyFd, wizardDone, cookie, keyOption,
                       restarts, rotations>>
    BY <1>10 DEF G!SetAuthKey, G!at, G!disk
  <2>4. /\ \A d \in Holders : newKey'[d] = IF d = c THEN Blank ELSE newKey[d]
        /\ \A d \in Holders : authPc'[d] = IF d = c THEN "idle" ELSE authPc[d]
    BY <2>3
  <2>5. G!TypeOK'
    BY <2>3
  <2> QED BY <1>10, <2>1, <2>2, <2>3, <2>4, <2>5 DEF G!SetAuthKey, G!at
<1>11. ASSUME NEW c \in Holders, NEW k \in Keys, G!handleAuth(c, k) PROVE KeyInv'
  BY <1>11 DEF G!handleAuth, G!at, G!disk, G!hist
<1>12. ASSUME NEW c \in Holders, NEW k \in Keys, G!handleAuthKey(c, k) PROVE KeyInv'
  BY <1>12 DEF G!handleAuthKey, G!at, G!disk, G!ServeHTTP
<1>13. CASE UNCHANGED G!vars
  BY <1>13 DEF G!vars, G!memory, G!disk, G!hist
<1> QED
  BY <1>1, <1>2, <1>3, <1>4, <1>5, <1>6, <1>7, <1>8, <1>9, <1>10, <1>11, <1>12, <1>13
     DEF G!Next

\* The invariant of this service holds at the start, and so throughout.
LEMMA KeyHolds == Spec => []KeyInv
<1>1. G!Init => KeyInv
  <2> SUFFICES ASSUME G!Init PROVE KeyInv
    OBVIOUS
  <2>1. /\ awake = FALSE /\ liveKey = Blank /\ restarts = 0 /\ keyed = FALSE
        /\ rotations = FALSE /\ wizardDone = FALSE /\ keySource = "option"
        /\ {agentKey, keyOption} \subseteq Keys \cup {Blank} /\ agentKeyTmp = {}
        /\ \A c \in Holders : authPc[c] = "idle" /\ newKey[c] = Blank /\ keyFd[c] = "none"
    BY DEF G!Init
  <2>2. /\ cookie \in [Holders -> Keys \cup {Blank}]
        /\ newKey \in [Holders -> Keys \cup {Blank}]
        /\ keyFd \in [Holders -> {"none", "tmp", "file"}]
        /\ authPc \in [Holders -> {"idle", "cookie", "open", "write", "rename", "apply"}]
    BY DEF G!Init
  <2>3. restarts \in 0 .. MaxRestarts
    BY <2>1, BoundAssumption
  <2>4. G!TypeOK
    BY <2>1, <2>2, <2>3 DEF G!TypeOK
  <2> QED BY <2>1, <2>4 DEF KeyInv, RotationInv, Rotating
<1> QED BY <1>1, KeyStep, KeyAlone, PTL

-----------------------------------------------------------------------------
(* The live view: one capture server, for somebody (vnc.go) *)

\* The viewers that look.
Inside == {v \in Viewers : viewerPc[v] = "in"}
Steps == {"out", "lock", "launch", "port", "ready", "in"}
\* Whoever launches holds startMu, and the viewers inside are counted.
ViewInv ==
    /\ viewerPc \in [L!Clients -> Steps]
    /\ startMu \in L!Clients \cup {None} /\ cmd \in Captures \cup {None}
    /\ capture \in [Captures -> {"none", "up", "told", "exited"}]
    /\ clients = Cardinality(Inside)
    /\ {running, pinned, armed, graceOver, forsaken} \subseteq BOOLEAN
    /\ L!OneServer /\ L!ServerIsWatched
    /\ running <=> cmd # None
    /\ \A c \in L!Clients : /\ viewerPc[c] \in {"launch", "port"} => startMu = c
                            /\ viewerPc[c] = "launch" => ~running

\* What the rest of the node does leaves this service alone.
LEMMA ViewAlone == Spec => L!Init /\ [][L!Next]_(L!vars)
<1>1. Init => L!Init
  BY DEF Init
<1>2. [Next]_vars => [L!Next]_(L!vars)
  BY DEF Next, vars, svars, avars, pvars, yvars, bvars, lvars, cvars, gvars, nvars,
         jvars, tvars, kvars, xvars, L!vars, L!state
<1> QED BY <1>1, <1>2, PTL DEF Spec

\* The viewers inside are a number of them.
LEMMA InsideCounted == IsFiniteSet(Inside) /\ Cardinality(Inside) \in Nat
  BY NothingAssumption, FS_Subset, FS_CardinalityType DEF Inside

\* Every step of a viewer, the pin, the idle stop or a server keeps it.
LEMMA ViewStep == ViewInv /\ [L!Next]_(L!vars) => ViewInv'
<1> SUFFICES ASSUME ViewInv, [L!Next]_(L!vars) PROVE ViewInv'
  OBVIOUS
<1> USE NothingAssumption DEF L!at, L!state, L!OneServer, L!ServerIsWatched
<1>0. \A v \in Viewers : v \in L!Clients
  BY DEF L!Clients
<1>p. Pinner \in L!Clients /\ None \notin L!Clients /\ None \notin Captures
  BY DEF L!Clients
<1>n. clients \in Nat
  BY InsideCounted DEF ViewInv
<1>s. ASSUME NEW c \in L!Clients, NEW q \in Steps \ {"in"}, viewerPc[c] # "in",
             viewerPc' = [viewerPc EXCEPT ![c] = q]
      PROVE  viewerPc' \in [L!Clients -> Steps] /\ Inside' = Inside
  BY <1>s, <1>0 DEF ViewInv, Inside
<1>1. ASSUME NEW c \in L!Clients, L!Ask(c) PROVE ViewInv'
  <2>1. viewerPc' \in [L!Clients -> Steps] /\ Inside' = Inside
    BY <1>1, <1>s DEF L!Ask, Steps
  <2> QED BY <1>1, <2>1, <1>p DEF ViewInv, L!Ask
<1>2. ASSUME NEW c \in L!Clients, L!AlreadyRunning(c) PROVE ViewInv'
  <2>1. viewerPc' \in [L!Clients -> Steps] /\ Inside' = Inside
    BY <1>2, <1>s DEF L!AlreadyRunning, Steps
  <2> QED BY <1>2, <2>1, <1>p DEF ViewInv, L!AlreadyRunning
<1>3. ASSUME NEW c \in L!Clients, L!BeginStart(c) PROVE ViewInv'
  <2>1. viewerPc' \in [L!Clients -> Steps] /\ Inside' = Inside
    BY <1>3, <1>s DEF L!BeginStart, Steps
  <2> QED BY <1>3, <2>1, <1>p DEF ViewInv, L!BeginStart
<1>4. ASSUME NEW c \in L!Clients, L!Launch(c) PROVE ViewInv'
  <2>1. viewerPc' \in [L!Clients -> Steps] /\ Inside' = Inside
    BY <1>4, <1>s DEF L!Launch, Steps
  <2> QED BY <1>4, <2>1, <1>p DEF ViewInv, L!Launch
<1>5. ASSUME NEW c \in L!Clients, L!LaunchFails(c) PROVE ViewInv'
  <2>1. viewerPc' \in [L!Clients -> Steps] /\ Inside' = Inside
    BY <1>5, <1>s DEF L!LaunchFails, Steps
  <2> QED BY <1>5, <2>1, <1>p DEF ViewInv, L!LaunchFails
<1>6. ASSUME NEW c \in L!Clients, L!PortOpens(c) PROVE ViewInv'
  <2>1. viewerPc' \in [L!Clients -> Steps] /\ Inside' = Inside
    BY <1>6, <1>s DEF L!PortOpens, Steps
  <2> QED BY <1>6, <2>1, <1>p DEF ViewInv, L!PortOpens
<1>7. ASSUME NEW c \in L!Clients, L!PortTimeout(c) PROVE ViewInv'
  <2>1. viewerPc' \in [L!Clients -> Steps] /\ Inside' = Inside
    BY <1>7, <1>s DEF L!PortTimeout, Steps
  <2> QED BY <1>7, <2>1, <1>p DEF ViewInv, L!PortTimeout
<1>8. ASSUME NEW v \in Viewers, L!Connect(v) PROVE ViewInv'
  <2>1. /\ viewerPc' \in [L!Clients -> Steps]
        /\ Inside' = Inside \cup {v} /\ v \notin Inside
    BY <1>8, <1>0 DEF ViewInv, L!Connect, Inside, Steps
  <2>2. Cardinality(Inside') = clients + 1
    BY <2>1, InsideCounted, FS_AddElement DEF ViewInv
  <2>3. /\ clients' = clients + 1 /\ clients' > 0
        /\ viewerPc[v] = "ready" /\ viewerPc' = [viewerPc EXCEPT ![v] = "in"]
        /\ armed' = FALSE
        /\ UNCHANGED <<startMu, cmd, running, pinned, graceOver, capture, forsaken>>
    BY <1>8, <1>n DEF L!Connect
  <2>4. \A c \in L!Clients :
           viewerPc'[c] \in {"launch", "port"} => viewerPc'[c] = viewerPc[c]
    BY <2>3 DEF ViewInv
  <2>5. L!OneServer' /\ L!ServerIsWatched'
    BY <2>3 DEF ViewInv
  <2> QED BY <2>1, <2>2, <2>3, <2>4, <2>5, <1>p DEF ViewInv
<1>9. ASSUME NEW v \in Viewers, L!Disconnect(v) PROVE ViewInv'
  <2>1. /\ viewerPc' \in [L!Clients -> Steps]
        /\ Inside' = Inside \ {v} /\ v \in Inside
    BY <1>9, <1>0 DEF ViewInv, L!Disconnect, Inside, Steps
  <2>2. Cardinality(Inside') = clients - 1 /\ Cardinality(Inside') \in Nat
    BY <2>1, InsideCounted, FS_RemoveElement, FS_CardinalityType DEF ViewInv
  <2> QED BY <1>9, <2>1, <2>2, <1>0, <1>p, <1>n DEF ViewInv, L!Disconnect
<1>10. CASE L!PinOn
  <2>1. viewerPc' \in [L!Clients -> Steps] /\ Inside' = Inside
    BY <1>10, <1>s, <1>p DEF L!PinOn, Steps
  <2> QED BY <1>10, <2>1, <1>p DEF ViewInv, L!PinOn
<1>t. ASSUME L!stop, UNCHANGED <<viewerPc, startMu, clients, forsaken>>,
             {pinned', armed', graceOver'} \subseteq BOOLEAN
      PROVE  ViewInv'
  <2>1. /\ cmd' = None /\ running' = FALSE
        /\ capture' = [s \in Captures |-> IF s = cmd /\ capture[s] = "up" THEN "told"
                                          ELSE capture[s]]
    BY <1>t DEF L!stop
  <2>2. /\ capture' \in [Captures -> {"none", "up", "told", "exited"}]
        /\ \A s \in Captures : capture'[s] # "up"
    BY <2>1 DEF ViewInv
  <2>3. Inside' = Inside
    BY <1>t DEF Inside
  <2> QED BY <1>t, <2>1, <2>2, <2>3 DEF ViewInv
<1>11. CASE L!PinOff
  <2>1. CASE clients = 0
    BY <1>11, <2>1, <1>t DEF ViewInv, L!PinOff
  <2>2. CASE clients # 0
    <3>1. /\ clients > 0 /\ pinned' = FALSE
          /\ UNCHANGED <<viewerPc, startMu, cmd, running, clients, armed, graceOver,
                         capture, forsaken>>
      BY <1>11, <2>2, <1>n DEF L!PinOff
    <3> QED BY <3>1 DEF ViewInv, Inside
  <2> QED BY <2>1, <2>2
<1>12. CASE L!Expire
  BY <1>12, <1>p DEF ViewInv, L!Expire, Inside
<1>13. CASE L!IdleStop
  <2>1. CASE clients = 0 /\ ~pinned
    BY <1>13, <2>1, <1>t DEF ViewInv, L!IdleStop
  <2>2. CASE ~(clients = 0 /\ ~pinned)
    <3>1. /\ (clients > 0 \/ pinned) /\ graceOver' = FALSE
          /\ UNCHANGED <<viewerPc, startMu, cmd, running, clients, pinned, armed,
                         capture, forsaken>>
      BY <1>13, <2>2, <1>n DEF L!IdleStop
    <3> QED BY <3>1 DEF ViewInv, Inside
  <2> QED BY <2>1, <2>2
<1>14. ASSUME NEW s \in Captures, L!Exit(s) PROVE ViewInv'
  BY <1>14, <1>p DEF ViewInv, L!Exit, L!live, Inside
<1>15. ASSUME NEW s \in Captures, L!Reap(s) PROVE ViewInv'
  BY <1>15, <1>p DEF ViewInv, L!Reap, Inside
<1>16. CASE UNCHANGED L!vars
  BY <1>16 DEF ViewInv, L!vars, Inside
<1> QED
  BY <1>1, <1>2, <1>3, <1>4, <1>5, <1>6, <1>7, <1>8, <1>9, <1>10, <1>11, <1>12,
     <1>13, <1>14, <1>15, <1>16 DEF L!Next

\* The invariant of this service holds at the start, and so throughout.
LEMMA ViewHolds == Spec => []ViewInv
<1>1. L!Init => ViewInv
  <2> SUFFICES ASSUME L!Init PROVE ViewInv
    OBVIOUS
  <2>1. \A c \in L!Clients : viewerPc[c] = "out"
    BY DEF L!Init
  <2>2. Inside = {}
    BY <2>1 DEF Inside, L!Clients
  <2>3. clients = Cardinality(Inside)
    BY <2>2, FS_EmptySet DEF L!Init
  <2>4. L!OneServer /\ L!ServerIsWatched
    BY DEF L!Init, L!OneServer, L!ServerIsWatched
  <2> QED BY <2>1, <2>3, <2>4 DEF L!Init, ViewInv, Steps
<1> QED BY <1>1, ViewStep, ViewAlone, PTL

\* The invariant contains the types.
LEMMA ViewTyped == ASSUME ViewInv PROVE L!TypeOK
<1>1. L!Cardinality(Inside) = Cardinality(Inside)
  BY DEF L!Cardinality, Cardinality
<1>2. {running, pinned, armed, graceOver, forsaken} \subseteq BOOLEAN
  BY Zenon DEF ViewInv
<1>3. /\ viewerPc \in [L!Clients -> {"out", "lock", "launch", "port", "ready", "in"}]
      /\ startMu \in L!Clients \cup {None} /\ cmd \in Captures \cup {None}
      /\ capture \in [Captures -> {"none", "up", "told", "exited"}]
      /\ clients = Cardinality(Inside)
  BY DEF ViewInv, Steps
<1> QED BY <1>1, <1>2, <1>3 DEF L!TypeOK, Inside

-----------------------------------------------------------------------------
(* HTTPS: the listener on record, and its certificate (tls.go) *)

\* What listens next has a certificate, and what is renamed next was made.
TlsInv ==
    /\ X!TypeOK /\ X!ListenerKnown /\ X!AlwaysACert
    /\ pairs \in Nat
    /\ step \in {"out", "ensure", "generate", "rename", "renameCert", "listen",
                 "close", "save"}
    /\ step = "listen" => cert # 0
    /\ step \in {"rename", "renameCert"} => pairs # 0
    /\ ~up => mu = "free" /\ ~X!bound

\* What the rest of the node does leaves this service alone.
LEMMA TlsAlone == Spec => X!Init /\ [][X!Next]_(X!vars)
<1>1. Init => X!Init
  BY DEF Init
<1>2. [Next]_vars => [X!Next]_(X!vars)
  BY DEF Next, vars, svars, avars, pvars, yvars, bvars, lvars, cvars, gvars, nvars,
         jvars, tvars, kvars, xvars, X!vars, X!fields, X!files
<1> QED BY <1>1, <1>2, PTL DEF Spec

\* Every step under mu, of a listener, the clock or a crash keeps it.
LEMMA TlsStep == TlsInv /\ [X!Next]_(X!vars) => TlsInv'
<1> SUFFICES ASSUME TlsInv, [X!Next]_(X!vars) PROVE TlsInv'
  OBVIOUS
<1> USE BoundAssumption, NothingAssumption
    DEF TlsInv, X!TypeOK, X!ListenerKnown, X!AlwaysACert, X!bound, X!files,
        X!fields, X!leave
<1>1. ASSUME NEW r \in {"enable", "regenerate", "disable"}, X!Begin(r) PROVE TlsInv'
  BY <1>1 DEF X!Begin
<1>2. CASE X!EnsureCert
  BY <1>2 DEF X!EnsureCert
<1>3. CASE X!WritePair
  BY <1>3 DEF X!WritePair
<1>4. CASE X!GenerateFails
  BY <1>4 DEF X!GenerateFails
<1>5. CASE X!RenameKey
  BY <1>5 DEF X!RenameKey
<1>6. CASE X!RenameCert
  BY <1>6 DEF X!RenameCert
<1>7. CASE X!Listen
  BY <1>7 DEF X!Listen
<1>8. CASE X!NoListen
  BY <1>8 DEF X!NoListen
<1>9. CASE X!Close
  BY <1>9 DEF X!Close
<1>10. CASE X!SaveFlag
  BY <1>10 DEF X!SaveFlag
<1>11. ASSUME NEW s \in Listeners, X!ListenerDies(s) PROVE TlsInv'
  <2>1. /\ listener[s] = "serving" /\ listener' = [listener EXCEPT ![s] = "failed"]
        /\ UNCHANGED <<mu, step, enabled, cert, srv, keyFile, certFile, flag, pairs,
                       dead, up>>
    BY <1>11 DEF X!ListenerDies, X!fields, X!files
  <2>2. /\ listener' \in [Listeners -> {"none", "serving", "failed"}]
        /\ \A l \in Listeners : listener'[l] = "serving" => listener[l] = "serving"
    BY <2>1 DEF X!TypeOK
  <2>3. X!TypeOK'
    BY <2>1, <2>2 DEF X!TypeOK
  <2>4. X!bound' => X!bound
    BY <2>2 DEF X!bound
  <2> QED BY <2>1, <2>2, <2>3, <2>4 DEF X!ListenerKnown, X!AlwaysACert
<1>12. ASSUME NEW s \in Listeners, X!ListenerGone(s) PROVE TlsInv'
  <2>1. /\ listener[s] = "failed" /\ mu = "free"
        /\ listener' = [listener EXCEPT ![s] = "none"]
        /\ UNCHANGED <<mu, step, cert, keyFile, certFile, flag, pairs, dead, up>>
        /\ \/ srv = s /\ srv' = None /\ enabled' = FALSE
           \/ srv # s /\ srv' = srv /\ enabled' = enabled
    BY <1>12 DEF X!ListenerGone, X!files
  <2>2. /\ listener' \in [Listeners -> {"none", "serving", "failed"}]
        /\ \A l \in Listeners : listener'[l] = "serving" =>
              listener[l] = "serving" /\ l # s
    BY <2>1 DEF X!TypeOK
  <2>3. X!TypeOK'
    BY <2>1, <2>2 DEF X!TypeOK
  <2>4. X!bound' => X!bound
    BY <2>2 DEF X!bound
  <2>5. X!ListenerKnown'
    BY <2>1, <2>2 DEF X!ListenerKnown
  <2> QED BY <2>1, <2>2, <2>3, <2>4, <2>5 DEF X!AlwaysACert
<1>13. CASE X!Expire
  BY <1>13 DEF X!Expire
<1>14. CASE X!Crash
  <2>1. /\ mu' = "free" /\ step' = "out" /\ up' = FALSE /\ srv' = None /\ cert' = 0
        /\ enabled' = FALSE /\ listener' = [s \in Listeners |-> "none"]
        /\ UNCHANGED <<keyFile, certFile, flag, pairs, dead>>
    BY <1>14 DEF X!Crash
  <2>2. \A s \in Listeners : listener'[s] # "serving"
    BY <2>1
  <2>3. /\ mu' \in {"free", "enable", "regenerate", "disable"}
        /\ (mu' = "free") = (step' = "out")
        /\ {enabled', flag', up'} \subseteq BOOLEAN /\ srv' \in Listeners \cup {None}
    BY <2>1
  <2>4. {cert', keyFile', certFile'} \cup dead' \subseteq 0 .. pairs'
    BY <2>1
  <2>5. listener' \in [Listeners -> {"none", "serving", "failed"}]
    BY <2>1
  <2> QED BY <2>1, <2>2, <2>3, <2>4, <2>5
<1>15. CASE X!Start
  BY <1>15 DEF X!Start
<1>16. CASE UNCHANGED X!vars
  BY <1>16 DEF X!vars
<1> QED
  BY <1>1, <1>2, <1>3, <1>4, <1>5, <1>6, <1>7, <1>8, <1>9, <1>10, <1>11, <1>12,
     <1>13, <1>14, <1>15, <1>16 DEF X!Next

\* The invariant of this service holds at the start, and so throughout.
LEMMA TlsHolds == Spec => []TlsInv
<1>1. X!Init => TlsInv
  <2> SUFFICES ASSUME X!Init PROVE TlsInv
    OBVIOUS
  <2>1. X!TypeOK
    <3>1. /\ mu = "free" /\ step = "out" /\ enabled = FALSE /\ flag = FALSE /\ up = TRUE
          /\ srv = None /\ pairs = 0 /\ dead = {}
          /\ cert = 0 /\ keyFile = 0 /\ certFile = 0
      BY DEF X!Init
    <3>2. {cert, keyFile, certFile} \cup dead \subseteq 0 .. pairs
      BY <3>1
    <3>3. listener \in [Listeners -> {"none", "serving", "failed"}]
      BY DEF X!Init
    <3> QED BY <3>1, <3>2, <3>3 DEF X!TypeOK
  <2>2. \A s \in Listeners : listener[s] # "serving"
    BY DEF X!Init
  <2> QED BY <2>1, <2>2 DEF X!Init, TlsInv, X!ListenerKnown, X!AlwaysACert, X!bound
<1> QED BY <1>1, TlsStep, TlsAlone, PTL

-----------------------------------------------------------------------------
(* The overlay network: what is cached never goes back (tailscale.go) *)

\* What the daemon is, what is cached of it, and the locals of a call.
Backends == [joined : BOOLEAN, serving : BOOLEAN, revision : Nat]
Statuses == [joined : BOOLEAN, serve : BOOLEAN, revision : Nat]
Locals == [then : {"idle", "shred", "joined?", "again", "logout"},
           for : {"up", "serve", "down"}, want : BOOLEAN, answer : Statuses]
\* refreshMu is held from before the status is asked for until it is stored, so
\* an answer that waits to be stored is no older than what is cached.
TailscaleInv ==
    /\ backend \in Backends /\ cached \in Statuses /\ serve \in BOOLEAN
    /\ loc \in [T!Threads -> Locals]
    /\ tsPc \in [T!Threads -> {"idle", "status", "refresh", "ask", "store",
                               "up", "serve", "save", "write", "again",
                               "logout", "joined?", "shred"}]
    /\ refresher \in T!Threads \cup {None}
    /\ \A t \in T!Threads : refresher = t <=> tsPc[t] \in {"ask", "store"}
    /\ cached.revision <= backend.revision
    /\ \A t \in T!Threads :
          /\ loc[t].answer.revision <= backend.revision
          /\ tsPc[t] = "store" => cached.revision <= loc[t].answer.revision

\* What the rest of the node does leaves this service alone.
LEMMA TailscaleAlone == Spec => T!Init /\ [][T!Next]_(T!vars)
<1>1. Init => T!Init
  BY DEF Init
<1>2. [Next]_vars => [T!Next]_(T!vars)
  BY DEF Next, vars, svars, avars, pvars, yvars, bvars, lvars, cvars, gvars, nvars,
         jvars, tvars, kvars, xvars, T!vars
<1> QED BY <1>1, <1>2, PTL DEF Spec

\* A backend with another revision, or other settings, is a backend.
LEMMA BackendChanges ==
  ASSUME NEW b \in Backends, NEW v \in BOOLEAN
  PROVE  /\ [b EXCEPT !.revision = @ + 1] \in Backends
         /\ [b EXCEPT !.revision = @ + 1].revision = b.revision + 1
         /\ \A d \in {[b EXCEPT !.joined = v], [b EXCEPT !.serving = v]} :
                d \in Backends /\ d.revision = b.revision
  BY DEF Backends

\* Every change the code makes is one revision of it.
LEMMA Changed ==
  ASSUME backend \in Backends, NEW v \in BOOLEAN,
         \/ T!change([backend EXCEPT !.joined = v])
         \/ T!change([backend EXCEPT !.serving = v])
  PROVE  backend' \in Backends /\ backend'.revision = backend.revision + 1
<1>1. \A d \in {[backend EXCEPT !.joined = v], [backend EXCEPT !.serving = v]} :
         d \in Backends /\ d.revision = backend.revision
  BY BackendChanges
<1>2. \A d \in Backends :
         T!change(d) => backend' \in Backends /\ backend'.revision = d.revision + 1
  BY BackendChanges DEF T!change
<1> QED BY <1>1, <1>2

\* The answer of a call can be put in its place.
LEMMA Answered ==
  ASSUME NEW l \in Locals, NEW a \in Statuses
  PROVE  [l EXCEPT !.answer = a] \in Locals /\ [l EXCEPT !.answer = a].answer = a
  BY DEF Locals

\* A call begins without an answer.
LEMMA Fresh ==
  /\ T!NoStatus \in Statuses /\ T!NoStatus.revision = 0
  /\ T!Fresh \in Locals /\ T!Fresh.answer.revision = 0
  /\ \A q \in {"up", "serve", "down"}, on \in BOOLEAN :
         /\ [T!Fresh EXCEPT !.for = q, !.want = on] \in Locals
         /\ [T!Fresh EXCEPT !.for = q, !.want = on].answer.revision = 0
  BY DEF T!Fresh, T!NoStatus, Locals, Statuses

\* A step outside a refresh: the thread moves on, the backend may have changed,
\* and no answer is touched.
LEMMA Later ==
  ASSUME TailscaleInv, NEW t \in T!Threads, tsPc[t] \notin {"ask", "store"},
         NEW p \in {"idle", "refresh", "up", "serve", "save", "write", "again", "logout",
                   "shred"},
         tsPc' = [tsPc EXCEPT ![t] = p],
         \/ loc' = loc
         \/ \E x \in {"idle", "shred", "joined?", "again", "logout"} :
               loc' = [loc EXCEPT ![t].then = x],
         \/ backend' = backend
         \/ /\ backend' \in Backends
            /\ backend'.revision = backend.revision + 1,
         serve' \in BOOLEAN, UNCHANGED <<cached, refresher>>
  PROVE  TailscaleInv' /\ cached'.revision >= cached.revision
<1> USE DEF TailscaleInv
<1>1. /\ loc' \in [T!Threads -> Locals]
      /\ \A u \in T!Threads : loc'[u].answer = loc[u].answer
  BY DEF Locals
<1>2. /\ backend' \in Backends /\ backend'.revision >= backend.revision
      /\ \A u \in T!Threads : loc[u].answer.revision \in Nat
      /\ cached.revision \in Nat /\ backend.revision \in Nat
      /\ backend'.revision \in Nat
  BY DEF Backends, Locals, Statuses
<1>3. /\ tsPc' \in [T!Threads -> {"idle", "status", "refresh", "ask", "store",
                                  "up", "serve", "save", "write", "again",
                                  "logout", "joined?", "shred"}]
      /\ \A u \in T!Threads :
            tsPc'[u] \in {"ask", "store"} <=> tsPc[u] \in {"ask", "store"}
      /\ \A u \in T!Threads : tsPc'[u] = "store" => tsPc[u] = "store"
  OBVIOUS
<1> QED BY <1>1, <1>2, <1>3

\* Every step of a request, the ticker or the first boot keeps it, and caches
\* nothing older than what is cached.
LEMMA TailscaleStep ==
  ASSUME TailscaleInv, [T!Next]_(T!vars)
  PROVE  TailscaleInv' /\ cached'.revision >= cached.revision
<1> DEFINE Goal == TailscaleInv' /\ cached'.revision >= cached.revision
           Still == UNCHANGED <<backend, cached, serve, refresher>>
<1> USE DEF T!move, T!refreshing
<1>a. \A c \in Callers : c \in T!Threads
  BY DEF T!Threads
<1>b. Boot \in T!Threads /\ None \notin T!Threads
  BY NothingAssumption DEF T!Threads
<1>c. /\ serve \in BOOLEAN /\ cached.revision \in Nat /\ backend.revision \in Nat
      /\ \A t \in T!Threads :
            /\ loc[t] \in Locals /\ loc[t].answer \in Statuses
            /\ loc[t].answer.revision \in Nat /\ loc[t].want \in BOOLEAN
            /\ loc[t].then \in {"idle", "shred", "joined?", "again", "logout"}
            /\ loc[t].for \in {"up", "serve", "down"}
  BY DEF TailscaleInv, Backends, Statuses, Locals
<1>d. backend \in Backends /\ loc \in [T!Threads -> Locals]
  BY DEF TailscaleInv
<1>1. ASSUME NEW t \in T!Threads, T!RefreshBegins(t) PROVE Goal
  <2>1. /\ refresher = None /\ refresher' = t /\ UNCHANGED <<backend, cached, serve>>
        /\ tsPc[t] = "refresh" /\ tsPc' = [tsPc EXCEPT ![t] = "ask"]
        /\ loc' = [loc EXCEPT ![t].answer.serve = serve]
    BY <1>1 DEF T!RefreshBegins, T!lockRefresh
  <2>2. /\ [loc[t] EXCEPT !.answer.serve = serve] \in Locals
        /\ [loc[t] EXCEPT !.answer.serve = serve].answer.revision
              = loc[t].answer.revision
    BY <1>c DEF Locals, Statuses
  <2>3. /\ loc' \in [T!Threads -> Locals]
        /\ \A u \in T!Threads : loc'[u].answer.revision = loc[u].answer.revision
    BY <2>1, <2>2 DEF TailscaleInv
  <2> QED BY <2>1, <2>3, <1>b, <1>c DEF TailscaleInv
<1>2. ASSUME NEW t \in T!Threads, T!StatusAnswers(t) PROVE Goal
  <2>1. /\ loc' \in [T!Threads -> Locals] /\ loc'[t].answer.revision = backend.revision
        /\ \A u \in T!Threads \ {t} : loc'[u] = loc[u]
    <3>1. PICK v \in {backend.joined, FALSE} :
             loc' = [loc EXCEPT ![t].answer.joined = v,
                                ![t].answer.revision = backend.revision]
      BY <1>2 DEF T!StatusAnswers
    <3>2. v \in BOOLEAN
      BY <1>d DEF Backends
    <3> DEFINE half == [loc EXCEPT ![t].answer.joined = v]
    <3>3. [loc[t] EXCEPT !.answer.joined = v] \in Locals
      BY <1>c, <3>2 DEF Locals, Statuses
    <3>4. half \in [T!Threads -> Locals] /\ \A u \in T!Threads \ {t} : half[u] = loc[u]
      BY <3>3, <1>d
    <3>5. loc' = [half EXCEPT ![t].answer.revision = backend.revision]
      BY <3>1
    <3> HIDE DEF half
    <3>6. half[t] \in Locals
      BY <3>4
    <3>7. /\ [half[t] EXCEPT !.answer.revision = backend.revision] \in Locals
          /\ [half[t] EXCEPT !.answer.revision = backend.revision].answer.revision
                = backend.revision
      BY <1>c, <3>6 DEF Locals, Statuses
    <3> QED BY <3>4, <3>5, <3>7
  <2>2. /\ tsPc[t] = "ask" /\ tsPc' = [tsPc EXCEPT ![t] = "store"]
        /\ UNCHANGED <<backend, cached, serve, refresher>>
    BY <1>2 DEF T!StatusAnswers
  <2> QED BY <2>1, <2>2, <1>c DEF TailscaleInv
<1>3. ASSUME NEW t \in T!Threads, T!Store(t) PROVE Goal
  <2>1. /\ tsPc[t] = "store" /\ tsPc' = [tsPc EXCEPT ![t] = loc[t].then]
        /\ cached' = loc[t].answer /\ refresher' = None
        /\ UNCHANGED <<backend, serve>>
        /\ \/ loc' = [loc EXCEPT ![t] = T!Fresh]
           \/ loc' = [loc EXCEPT ![t] = [loc[t] EXCEPT !.answer = T!NoStatus]]
    BY <1>3 DEF T!Store
  <2>3. /\ [loc[t] EXCEPT !.answer = T!NoStatus] \in Locals
        /\ [loc[t] EXCEPT !.answer = T!NoStatus].answer.revision = 0
    <3>1. loc[t] \in Locals
      BY <1>c
    <3>2. T!NoStatus \in Statuses /\ T!NoStatus.revision = 0
      BY Fresh
    <3> HIDE DEF T!move, T!refreshing
    <3>3. \A l \in Locals, a \in Statuses :
             [l EXCEPT !.answer = a] \in Locals /\ [l EXCEPT !.answer = a].answer = a
      BY Answered
    <3> QED BY ONLY <3>1, <3>2, <3>3
  <2>4. /\ loc' \in [T!Threads -> Locals] /\ loc'[t].answer.revision = 0
        /\ \A u \in T!Threads \ {t} : loc'[u] = loc[u]
    BY <2>1, <2>3, Fresh DEF TailscaleInv
  <2>5. \A u \in T!Threads : tsPc'[u] \notin {"ask", "store"}
    BY <2>1, <1>c DEF TailscaleInv
  <2>6. \A u \in T!Threads : /\ loc[u].answer.revision <= backend.revision
                              /\ loc'[u].answer.revision <= backend'.revision
    <3>1. \A u \in T!Threads : loc[u].answer.revision <= backend.revision
      BY Zenon DEF TailscaleInv
    <3>2. 0 <= backend.revision /\ backend' = backend
      BY <2>1, <1>c
    <3> QED BY <3>1, <3>2, <2>4
  <2>7. cached' \in Statuses /\ cached'.revision >= cached.revision
    BY <2>1, <1>c DEF TailscaleInv
  <2>8. /\ backend' \in Backends /\ serve' \in BOOLEAN /\ refresher' = None
        /\ cached'.revision <= backend'.revision
    BY <2>1, <2>6, <1>c, <1>d
  <2>9. tsPc' \in [T!Threads -> {"idle", "status", "refresh", "ask", "store",
                                 "up", "serve", "save", "write", "again",
                                 "logout", "joined?", "shred"}]
    BY <2>1, <1>c DEF TailscaleInv
  <2> QED BY <1>b, <2>4, <2>5, <2>6, <2>7, <2>8, <2>9 DEF TailscaleInv
<1>4. ASSUME NEW t \in T!Threads, T!Refresh(t) PROVE Goal
  BY <1>4, <1>c, Later DEF T!Refresh
<1>5. ASSUME NEW t \in T!Threads, T!Up(t) PROVE Goal
  <2>1. backend' \in Backends /\ backend'.revision = backend.revision + 1
    BY <1>5, Changed DEF T!Up, TailscaleInv
  <2>2. /\ UNCHANGED <<cached, serve, refresher>>
        /\ \/ loc' = loc
           \/ \E x \in {"shred", "idle"} : loc' = [loc EXCEPT ![t].then = x]
        /\ tsPc[t] = "up"
        /\ \E x \in {"serve", "refresh"} : tsPc' = [tsPc EXCEPT ![t] = x]
    BY <1>5 DEF T!Up
  <2> QED BY <2>1, <2>2, <1>c, Later
<1>6. ASSUME NEW t \in T!Threads, T!UpFails(t) PROVE Goal
  BY <1>6, <1>c, Later DEF T!UpFails
<1>7. ASSUME NEW c \in Callers, NEW q \in {"up", "serve", "down"}, NEW on \in BOOLEAN,
             T!Ask(c, q, on)
      PROVE  Goal
  <2>1. /\ UNCHANGED <<backend, cached, serve, refresher>>
        /\ loc' = [loc EXCEPT ![c] = [T!Fresh EXCEPT !.for = q, !.want = on]]
        /\ tsPc[c] = "idle" /\ \E x \in {"up", "serve"} : tsPc' = [tsPc EXCEPT ![c] = x]
    BY <1>7 DEF T!Ask
  <2>2. /\ loc' \in [T!Threads -> Locals] /\ loc'[c].answer.revision = 0
        /\ \A u \in T!Threads \ {c} : loc'[u] = loc[u]
    BY <2>1, <1>a, Fresh DEF TailscaleInv
  <2> QED BY <2>1, <2>2, <1>a, <1>c DEF TailscaleInv
<1>8. ASSUME NEW c \in Callers, T!SetServe(c) PROVE Goal
  <2>1. backend' \in Backends /\ backend'.revision = backend.revision + 1
    BY <1>8, <1>a, <1>c, Changed DEF T!SetServe, TailscaleInv
  <2>2. /\ UNCHANGED <<cached, loc, refresher>> /\ serve' \in BOOLEAN
        /\ tsPc[c] = "serve" /\ tsPc' = [tsPc EXCEPT ![c] = "save"]
    BY <1>8, <1>a, <1>c DEF T!SetServe
  <2> QED BY <2>1, <2>2, <1>a, Later
<1>9. ASSUME NEW c \in Callers, T!ServeFails(c) PROVE Goal
  <2>1. /\ Still
        /\ loc' = loc \/ loc' = [loc EXCEPT ![c].then = "idle"]
        /\ tsPc[c] = "serve"
        /\ \E x \in {"refresh", "logout", "idle"} : tsPc' = [tsPc EXCEPT ![c] = x]
    BY <1>9, <1>a, <1>c DEF T!ServeFails
  <2> QED BY <2>1, <1>a, <1>c, Later
<1>10. ASSUME NEW c \in Callers, T!ReadServe(c) PROVE Goal
  <2>1. /\ Still /\ loc' = [loc EXCEPT ![c].want = serve]
        /\ tsPc[c] = "save" /\ tsPc' = [tsPc EXCEPT ![c] = "write"]
    BY <1>10 DEF T!ReadServe
  <2>2. [loc[c] EXCEPT !.want = serve] \in Locals
        /\ [loc[c] EXCEPT !.want = serve].answer = loc[c].answer
    BY <1>a, <1>c DEF Locals
  <2>3. /\ loc' \in [T!Threads -> Locals]
        /\ \A u \in T!Threads : loc'[u].answer = loc[u].answer
    BY <1>a, <2>1, <2>2 DEF TailscaleInv
  <2> QED BY <2>1, <2>3, <1>a, <1>c DEF TailscaleInv
<1>11. ASSUME NEW c \in Callers, T!WriteServe(c) PROVE Goal
  <2>1. /\ Still
        /\ \E x \in {"again", "logout", "idle"} : loc' = [loc EXCEPT ![c].then = x]
        /\ tsPc[c] = "write" /\ tsPc' = [tsPc EXCEPT ![c] = "refresh"]
    BY <1>11, <1>a, <1>c DEF T!WriteServe
  <2> QED BY <2>1, <1>a, <1>c, Later
<1>12. ASSUME NEW c \in Callers, T!UpRefreshes(c) PROVE Goal
  BY <1>12, <1>a, <1>c, Later DEF T!UpRefreshes
<1>13. ASSUME NEW c \in Callers, T!Logout(c) PROVE Goal
  <2>1. /\ UNCHANGED <<cached, serve, refresher>>
        /\ loc' = loc \/ loc' = [loc EXCEPT ![c].then = "idle"]
        /\ tsPc[c] = "logout"
        /\ \E x \in {"refresh", "idle"} : tsPc' = [tsPc EXCEPT ![c] = x]
    BY <1>13 DEF T!Logout
  <2>2. backend' = backend \/ T!change([backend EXCEPT !.joined = FALSE])
    BY <1>13 DEF T!Logout
  <2>3. \/ backend' = backend
        \/ backend' \in Backends /\ backend'.revision = backend.revision + 1
    BY <2>2, <1>d, Changed
  <2> QED BY <2>1, <2>3, <1>a, <1>c, Later
<1>14. CASE T!BootReadsKey
  BY <1>14, <1>b, <1>c, Later DEF T!BootReadsKey
<1>15. CASE T!BootJoins
  BY <1>15, <1>b, <1>c, Later DEF T!BootJoins
<1>16. CASE T!shredKeyFile
  BY <1>16, <1>b, <1>c, Later DEF T!shredKeyFile
<1>17. CASE UNCHANGED T!vars
  BY <1>17, <1>c DEF T!vars, TailscaleInv
<1> QED
  BY <1>1, <1>2, <1>3, <1>4, <1>5, <1>6, <1>7, <1>8, <1>9, <1>10, <1>11, <1>12, <1>13,
     <1>14, <1>15, <1>16, <1>17 DEF T!Next

\* The invariant of this service holds at the start, and so throughout.
LEMMA TailscaleHolds == Spec => []TailscaleInv
<1>1. T!Init => TailscaleInv
  <2> SUFFICES ASSUME T!Init PROVE TailscaleInv
    OBVIOUS
  <2>1. backend \in Backends /\ backend.revision = 0
    BY DEF T!Init, Backends
  <2>2. cached \in Statuses /\ cached.revision = 0 /\ serve \in BOOLEAN /\ refresher = None
    BY DEF T!Init, Statuses, T!NoStatus
  <2>3. \A t \in T!Threads : tsPc[t] \in {"status", "idle"} /\ loc[t] = T!Fresh
    BY DEF T!Init
  <2>4. /\ loc \in [T!Threads -> Locals]
        /\ tsPc \in [T!Threads -> {"status", "idle"}]
    BY Fresh DEF T!Init
  <2>5. None \notin T!Threads
    BY NothingAssumption DEF T!Threads
  <2>6. \A t \in T!Threads : refresher # t /\ tsPc[t] \notin {"ask", "store"}
    BY <2>2, <2>3, <2>5
  <2>7. \A t \in T!Threads : loc[t].answer.revision = 0
    BY <2>3, Fresh
  <2> QED BY <2>1, <2>2, <2>4, <2>6, <2>7 DEF TailscaleInv
<1> QED BY <1>1, TailscaleStep, TailscaleAlone, PTL

\* The flags of the overlay network, and the bound of its revisions.
TailscaleTypes ==
    serveFile \in BOOLEAN /\ staged \in BOOLEAN /\ backend.revision <= MaxRevision

\* Every step keeps those, and with the invariant they are the types.
LEMMA TailscaleTyped ==
  /\ T!Init => TailscaleTypes
  /\ TailscaleInv /\ TailscaleTypes /\ [T!Next]_(T!vars) => TailscaleTypes'
  /\ TailscaleInv /\ TailscaleTypes => T!TypeOK
<1>1. T!Init => TailscaleTypes
  BY BoundAssumption DEF T!Init, TailscaleTypes
<1>2. ASSUME TailscaleInv, TailscaleTypes, [T!Next]_(T!vars) PROVE TailscaleTypes'
  <2> USE DEF TailscaleTypes
  <2>1. backend \in Backends /\ backend.revision \in Nat /\ MaxRevision \in Nat
    BY <1>2, BoundAssumption DEF TailscaleInv, Backends
  <2>a. TailscaleTypes
    BY <1>2
  <2>2. ASSUME NEW v \in BOOLEAN,
               \/ T!change([backend EXCEPT !.joined = v])
               \/ T!change([backend EXCEPT !.serving = v])
        PROVE  backend'.revision <= MaxRevision
    <3>1. backend'.revision = backend.revision + 1
      BY <2>1, <2>2, Changed
    <3>2. backend.revision < MaxRevision
      BY <2>2 DEF T!change
    <3> QED BY <2>1, <3>1, <3>2
  <2>3. \A t \in T!Threads : loc[t].want \in BOOLEAN
    BY <1>2 DEF TailscaleInv, Locals
  <2>4. \A c \in Callers : c \in T!Threads
    BY DEF T!Threads
  <2>5. ASSUME NEW t \in T!Threads,
               \/ T!RefreshBegins(t) \/ T!StatusAnswers(t) \/ T!Store(t)
               \/ T!Refresh(t) \/ T!UpFails(t)
        PROVE  TailscaleTypes'
    BY <2>a, <2>5 DEF T!RefreshBegins, T!StatusAnswers, T!Store, T!Refresh, T!UpFails
  <2>6. ASSUME NEW t \in T!Threads, T!Up(t) PROVE TailscaleTypes'
    BY <2>a, <2>2, <2>6 DEF T!Up
  <2>7. ASSUME NEW c \in Callers, T!SetServe(c) PROVE TailscaleTypes'
    BY <2>a, <2>2, <2>3, <2>4, <2>7 DEF T!SetServe
  <2>8. ASSUME NEW c \in Callers, T!WriteServe(c) PROVE TailscaleTypes'
    BY <2>a, <2>3, <2>4, <2>8 DEF T!WriteServe
  <2>9. ASSUME NEW c \in Callers, T!Logout(c) PROVE TailscaleTypes'
    BY <2>a, <2>2, <2>9 DEF T!Logout
  <2>10. ASSUME NEW c \in Callers,
                \/ \E request \in {"up", "serve", "down"}, on \in BOOLEAN :
                       T!Ask(c, request, on)
                \/ T!ServeFails(c) \/ T!ReadServe(c) \/ T!UpRefreshes(c)
         PROVE  TailscaleTypes'
    BY <2>a, <2>10 DEF T!Ask, T!ServeFails, T!ReadServe, T!UpRefreshes
  <2>11. CASE T!BootReadsKey \/ T!BootJoins \/ T!shredKeyFile
    BY <2>a, <2>11 DEF T!BootReadsKey, T!BootJoins, T!shredKeyFile
  <2>12. CASE UNCHANGED T!vars
    BY <2>a, <2>12 DEF T!vars
  <2> QED
    BY <1>2, <2>5, <2>6, <2>7, <2>8, <2>9, <2>10, <2>11, <2>12 DEF T!Next
<1>3. TailscaleInv /\ TailscaleTypes => T!TypeOK
  BY DEF TailscaleInv, TailscaleTypes, T!TypeOK, Backends, Statuses
<1> QED BY <1>1, <1>2, <1>3

-----------------------------------------------------------------------------
(* The packages: no check records what an upgrade has overtaken (apt.go) *)

\* Where a job is that has claimed Apt's slot.
InSlot == {"simulate", "record", "release", "upgrade", "upgraded"}
Done == [upgrades : Nat, installs : Nat]
\* One job at most is in the slot, and while it checks nobody upgrades.
PackagesInv ==
    /\ {checking, upgrading} \subseteq BOOLEAN
    /\ system \in Done /\ simulated \in [Jobs -> Done]
    /\ jobPc \in [Jobs -> InSlot \cup {"idle", "claim", "recheck", "install",
                                       "installed", "finish"}]
    /\ \A j \in Jobs :
          /\ jobPc[j] \in {"simulate", "record", "release"} => checking /\ ~upgrading
          /\ jobPc[j] \in {"upgrade", "upgraded"} => upgrading /\ ~checking
          /\ jobPc[j] = "record" => simulated[j].upgrades = system.upgrades
    /\ \A i, j \in Jobs : jobPc[i] \in InSlot /\ jobPc[j] \in InSlot => i = j
CountedAfter == count' # count => count'.upgrades = system.upgrades

\* What the rest of the node does leaves this service alone.
LEMMA PackagesAlone == Spec => K!Init /\ [][K!Next]_(K!vars)
<1>1. Init => K!Init
  BY DEF Init
<1>2. [Next]_vars => [K!Next]_(K!vars)
  BY DEF Next, vars, svars, avars, pvars, yvars, bvars, lvars, cvars, gvars, nvars,
         jvars, tvars, kvars, xvars, K!vars, K!apt, K!setup, K!machine
<1> QED BY <1>1, <1>2, PTL DEF Spec

\* Every step of a job keeps it, and records only what is true of the system.
LEMMA PackagesStep == PackagesInv /\ [K!Next]_(K!vars) => PackagesInv' /\ CountedAfter
<1> SUFFICES ASSUME PackagesInv, [K!Next]_(K!vars) PROVE PackagesInv' /\ CountedAfter
  OBVIOUS
<1> USE BoundAssumption
    DEF PackagesInv, Done, InSlot, CountedAfter, K!apt, K!setup, K!machine, K!at,
        K!taken, K!Results, K!Nothing
<1> DEFINE Goal == PackagesInv' /\ CountedAfter
<1>1. ASSUME NEW j \in Jobs, K!Check(j) PROVE Goal
  BY <1>1 DEF K!Check
<1>2. ASSUME NEW j \in Jobs, K!CheckSkipped(j) PROVE Goal
  BY <1>2 DEF K!CheckSkipped
<1>3. ASSUME NEW j \in Jobs, K!Simulate(j) PROVE Goal
  BY <1>3 DEF K!Simulate
<1>4. ASSUME NEW j \in Jobs, K!SimulateFails(j) PROVE Goal
  BY <1>4 DEF K!SimulateFails
<1>5. ASSUME NEW j \in Jobs, K!Record(j) PROVE Goal
  BY <1>5 DEF K!Record
<1>6. ASSUME NEW j \in Jobs, K!CheckDone(j) PROVE Goal
  BY <1>6 DEF K!CheckDone
<1>7. ASSUME NEW j \in Jobs, K!AskUpgrade(j) PROVE Goal
  BY <1>7 DEF K!AskUpgrade
<1>8. ASSUME NEW j \in Jobs, K!BeginUpgrade(j) PROVE Goal
  BY <1>8 DEF K!BeginUpgrade
<1>9. ASSUME NEW j \in Jobs, K!UpgradeBusy(j) PROVE Goal
  BY <1>9 DEF K!UpgradeBusy
<1>10. ASSUME NEW j \in Jobs, K!Upgrade(j) PROVE Goal
  BY <1>10 DEF K!Upgrade
<1>11. ASSUME NEW j \in Jobs, K!UpgradeDone(j) PROVE Goal
  BY <1>11 DEF K!UpgradeDone
<1>12. ASSUME NEW j \in Jobs, K!BeginInstall(j) PROVE Goal
  BY <1>12 DEF K!BeginInstall
<1>13. ASSUME NEW j \in Jobs, K!Install(j) PROVE Goal
  BY <1>13 DEF K!Install
<1>14. ASSUME NEW j \in Jobs, K!InstallDone(j) PROVE Goal
  BY <1>14 DEF K!InstallDone
<1>15. ASSUME NEW j \in Jobs, K!AskFinish(j) PROVE Goal
  BY <1>15 DEF K!AskFinish
<1>16. ASSUME NEW j \in Jobs, K!Finish(j) PROVE Goal
  BY <1>16 DEF K!Finish
<1>17. CASE K!Settle
  BY <1>17 DEF K!Settle
<1>18. CASE K!Busy
  BY <1>18 DEF K!Busy
<1>19. CASE UNCHANGED K!vars
  BY <1>19 DEF K!vars
<1> QED
  BY <1>1, <1>2, <1>3, <1>4, <1>5, <1>6, <1>7, <1>8, <1>9, <1>10, <1>11, <1>12,
     <1>13, <1>14, <1>15, <1>16, <1>17, <1>18, <1>19 DEF K!Next

\* The invariant of this service holds at the start, and so throughout.
LEMMA PackagesHolds == Spec => []PackagesInv
<1>1. K!Init => PackagesInv
  <2> SUFFICES ASSUME K!Init PROVE PackagesInv
    OBVIOUS
  <2>1. K!Nothing \in Done
    BY DEF K!Nothing, Done
  <2>2. \A j \in Jobs : jobPc[j] = "idle"
    BY DEF K!Init
  <2> QED BY <2>1, <2>2 DEF K!Init, PackagesInv, InSlot
<1> QED BY <1>1, PackagesStep, PackagesAlone, PTL

\* The types of the packages are kept by themselves.
LEMMA PackagesTyped ==
  /\ K!Init => K!TypeOK
  /\ K!TypeOK /\ [K!Next]_(K!vars) => K!TypeOK'
<1> USE BoundAssumption
<1>a. \A d \in [upgrades : 0 .. MaxUpgrades, installs : 0 .. MaxUpgrades] :
         /\ d.upgrades < MaxUpgrades => [d EXCEPT !.upgrades = d.upgrades + 1]
               \in [upgrades : 0 .. MaxUpgrades, installs : 0 .. MaxUpgrades]
         /\ d.installs < MaxUpgrades => [d EXCEPT !.installs = d.installs + 1]
               \in [upgrades : 0 .. MaxUpgrades, installs : 0 .. MaxUpgrades]
  OBVIOUS
<1>b. K!Nothing \in [upgrades : 0 .. MaxUpgrades, installs : 0 .. MaxUpgrades]
  BY DEF K!Nothing
<1>1. K!Init => K!TypeOK
  <2> SUFFICES ASSUME K!Init PROVE K!TypeOK
    OBVIOUS
  <2>1. /\ system = K!Nothing /\ count = K!Nothing /\ simulated = [j \in Jobs |-> K!Nothing]
        /\ jobPc = [j \in Jobs |-> "idle"]
    BY DEF K!Init
  <2>2. /\ {checking, upgrading, installing, setupComplete, settled, busy} \subseteq BOOLEAN
        /\ {lastResult, installed} \subseteq K!Results
    BY DEF K!Init, K!Results
  <2> QED BY <1>b, <2>1, <2>2 DEF K!TypeOK, K!Changes
<1>2. ASSUME K!TypeOK, [K!Next]_(K!vars) PROVE K!TypeOK'
  <2> DEFINE Counts == [upgrades : 0 .. MaxUpgrades, installs : 0 .. MaxUpgrades]
             Places == {"idle", "simulate", "record", "release", "claim", "upgrade",
                   "upgraded", "recheck", "install", "installed", "finish"}
             Flat == /\ {checking, upgrading, installing, setupComplete, settled, busy}
                             \subseteq BOOLEAN
                       /\ {lastResult, installed} \subseteq {"", "ok", "failed"}
                       /\ system \in Counts /\ count \in Counts /\ simulated \in [Jobs -> Counts]
                       /\ jobPc \in [Jobs -> Places]
  <2>1. K!TypeOK => Flat
    BY DEF K!TypeOK, K!Results, K!Changes
  <2>2. Flat' => K!TypeOK'
    BY DEF K!TypeOK, K!Results, K!Changes
  <2>3. Flat'
    <3>1. Flat
      BY <1>2, <2>1
    <3>2. ASSUME NEW j \in Jobs,
                 \/ K!Check(j) \/ K!CheckSkipped(j) \/ K!SimulateFails(j) \/ K!CheckDone(j)
                 \/ K!AskUpgrade(j) \/ K!BeginUpgrade(j) \/ K!UpgradeBusy(j)
                 \/ K!UpgradeDone(j) \/ K!BeginInstall(j) \/ K!InstallDone(j)
                 \/ K!AskFinish(j) \/ K!Finish(j)
          PROVE  Flat'
      BY <3>1, <3>2 DEF K!Check, K!CheckSkipped, K!SimulateFails, K!CheckDone,
         K!AskUpgrade, K!BeginUpgrade, K!UpgradeBusy, K!UpgradeDone, K!BeginInstall,
         K!InstallDone, K!AskFinish, K!Finish, K!apt, K!setup, K!machine, K!at
    <3>3. ASSUME NEW j \in Jobs, K!Simulate(j) PROVE Flat'
      BY <3>1, <3>3 DEF K!Simulate, K!apt, K!setup, K!machine, K!at
    <3>6. ASSUME NEW j \in Jobs, K!Record(j) PROVE Flat'
      <4>1. simulated' = [simulated EXCEPT ![j] = K!Nothing] /\ count' = simulated[j]
        BY <3>6 DEF K!Record
      <4>2. simulated' \in [Jobs -> Counts] /\ count' \in Counts
        BY <1>b, <3>1, <4>1
      <4> QED BY <3>1, <3>6, <4>2 DEF K!Record, K!setup, K!machine, K!at
    <3>4. ASSUME NEW j \in Jobs, K!Upgrade(j) \/ K!Install(j) PROVE Flat'
      <4>1. system' \in Counts
        BY <1>a, <3>1, <3>4 DEF K!Upgrade, K!Install
      <4> QED BY <3>1, <3>4, <4>1 DEF K!Upgrade, K!Install, K!apt, K!setup, K!at
    <3>5. CASE K!Settle \/ K!Busy \/ UNCHANGED K!vars
      BY <3>1, <3>5 DEF K!Settle, K!Busy, K!vars, K!apt, K!setup, K!machine
    <3> HIDE DEF Flat
    <3> QED BY <1>2, <3>2, <3>3, <3>4, <3>5, <3>6 DEF K!Next
  <2> QED BY <2>2, <2>3
<1> QED BY <1>1, <1>2

-----------------------------------------------------------------------------
(* The persisted state: what it keeps apart, and that the file follows (state.go) *)
\* The lists of the state are filtered as Ranking filters.
LEMMA SameRankingP == \A e, D : P!Kept(e, D) = Kept(e, D)
BY DEF P!Kept, Kept, P!Arranged, Arranged, P!preceding, preceding, P!Cardinality,
   Cardinality

Past  == {m \in Shows : ~m.off}
Own   == [id : CustomIds, launch : Launchers]
Label == [m \in Past |-> m.label]
OwnId == [c \in Own |-> c.id]

\* The keys tell the entries of a list apart.
Told(k, l) == \A i, j \in 1 .. Len(l) : i # j => k[l[i]] # k[l[j]]

\* Only the first entry of the history can be what is on screen.
Heads(m, h) == \A i \in 1 .. Len(h) : m # NoMode /\ h[i].label = m.label => i = 1

GoodState(s) ==
    /\ s = [active |-> s.active, setupComplete |-> s.setupComplete,
            history |-> s.history, customModes |-> s.customModes,
            localInput |-> s.localInput]
    /\ s.active \in Shows \cup {NoMode}
    /\ s.history \in Seq(Past) /\ Len(s.history) <= MaxHistory
    /\ Told(Label, s.history) /\ Heads(s.active, s.history)
    /\ s.customModes \in Seq(Own) /\ Told(OwnId, s.customModes)

\* What is kept of a list is told apart, and what comes first came first.
Thinned(Z, k, e, D, m) ==
    /\ m \in Seq(Z) /\ Len(m) <= Len(e) /\ Told(k, m)
    /\ \A j \in 1 .. Len(m) : \E i \in D : m[j] = e[i] /\ (i = 1 => j = 1)

\* What is kept of a list that tells its elements apart still does.
LEMMA KeptTold ==
  ASSUME NEW Z, NEW e \in Seq(Z), NEW k, Told(k, e), NEW D, D \subseteq DOMAIN e
  PROVE  Thinned(Z, k, e, D, Kept(e, D))
<1> DEFINE c == Cardinality(D)
           m == Kept(e, D)
<1>1. Len(e) \in Nat /\ DOMAIN e = 1 .. Len(e)
  BY LenProperties
<1>2. PICK order \in [1 .. c -> D] : KeptBy(Z, e, D, order)
  BY KeptFacts
<1>3. /\ c \in Nat /\ c <= Len(e) /\ m = [i \in 1 .. c |-> e[order[i]]]
      /\ m \in Seq(Z) /\ Len(m) = c
      /\ \A i, j \in 1 .. c : i < j => order[i] < order[j]
      /\ \A i, j \in 1 .. c : order[i] = order[j] => i = j
  BY <1>2 DEF KeptBy
<1> HIDE DEF c, m
<1>4. \A i \in 1 .. c : m[i] = e[order[i]] /\ order[i] \in D /\ order[i] \in 1 .. Len(e)
  BY <1>1, <1>3
<1>5. Told(k, m)
  BY <1>3, <1>4 DEF Told
<1>6. ASSUME NEW j \in 1 .. c, order[j] = 1 PROVE j = 1
  <2>1. j # 1 => 1 \in 1 .. c /\ 1 < j
    BY <1>3
  <2>2. j # 1 => order[1] < 1 /\ order[1] \in 1 .. Len(e)
    BY <1>3, <1>4, <1>6, <2>1
  <2> QED BY <1>1, <2>2
<1> QED BY <1>3, <1>4, <1>5, <1>6 DEF m, Thinned

Showing(s, m, h) == [s EXCEPT !.active = m, !.history = h]

\* A change of one part leaves the others as good as they were.
LEMMA HistoryGood ==
  ASSUME NEW s, GoodState(s), NEW m \in Shows \cup {NoMode}, NEW h \in Seq(Past),
         Len(h) <= MaxHistory, Told(Label, h), Heads(m, h)
  PROVE  GoodState(Showing(s, m, h))
<1> DEFINE t == Showing(s, m, h)
<1>1. PICK a, b, c, d, e : s = [active |-> a, setupComplete |-> b, history |-> c,
                                customModes |-> d, localInput |-> e]
  BY DEF GoodState
<1>5. t = [active |-> m, setupComplete |-> b, history |-> h,
           customModes |-> d, localInput |-> e]
  <2> DEFINE q == [s EXCEPT !.active = m]
  <2>1. q = [active |-> m, setupComplete |-> b, history |-> c,
             customModes |-> d, localInput |-> e]
    BY <1>1
  <2>2. t = [q EXCEPT !.history = h]
    BY DEF Showing
  <2> HIDE DEF q, t
  <2>3. [q EXCEPT !.history = h] = [active |-> m, setupComplete |-> b, history |-> h,
                                    customModes |-> d, localInput |-> e]
    BY <2>1
  <2> QED BY <2>2, <2>3
<1> HIDE DEF t
<1>2. t.active = m /\ t.history = h /\ t.customModes = s.customModes
  BY <1>1, <1>5
<1>3. s.customModes \in Seq(Own) /\ Told(OwnId, s.customModes)
  BY DEF GoodState
<1>4. GoodState(t)
  BY <1>2, <1>3, <1>5 DEF GoodState
<1> QED BY <1>4 DEF t

\* What is shown heads the history, and the rest of it keeps its order.
LEMMA RecordGood ==
  ASSUME NEW s, GoodState(s), NEW m \in Shows PROVE GoodState(P!RecordMode(s, m))
<1> DEFINE old == s.history
           rest == P!without(old, m.label)
           full == <<m>> \o rest
           h == P!capped(full)
           D == {i \in DOMAIN old : old[i].label # m.label}
<1>1. /\ old \in Seq(Past) /\ Len(old) <= MaxHistory /\ Told(Label, old)
      /\ Len(old) \in Nat /\ DOMAIN old = 1 .. Len(old) /\ \A i \in 1 .. Len(old) : old[i] \in Past
  BY LenProperties DEF GoodState
<1>2. CASE m.off
  <2>1. Heads(m, old)
    <3>1. \A i \in 1 .. Len(old) : old[i].label # m.label
      BY <1>1, <1>2, ShowsAssumption DEF Past
    <3> QED BY <3>1 DEF Heads
  <2>2. P!RecordMode(s, m) = Showing(s, m, old)
    BY <1>2 DEF P!RecordMode, GoodState, Showing
  <2> HIDE DEF old
  <2> QED BY <1>1, <2>1, <2>2, HistoryGood
<1>3. CASE ~m.off
  <2>1. m \in Past
    BY <1>3 DEF Past
  <2>2. rest = Kept(old, D)
    BY SameRankingP DEF P!without
  <2>3. Thinned(Past, Label, old, D, rest)
    <3>1. D \subseteq DOMAIN old
      OBVIOUS
    <3> HIDE DEF D
    <3> QED BY <1>1, <2>2, <3>1, KeptTold
  <2> HIDE DEF rest
  <2>4. /\ rest \in Seq(Past) /\ Len(rest) \in Nat /\ Told(Label, rest)
        /\ \A j \in 1 .. Len(rest) : rest[j] \in Past /\ rest[j].label # m.label
    <3>1. rest \in Seq(Past) /\ Told(Label, rest)
      BY <2>3 DEF Thinned
    <3>2. Len(rest) \in Nat /\ \A j \in 1 .. Len(rest) : rest[j] \in Past
      BY <3>1, LenProperties
    <3>3. \A j \in 1 .. Len(rest) : \E i \in D : rest[j] = old[i]
      BY <2>3 DEF Thinned
    <3>4. \A j \in 1 .. Len(rest) : rest[j].label # m.label
      BY <3>3
    <3> QED BY <3>1, <3>2, <3>4
  <2>5. /\ full \in Seq(Past) /\ Len(full) = Len(rest) + 1 /\ full[1] = m
        /\ \A i \in 2 .. Len(full) : i - 1 \in 1 .. Len(rest) /\ full[i] = rest[i - 1]
    <3>1. <<m>> \in Seq(Past) /\ Len(<<m>>) = 1 /\ <<m>>[1] = m
      BY <2>1
    <3> DEFINE one == <<m>>
    <3> HIDE DEF one
    <3>2. /\ one \o rest \in Seq(Past) /\ Len(one \o rest) = 1 + Len(rest)
          /\ \A i \in 1 .. 1 + Len(rest) : (one \o rest)[i] =
                 IF i <= 1 THEN one[i] ELSE rest[i - 1]
      BY <2>4, <3>1, ConcatProperties DEF one
    <3>3. full = one \o rest
      BY DEF one
    <3> HIDE DEF full
    <3>4. \A i \in 2 .. Len(full) :
              i - 1 \in 1 .. Len(rest) /\ i \in 1 .. 1 + Len(rest) /\ ~(i <= 1)
      BY <2>4, <3>2, <3>3
    <3>5. 1 \in 1 .. 1 + Len(rest) /\ 1 <= 1
      BY <2>4
    <3>6. full[1] = m
      BY <3>1, <3>2, <3>3, <3>5 DEF one
    <3>7. \A i \in 2 .. Len(full) : full[i] = rest[i - 1]
      BY <3>2, <3>3, <3>4
    <3> QED BY <2>4, <3>2, <3>3, <3>4, <3>6, <3>7
  <2> HIDE DEF full
  <2> DEFINE n == Len(full)
  <2>6. n \in Nat /\ n > 0 /\ \A i \in 1 .. n : i = 1 \/ i \in 2 .. n
    BY <2>4, <2>5
  <2>7. Told(Label, full)
    <3> SUFFICES ASSUME NEW i \in 1 .. n, NEW j \in 1 .. n, i # j
                 PROVE  Label[full[i]] # Label[full[j]]
      BY DEF Told
    <3>1. m \in DOMAIN Label /\ Label[m] = m.label
          /\ \A k \in 1 .. Len(rest) : Label[rest[k]] # Label[m]
      BY <2>1, <2>4 DEF Label
    <3>2. CASE i = 1
      BY <2>5, <2>6, <3>1, <3>2
    <3>3. CASE j = 1
      BY <2>5, <2>6, <3>1, <3>3
    <3>4. CASE i # 1 /\ j # 1
      <4>1. i \in 2 .. n /\ j \in 2 .. n /\ i - 1 # j - 1
        BY <2>6, <3>4
      <4> QED BY <2>4, <2>5, <4>1 DEF Told
    <3> QED BY <3>2, <3>3, <3>4
  <2>8. /\ h \in Seq(Past) /\ Len(h) \in Nat /\ Len(h) <= MaxHistory /\ Len(h) <= n
        /\ \A i \in 1 .. Len(h) : h[i] = full[i]
    <3>1. CASE n > MaxHistory
      <4>1. h = SubSeq(full, 1, MaxHistory)
        BY <3>1 DEF P!capped
      <4>2. \A i \in 1 .. MaxHistory : full[i] \in Past
        <5>1. \A i \in 1 .. MaxHistory : i \in 1 .. n
          BY <2>6, <3>1, ShowsAssumption
        <5> QED BY <2>5, <5>1, LenProperties
      <4>3. /\ SubSeq(full, 1, MaxHistory) \in Seq(Past)
            /\ Len(SubSeq(full, 1, MaxHistory)) =
                   IF 1 <= MaxHistory THEN MaxHistory - 1 + 1 ELSE 0
            /\ \A i \in 1 .. MaxHistory - 1 + 1 :
                   SubSeq(full, 1, MaxHistory)[i] = full[1 + i - 1]
        BY <4>2, ShowsAssumption, SubSeqProperties
      <4> HIDE DEF h
      <4>4. Len(h) = MaxHistory
        BY <4>1, <4>3, ShowsAssumption
      <4>5. \A i \in 1 .. Len(h) : i \in 1 .. MaxHistory - 1 + 1 /\ 1 + i - 1 = i
        BY <4>4, ShowsAssumption
      <4> QED BY <2>6, <3>1, <4>1, <4>3, <4>4, <4>5, ShowsAssumption
    <3>2. CASE ~(n > MaxHistory)
      BY <2>5, <2>6, <3>2, ShowsAssumption DEF P!capped
    <3> QED BY <3>1, <3>2
  <2> HIDE DEF h
  <2>9. \A i \in 1 .. Len(h) : i \in 1 .. n
    BY <2>6, <2>8
  <2>10. Told(Label, h)
    BY <2>7, <2>8, <2>9 DEF Told
  <2>11. Heads(m, h)
    <3> SUFFICES ASSUME NEW i \in 1 .. Len(h), h[i].label = m.label PROVE i = 1
      BY DEF Heads
    <3>1. i \in 2 .. n => full[i].label # m.label
      BY <2>4, <2>5
    <3> QED BY <2>6, <2>8, <2>9, <3>1
  <2>12. P!RecordMode(s, m) = Showing(s, m, h)
    BY <1>3 DEF P!RecordMode, GoodState, h, full, rest, Showing
  <2> QED BY <2>8, <2>10, <2>11, <2>12, HistoryGood
<1> QED BY <1>2, <1>3, ShowsAssumption

\* Every change of the state keeps it good.
LEMMA ChangeGood ==
  ASSUME NEW s, GoodState(s), NEW t \in P!Changes(s) PROVE GoodState(t)
<1>1. PICK a, b, c, d, e : s = [active |-> a, setupComplete |-> b, history |-> c,
                                customModes |-> d, localInput |-> e]
  BY DEF GoodState
<1>2. /\ s.history \in Seq(Past) /\ Len(s.history) <= MaxHistory
      /\ Told(Label, s.history) /\ Heads(s.active, s.history)
      /\ s.active \in Shows \cup {NoMode}
      /\ s.customModes \in Seq(Own) /\ Told(OwnId, s.customModes)
      /\ Len(s.history) \in Nat /\ DOMAIN s.history = 1 .. Len(s.history)
      /\ Len(s.customModes) \in Nat /\ DOMAIN s.customModes = 1 .. Len(s.customModes)
      /\ \A i \in 1 .. Len(s.customModes) : s.customModes[i] \in Own
  BY LenProperties DEF GoodState
<1>3. ASSUME NEW x PROVE GoodState(P!DeleteHistory(s, x))
  <2> DEFINE D == {i \in DOMAIN s.history : s.history[i].label # x}
             m == Kept(s.history, D)
  <2>1. Thinned(Past, Label, s.history, D, m)
    <3>1. D \subseteq DOMAIN s.history
      OBVIOUS
    <3> HIDE DEF D
    <3> QED BY <1>2, <3>1, KeptTold
  <2>2. P!DeleteHistory(s, x) = Showing(s, s.active, m)
    <3>1. P!without(s.history, x) = m
      BY SameRankingP DEF P!without
    <3> HIDE DEF m
    <3>2. P!DeleteHistory(s, x) = [s EXCEPT !.history = m]
      BY <1>1, <3>1 DEF P!DeleteHistory
    <3> QED BY <1>1, <3>2 DEF Showing
  <2> HIDE DEF m, D
  <2>3. m \in Seq(Past) /\ Len(m) \in Nat /\ Len(m) <= MaxHistory /\ Told(Label, m)
    BY <1>2, <2>1, LenProperties, ShowsAssumption DEF Thinned
  <2>4. Heads(s.active, m)
    <3> SUFFICES ASSUME NEW j \in 1 .. Len(m), s.active # NoMode,
                        m[j].label = s.active.label
                 PROVE  j = 1
      BY DEF Heads
    <3>1. PICK i \in D : m[j] = s.history[i] /\ (i = 1 => j = 1)
      BY <2>1 DEF Thinned
    <3>2. i \in 1 .. Len(s.history)
      BY <1>2, <3>1 DEF D
    <3> QED BY <1>2, <3>1, <3>2 DEF Heads
  <2> QED BY <1>2, <2>2, <2>3, <2>4, HistoryGood
<1>4. GoodState(P!ClearHistory(s))
  <2>1. P!ClearHistory(s) = Showing(s, s.active, <<>>)
    BY <1>1 DEF P!ClearHistory, Showing
  <2>2. <<>> \in Seq(Past) /\ Len(<<>>) = 0
    BY EmptySeq
  <2>3. Told(Label, <<>>) /\ Heads(s.active, <<>>)
    BY <2>2 DEF Told, Heads
  <2>4. Len(<<>>) <= MaxHistory
    BY <2>2, ShowsAssumption
  <2> QED BY <1>2, <2>1, <2>2, <2>3, <2>4, HistoryGood
<1>5. ASSUME NEW v PROVE GoodState(P!SetSetupComplete(s, v)) /\ GoodState(P!SetLocalInput(s, v))
  <2>1. P!SetSetupComplete(s, v) = [active |-> a, setupComplete |-> v, history |-> c,
                                    customModes |-> d, localInput |-> e]
    BY <1>1 DEF P!SetSetupComplete
  <2>2. P!SetLocalInput(s, v) = [active |-> a, setupComplete |-> b, history |-> c,
                                 customModes |-> d, localInput |-> v]
    BY <1>1 DEF P!SetLocalInput
  <2>3. s.active = a /\ s.history = c /\ s.customModes = d
    BY <1>1
  <2> QED BY <1>2, <2>1, <2>2, <2>3 DEF GoodState
<1>6. ASSUME NEW l \in Seq(Own), Told(OwnId, l) PROVE GoodState([s EXCEPT !.customModes = l])
  <2>1. [s EXCEPT !.customModes = l] = [active |-> a, setupComplete |-> b, history |-> c,
                                        customModes |-> l, localInput |-> e]
    BY <1>1
  <2>2. s.active = a /\ s.history = c
    BY <1>1
  <2> QED BY <1>2, <1>6, <2>1, <2>2 DEF GoodState
<1>7. ASSUME NEW x \in Own PROVE GoodState(P!UpsertCustom(s, x))
  <2> DEFINE l == s.customModes
             n == Len(l)
  <2>1. /\ n \in Nat /\ DOMAIN l = 1 .. n /\ \A i \in 1 .. n : l[i] \in Own
        /\ \A i, j \in 1 .. n : i # j => OwnId[l[i]] # OwnId[l[j]]
        /\ l \in Seq(Own) /\ P!customIds(s) = {l[i].id : i \in 1 .. n}
    BY <1>2 DEF Told, P!customIds
  <2>2. \A y \in Own : OwnId[y] = y.id
    BY DEF OwnId
  <2>3. CASE x.id \in P!customIds(s)
    <3> DEFINE m == [i \in DOMAIN l |-> IF l[i].id = x.id THEN x ELSE l[i]]
    <3>1. P!UpsertCustom(s, x) = [s EXCEPT !.customModes = m]
      BY <1>1, <2>3 DEF P!UpsertCustom
    <3> HIDE DEF l, n
    <3>2. m \in [1 .. n -> Own]
      BY <2>1
    <3>3. m \in Seq(Own) /\ Len(m) = n
      BY <2>1, <3>2, IsASeq, LenProperties
    <3>4. \A i \in 1 .. n : m[i].id = l[i].id /\ m[i] \in Own
      BY <2>1
    <3> HIDE DEF m
    <3>5. Told(OwnId, m)
      BY <2>1, <2>2, <3>3, <3>4 DEF Told
    <3> QED BY <1>6, <3>1, <3>3, <3>5
  <2>4. CASE x.id \notin P!customIds(s)
    <3> DEFINE m == Append(l, x)
    <3>1. P!UpsertCustom(s, x) = [s EXCEPT !.customModes = m]
      BY <1>1, <2>4 DEF P!UpsertCustom
    <3>2. \A i \in 1 .. n : l[i].id # x.id
      BY <2>1, <2>4
    <3> HIDE DEF l
    <3>3. /\ m \in Seq(Own) /\ Len(m) = n + 1 /\ m[n + 1] = x
          /\ \A i \in 1 .. n : m[i] = l[i]
      BY <2>1, AppendProperties
    <3> HIDE DEF m, n
    <3>4. \A i \in 1 .. n + 1 : i = n + 1 \/ i \in 1 .. n
      BY <2>1
    <3>5. \A i, j \in 1 .. n + 1 : i # j => OwnId[m[i]] # OwnId[m[j]]
      BY <2>1, <2>2, <3>2, <3>3, <3>4
    <3>6. Told(OwnId, m)
      BY <3>3, <3>5 DEF Told
    <3> QED BY <1>6, <3>1, <3>3, <3>6
  <2> QED BY <2>3, <2>4
<1>8. ASSUME NEW x PROVE GoodState(P!DeleteCustom(s, x))
  <2> DEFINE l == s.customModes
             D == {i \in DOMAIN l : l[i].id # x}
             m == Kept(l, D)
  <2>1. Thinned(Own, OwnId, l, D, m)
    <3>1. D \subseteq DOMAIN l
      OBVIOUS
    <3> HIDE DEF D
    <3> QED BY <1>2, <3>1, KeptTold
  <2>2. P!DeleteCustom(s, x) = [s EXCEPT !.customModes = m]
    <3>1. P!Kept(l, D) = m
      BY SameRankingP
    <3>2. P!DeleteCustom(s, x) = [s EXCEPT !.customModes = P!Kept(l, D)]
      BY <1>1 DEF P!DeleteCustom
    <3> QED BY <3>1, <3>2
  <2> QED BY <1>6, <2>1, <2>2 DEF Thinned
<1>9. CASE \E m \in Shows : t = P!RecordMode(s, m)
  BY <1>9, RecordGood
<1>10. CASE \E cm \in Own : t = P!UpsertCustom(s, cm)
  BY <1>7, <1>10
<1>11. \/ \E m \in Shows : t = P!RecordMode(s, m)
       \/ \E x : t = P!DeleteHistory(s, x)
       \/ t = P!ClearHistory(s)
       \/ \E v : t = P!SetSetupComplete(s, v) \/ t = P!SetLocalInput(s, v)
       \/ \E cm \in Own : t = P!UpsertCustom(s, cm)
       \/ \E x : t = P!DeleteCustom(s, x)
  BY DEF P!Changes, Own
<1> QED BY <1>3, <1>4, <1>5, <1>8, <1>9, <1>10, <1>11

\* The state starts good.
LEMMA FreshGood == GoodState(P!Fresh)
<1>1. <<>> \in Seq(Past) /\ <<>> \in Seq(Own) /\ Len(<<>>) = 0
  BY EmptySeq
<1>2. Told(Label, <<>>) /\ Told(OwnId, <<>>) /\ Heads(NoMode, <<>>)
  BY <1>1 DEF Told, Heads
<1> QED BY <1>1, <1>2, ShowsAssumption DEF GoodState, P!Fresh

StateTells == P!StateKeyed /\ P!ActiveHeadsHistory

\* A good state has what the property says of it.
LEMMA GoodTells == GoodState(mem) => StateTells
<1> SUFFICES ASSUME GoodState(mem) PROVE StateTells
  OBVIOUS
<1> DEFINE h == mem.history
           c == mem.customModes
<1>1. /\ h \in Seq(Past) /\ c \in Seq(Own) /\ Told(Label, h) /\ Told(OwnId, c)
      /\ Heads(mem.active, h)
  BY DEF GoodState
<1> HIDE DEF h, c
<1>2. /\ DOMAIN h = 1 .. Len(h) /\ DOMAIN c = 1 .. Len(c)
      /\ \A i \in DOMAIN h : h[i] \in Past /\ Label[h[i]] = h[i].label
      /\ \A i \in DOMAIN c : c[i] \in Own /\ OwnId[c[i]] = c[i].id
  BY <1>1, LenProperties DEF Label, OwnId
<1>3. \A i, j \in DOMAIN h : i # j => h[i].label # h[j].label
  BY <1>1, <1>2 DEF Told
<1>4. \A i, j \in DOMAIN c : i # j => c[i].id # c[j].id
  BY <1>1, <1>2 DEF Told
<1>5. \A i \in DOMAIN h : mem.active # NoMode /\ h[i].label = mem.active.label => i = 1
  BY <1>1, <1>2 DEF Heads
<1> QED BY <1>3, <1>4, <1>5 DEF StateTells, P!StateKeyed, P!ActiveHeadsHistory, h, c

\* Whoever holds saveMu has a snapshot that is no older than the file, and unless
\* another save is still to come it is what is in memory; what is in memory, in a
\* snapshot and in the file is good.
StateInv ==
    /\ version \in 0 .. MaxStates /\ stateFile.version \in Nat
    /\ snap = [w \in Writers |-> snap[w]]
    /\ writerPc \in [Writers -> {"idle", "save", "write", "rename"}]
    /\ saver \in Writers \cup {None}
    /\ \A w \in Writers : saver = w <=> writerPc[w] \in {"write", "rename"}
    /\ \A w \in Writers : writerPc[w] = "rename" => tmp = snap[w]
    /\ \A w \in Writers : writerPc[w] \in {"write", "rename"} =>
          /\ snap[w].version \in Nat
          /\ stateFile.version <= snap[w].version /\ snap[w].version <= version
          /\ (\A v \in Writers : writerPc[v] # "save") => snap[w].state = mem
          /\ GoodState(snap[w].state)
    /\ stateFile.version <= version
    /\ P!FileSettles
    /\ GoodState(mem) /\ GoodState(stateFile.state)
Forward == stateFile'.version >= stateFile.version

\* What the rest of the node does leaves this service alone.
LEMMA StateAlone == Spec => P!Init /\ [][P!Next]_(P!vars)
<1>1. Init => P!Init
  BY DEF Init
<1>2. [Next]_vars => [P!Next]_(P!vars)
  BY DEF Next, vars, svars, avars, pvars, yvars, bvars, lvars, cvars, gvars, nvars,
         jvars, tvars, kvars, xvars, P!vars
<1> QED BY <1>1, <1>2, PTL DEF Spec

\* Every change, save, failure or crash keeps it, and takes the file forward.
LEMMA StateStep == StateInv /\ [P!Next]_(P!vars) => StateInv' /\ Forward
<1> SUFFICES ASSUME StateInv, [P!Next]_(P!vars) PROVE StateInv' /\ Forward
  OBVIOUS
<1> USE NothingAssumption, BoundAssumption DEF StateInv, Forward, P!FileSettles
<1>1. ASSUME NEW w \in Writers, P!Change(w) PROVE StateInv' /\ Forward
  <2>1. GoodState(mem')
    BY <1>1, ChangeGood DEF P!Change
  <2>2. version' \in 0 .. MaxStates /\ version <= version'
    BY <1>1 DEF P!Change
  <2> QED BY <1>1, <2>1, <2>2 DEF P!Change
<1>2. ASSUME NEW w \in Writers, P!Snapshot(w) PROVE StateInv' /\ Forward
  BY <1>2 DEF P!Snapshot
<1>3. ASSUME NEW w \in Writers, P!Write(w) PROVE StateInv' /\ Forward
  BY <1>3 DEF P!Write
<1>4. ASSUME NEW w \in Writers, P!Rename(w) PROVE StateInv' /\ Forward
  BY <1>4 DEF P!Rename, P!Unlock
<1>5. ASSUME NEW w \in Writers, P!SaveFails(w) PROVE StateInv' /\ Forward
  BY <1>5 DEF P!SaveFails, P!Unlock
<1>6. CASE P!Crash
  BY <1>6 DEF P!Crash
<1>7. CASE UNCHANGED P!vars
  BY <1>7 DEF P!vars
<1> QED BY <1>1, <1>2, <1>3, <1>4, <1>5, <1>6, <1>7 DEF P!Next

\* The invariant of this service holds at the start, and so throughout.
LEMMA StateHolds == Spec => []StateInv
<1>1. P!Init => StateInv
  BY NothingAssumption, BoundAssumption, FreshGood DEF P!Init, StateInv, P!FileSettles
<1> QED BY <1>1, StateStep, StateAlone, PTL

\* The invariant contains the types.
LEMMA StateTyped == StateInv => P!TypeOK
<1> SUFFICES ASSUME StateInv PROVE P!TypeOK
  OBVIOUS
<1>1. mem.active \in Shows \cup {NoMode} /\ mem.history \in Seq(Past)
      /\ Len(mem.history) <= MaxHistory
  BY DEF StateInv, GoodState
<1>2. mem.history \in Seq(Shows)
  <2>1. /\ Len(mem.history) \in Nat
        /\ mem.history = [i \in 1 .. Len(mem.history) |-> mem.history[i]]
        /\ \A i \in 1 .. Len(mem.history) : mem.history[i] \in Shows
    BY <1>1, LenProperties DEF Past
  <2> QED BY <2>1, IsASeq
<1> QED BY <1>1, <1>2 DEF StateInv, P!TypeOK

-----------------------------------------------------------------------------
(* The library: a name in it holds one whole upload (library.go) *)

\* What stands in a path.
Name == UNION {{p[i] : i \in 1 .. Len(p)} : p \in Paths}

\* The tree of paths.
Goes(p, x) == Len(p) <= Len(x) /\ \A i \in 1 .. Len(p) : p[i] = x[i]
Under(p, x) == [i \in 1 .. Len(x) |-> IF i <= Len(p) THEN p[i] ELSE x[i]]
Folder(x) == [i \in 1 .. Len(x) - 1 |-> x[i]]

\* A path, its depth and its folder.
LEMMA PathFacts ==
  ASSUME NEW p \in Paths
  PROVE  /\ p \in Seq(Name) /\ Len(p) \in Nat /\ Len(p) > 0 /\ DOMAIN p = 1 .. Len(p)
         /\ p = [i \in 1 .. Len(p) |-> p[i]]
<1>1. Len(p) \in Nat /\ Len(p) > 0 /\ p = [i \in 1 .. Len(p) |-> p[i]]
  <2>1. Len(p) \in Nat \ {0} /\ p = [i \in 1 .. Len(p) |-> p[i]]
    BY LibraryAssumption, Zenon
  <2> DEFINE n == Len(p)
  <2>2. n \in Nat \ {0} => n \in Nat /\ n > 0
    <3> HIDE DEF n
    <3> QED OBVIOUS
  <2> QED BY <2>1, <2>2
<1>2. \A i \in 1 .. Len(p) : p[i] \in Name
  BY DEF Name
<1>3. p \in Seq(Name)
  BY <1>1, <1>2, IsASeq
<1> QED BY <1>1, <1>3, LenProperties

\* A prefix goes through what it is a prefix of.
LEMMA PrefixGoes ==
  ASSUME NEW p \in Paths, NEW x \in Paths PROVE B!IsPrefix(p, x) <=> Goes(p, x)
<1> DEFINE n == Len(p)
           a == SubSeq(p, 1, n)
           b == SubSeq(x, 1, n)
<1>1. /\ n \in Nat /\ n > 0 /\ Len(x) \in Nat /\ p \in Seq(Name) /\ x \in Seq(Name)
  BY PathFacts
<1>2. B!IsPrefix(p, x) <=> n <= Len(x) /\ a = b
  BY DEF B!IsPrefix
<1>3. ASSUME n <= Len(x)
      PROVE  a = b <=> \A i \in 1 .. n : p[i] = x[i]
  <2>1. \A i \in 1 .. n : p[i] \in Name /\ x[i] \in Name
    <3>1. \A i \in 1 .. n : i \in 1 .. Len(x)
      BY <1>1, <1>3
    <3> QED BY <1>1, <3>1, LenProperties
  <2>2. /\ a \in Seq(Name) /\ Len(a) = n - 1 + 1
        /\ \A i \in 1 .. n - 1 + 1 : a[i] = p[1 + i - 1]
    BY <1>1, <2>1, SubSeqProperties
  <2>3. /\ b \in Seq(Name) /\ Len(b) = n - 1 + 1
        /\ \A i \in 1 .. n - 1 + 1 : b[i] = x[1 + i - 1]
    BY <1>1, <2>1, SubSeqProperties
  <2> HIDE DEF a, b, n
  <2>4. n - 1 + 1 = n /\ \A i \in 1 .. n : 1 + i - 1 = i
    BY <1>1
  <2>5. \A i \in 1 .. n : a[i] = p[i] /\ b[i] = x[i]
    BY <2>2, <2>3, <2>4
  <2>6. Len(a) = n /\ Len(b) = n
    BY <2>2, <2>3, <2>4
  <2>7. a = [i \in 1 .. n |-> a[i]] /\ b = [i \in 1 .. n |-> b[i]]
    BY <2>2, <2>3, <2>6, LenProperties
  <2>8. (\A i \in 1 .. n : a[i] = b[i]) => a = b
    BY <2>7
  <2> QED BY <2>5, <2>8
<1> QED BY <1>2, <1>3 DEF Goes

\* What is below goes through what is above.
LEMMA BelowGoes ==
  ASSUME NEW p \in Paths
  PROVE  B!below(p) = {x \in Paths : Len(p) < Len(x) /\ Goes(p, x)}
<1> SUFFICES ASSUME NEW x \in Paths
             PROVE  B!IsStrictPrefix(p, x) <=> Len(p) < Len(x) /\ Goes(p, x)
  BY DEF B!below
<1>1. /\ Len(p) \in Nat /\ Len(x) \in Nat
      /\ p = [i \in 1 .. Len(p) |-> p[i]] /\ x = [i \in 1 .. Len(x) |-> x[i]]
  BY PathFacts
<1>2. B!IsStrictPrefix(p, x) <=> Goes(p, x) /\ p # x
  BY PrefixGoes DEF B!IsStrictPrefix
<1>3. Goes(p, x) => Len(p) <= Len(x)
  BY DEF Goes
<1>4. Goes(p, x) /\ Len(p) = Len(x) => p = x
  BY <1>1 DEF Goes
<1>5. Len(p) < Len(x) => p # x
  <2>1. Len(p) \in Nat /\ Len(x) \in Nat
    BY <1>1
  <2>2. Len(p) < Len(x) => Len(p) # Len(x)
    BY <2>1
  <2> QED BY <2>2
<1>6. Len(p) <= Len(x) => Len(p) = Len(x) \/ Len(p) < Len(x)
  <2>1. Len(p) \in Nat /\ Len(x) \in Nat
    BY <1>1
  <2> QED BY <2>1
<1> QED BY <1>2, <1>3, <1>4, <1>5, <1>6

\* The folder of a path.
LEMMA FolderFacts ==
  ASSUME NEW x \in Paths
  PROVE  /\ B!Front(x) = Folder(x)
         /\ Len(x) = 1 => B!Front(x) = <<>>
         /\ Len(x) > 1 => Folder(x) \in Paths /\ Len(Folder(x)) = Len(x) - 1
<1> DEFINE n == Len(x) - 1
           a == SubSeq(x, 1, n)
<1>1. x \in Seq(Name) /\ Len(x) \in Nat /\ Len(x) > 0 /\ n \in Nat
  BY PathFacts
<1>2. \A i \in 1 .. n : x[i] \in Name
  <2>1. \A i \in 1 .. n : i \in 1 .. Len(x)
    BY <1>1
  <2> QED BY <1>1, <2>1, LenProperties
<1>3. /\ a \in Seq(Name) /\ Len(a) = IF 1 <= n THEN n - 1 + 1 ELSE 0
      /\ \A i \in 1 .. n - 1 + 1 : a[i] = x[1 + i - 1]
  BY <1>1, <1>2, SubSeqProperties
<1>4. B!Front(x) = a
  BY DEF B!Front
<1>5. Folder(x) = [i \in 1 .. n |-> x[i]]
  BY DEF Folder
<1> HIDE DEF a
<1>6. Len(a) = n
  <2>1. n \in Nat /\ Len(a) = IF 1 <= n THEN n - 1 + 1 ELSE 0
    BY <1>1, <1>3
  <2> HIDE DEF n
  <2> QED BY <2>1
<1>7. \A i \in 1 .. n : i \in 1 .. n - 1 + 1 /\ 1 + i - 1 = i
  BY <1>1
<1>8. \A i \in 1 .. n : a[i] = x[i]
  BY <1>3, <1>7
<1>9. a = [i \in 1 .. n |-> a[i]]
  BY <1>3, <1>6, LenProperties
<1>10. a = Folder(x)
  BY <1>5, <1>8, <1>9
<1>11. Len(x) = 1 => a = <<>>
  BY <1>3, <1>6, EmptySeq
<1>12. Len(x) > 1 => Folder(x) \in Paths
  BY LibraryAssumption DEF Folder
<1> QED BY <1>4, <1>6, <1>10, <1>11, <1>12

\* What is below q, put below p.
LEMMA UnderFacts ==
  ASSUME NEW p \in Paths, NEW x \in Paths, Len(p) <= Len(x)
  PROVE  /\ Under(p, x) \in Paths /\ Len(Under(p, x)) = Len(x) /\ Goes(p, Under(p, x))
         /\ \A i \in 1 .. Len(x) : Under(p, x)[i] = IF i <= Len(p) THEN p[i] ELSE x[i]
<1>1. /\ Len(p) \in Nat /\ Len(x) \in Nat
      /\ p = [i \in 1 .. Len(p) |-> p[i]] /\ x = [i \in 1 .. Len(x) |-> x[i]]
  BY PathFacts
<1>2. Under(p, x) \in Paths
  <2>1. CASE Len(p) < Len(x)
    BY <2>1, LibraryAssumption DEF Under
  <2>2. CASE Len(p) = Len(x)
    <3>1. \A i \in 1 .. Len(x) : i <= Len(p)
      BY <1>1, <2>2
    <3>2. Under(p, x) = [i \in 1 .. Len(p) |-> p[i]]
      BY <2>2, <3>1 DEF Under
    <3> QED BY <1>1, <3>2
  <2>3. Len(p) = Len(x) \/ Len(p) < Len(x)
    <3>1. Len(p) \in Nat /\ Len(x) \in Nat
      BY <1>1
    <3> QED BY <3>1
  <2> QED BY <2>1, <2>2, <2>3
<1>3. DOMAIN Under(p, x) = 1 .. Len(x)
  BY DEF Under
<1>4. Len(Under(p, x)) = Len(x)
  <2> DEFINE k == Len(Under(p, x))
             n == Len(x)
  <2>1. k \in Nat /\ n \in Nat /\ 1 .. k = 1 .. n
    BY <1>1, <1>2, <1>3, PathFacts
  <2> HIDE DEF k, n
  <2>2. k = n
    BY <2>1
  <2> QED BY <2>2 DEF k, n
<1>5. \A i \in 1 .. Len(x) : Under(p, x)[i] = IF i <= Len(p) THEN p[i] ELSE x[i]
  BY DEF Under
<1>6. Goes(p, Under(p, x))
  <2>1. \A i \in 1 .. Len(p) : i \in 1 .. Len(x) /\ i <= Len(p)
    BY <1>1
  <2> QED BY <1>4, <1>5, <2>1 DEF Goes
<1> QED BY <1>2, <1>4, <1>5, <1>6

\* Two paths below q that have the same place below p are one.
LEMMA UnderOnce ==
  ASSUME NEW p \in Paths, NEW q \in Paths, Len(p) = Len(q), NEW x \in Paths, NEW y \in Paths,
         Goes(q, x), Goes(q, y), Under(p, x) = Under(p, y)
  PROVE  x = y
<1>1. /\ Len(p) \in Nat /\ Len(x) \in Nat /\ Len(y) \in Nat
      /\ x = [i \in 1 .. Len(x) |-> x[i]] /\ y = [i \in 1 .. Len(y) |-> y[i]]
      /\ Len(p) <= Len(x) /\ Len(p) <= Len(y)
  BY PathFacts DEF Goes
<1>2. Len(x) = Len(y)
  <2>1. Len(Under(p, x)) = Len(x)
    BY <1>1, UnderFacts
  <2>2. Len(Under(p, y)) = Len(y)
    BY <1>1, UnderFacts
  <2> QED BY <2>1, <2>2
<1>3. ASSUME NEW i \in 1 .. Len(x) PROVE x[i] = y[i]
  <2>1. CASE i <= Len(p)
    <3>1. i \in 1 .. Len(q)
      BY <1>1, <2>1
    <3> QED BY <3>1 DEF Goes
  <2>2. CASE ~(i <= Len(p))
    <3>1. Under(p, x)[i] = x[i]
      BY <1>1, <2>2, UnderFacts
    <3>2. Under(p, y)[i] = y[i]
      BY <1>1, <1>2, <2>2, UnderFacts
    <3> QED BY <3>1, <3>2
  <2> QED BY <2>1, <2>2
<1> QED BY <1>1, <1>2, <1>3

\* As the code puts it: the new beginning, and the rest.
LEMMA UnderSays ==
  ASSUME NEW p \in Paths, NEW q \in Paths, Len(p) = Len(q), NEW x \in Paths, Goes(q, x)
  PROVE  p \o SubSeq(x, Len(q) + 1, Len(x)) = Under(p, x)
<1> DEFINE m == Len(p)
           n == Len(x)
           rest == SubSeq(x, m + 1, n)
           c == p \o rest
<1>1. /\ m \in Nat /\ n \in Nat /\ m <= n /\ p \in Seq(Name) /\ x \in Seq(Name)
      /\ Under(p, x) = [i \in 1 .. n |-> IF i <= m THEN p[i] ELSE x[i]]
  BY PathFacts DEF Goes, Under
<1>2. \A i \in m + 1 .. n : x[i] \in Name
  <2>1. \A i \in m + 1 .. n : i \in 1 .. n
    BY <1>1
  <2> QED BY <1>1, <2>1, LenProperties
<1>3. /\ rest \in Seq(Name) /\ Len(rest) = IF m + 1 <= n THEN n - (m + 1) + 1 ELSE 0
      /\ \A i \in 1 .. n - (m + 1) + 1 : rest[i] = x[m + 1 + i - 1]
  BY <1>1, <1>2, SubSeqProperties
<1> HIDE DEF rest, n, m
<1>4. Len(rest) = n - m
  BY <1>1, <1>3
<1>5. /\ c \in Seq(Name) /\ Len(c) = m + (n - m)
      /\ \A i \in 1 .. m + (n - m) : c[i] = IF i <= m THEN p[i] ELSE rest[i - m]
  <2>1. /\ c \in Seq(Name) /\ Len(c) = Len(p) + Len(rest)
        /\ \A i \in 1 .. Len(p) + Len(rest) :
               c[i] = IF i <= Len(p) THEN p[i] ELSE rest[i - Len(p)]
    BY <1>1, <1>3, ConcatProperties
  <2>2. m = Len(p)
    BY DEF m
  <2> QED BY <1>4, <2>1, <2>2
<1> HIDE DEF c
<1>6. m + (n - m) = n
  BY <1>1
<1>7. ASSUME NEW i \in 1 .. n PROVE c[i] = IF i <= m THEN p[i] ELSE x[i]
  <2>1. c[i] = IF i <= m THEN p[i] ELSE rest[i - m]
    BY <1>5, <1>6
  <2>2. ~(i <= m) => i - m \in 1 .. n - (m + 1) + 1 /\ m + 1 + (i - m) - 1 = i
    BY <1>1
  <2>3. ~(i <= m) => rest[i - m] = x[i]
    BY <1>3, <2>2
  <2> QED BY <2>1, <2>3
<1>8. c = [i \in 1 .. n |-> c[i]]
  BY <1>5, <1>6, LenProperties
<1>9. c = Under(p, x)
  BY <1>1, <1>7, <1>8
<1> QED BY <1>9 DEF c, rest, m, n

\* What a move puts at a path: what was at its place below the source.
Origin(Z, p, q, x) == IF x \in Z /\ Goes(q, x) THEN Under(p, x) ELSE x
Gone(Z, p, q, x)   == x \in Z /\ ~Goes(q, x) /\ Goes(p, x)

Brought(f, p, q, Z, x) ==
    /\ B!moved(f, p, q, Z)[x] = IF Gone(Z, p, q, x) THEN Absent ELSE f[Origin(Z, p, q, x)]
    /\ Origin(Z, p, q, x) \in Paths

\* A move brings to each path what was at its place below the source.
LEMMA MovedSays ==
  ASSUME NEW f, NEW p \in Paths, NEW q \in Paths, Len(p) = Len(q), p # q,
         NEW Z, NEW x \in Paths
  PROVE  Brought(f, p, q, Z, x)
<1> USE DEF Brought
<1> DEFINE far == p \o SubSeq(x, Len(q) + 1, Len(x))
<1>1. B!moved(f, p, q, Z)[x] = CASE x \in Z /\ B!IsPrefix(q, x) -> f[far]
                                 [] x \in Z /\ B!IsPrefix(p, x) -> Absent
                                 [] OTHER -> f[x]
  BY DEF B!moved
<1>2. (B!IsPrefix(q, x) <=> Goes(q, x)) /\ (B!IsPrefix(p, x) <=> Goes(p, x))
  BY PrefixGoes
<1>3. ASSUME Goes(q, x) PROVE far = Under(p, x) /\ Under(p, x) \in Paths
  <2>1. Len(p) <= Len(x)
    BY <1>3 DEF Goes
  <2>2. Under(p, x) \in Paths
    BY <2>1, UnderFacts
  <2>3. far = Under(p, x)
    BY <1>3, UnderSays
  <2> QED BY <2>2, <2>3
<1>4. Goes(q, x) /\ Goes(p, x) => p = q
  <2>1. p = [i \in 1 .. Len(p) |-> p[i]] /\ q = [i \in 1 .. Len(q) |-> q[i]]
    BY PathFacts
  <2> QED BY <2>1 DEF Goes
<1> HIDE DEF far
<1>5. CASE x \in Z /\ Goes(q, x)
  <2>1. ~Gone(Z, p, q, x) /\ Origin(Z, p, q, x) = Under(p, x)
    BY <1>5 DEF Gone, Origin
  <2>2. B!moved(f, p, q, Z)[x] = f[far]
    BY <1>1, <1>2, <1>4, <1>5
  <2> QED BY <1>3, <1>5, <2>1, <2>2
<1>6. CASE ~(x \in Z /\ Goes(q, x))
  <2>1. Origin(Z, p, q, x) = x
    BY <1>6 DEF Origin
  <2>2. B!moved(f, p, q, Z)[x] = IF x \in Z /\ Goes(p, x) THEN Absent ELSE f[x]
    BY <1>1, <1>2, <1>6
  <2>3. Gone(Z, p, q, x) <=> x \in Z /\ Goes(p, x)
    BY <1>6 DEF Gone
  <2> QED BY <2>1, <2>2, <2>3
<1> QED BY <1>5, <1>6

\* Two paths do not get what was at one.
LEMMA OriginOnce ==
  ASSUME NEW p \in Paths, NEW q \in Paths, Len(p) = Len(q), NEW Z,
         \A z \in Paths : z \in Z /\ Goes(q, z) => Under(p, z) \in Z,
         NEW x \in Paths, NEW y \in Paths, ~Gone(Z, p, q, x), ~Gone(Z, p, q, y),
         Origin(Z, p, q, x) = Origin(Z, p, q, y)
  PROVE  x = y
<1>1. CASE x \in Z /\ Goes(q, x) /\ y \in Z /\ Goes(q, y)
  BY <1>1, UnderOnce DEF Origin
<1>2. ASSUME NEW v \in Paths, NEW w \in Paths, v \in Z, Goes(q, v), ~(w \in Z /\ Goes(q, w)),
             ~Gone(Z, p, q, w), Under(p, v) = w
      PROVE  FALSE
  <2>1. Len(p) <= Len(v)
    BY <1>2 DEF Goes
  <2>2. Goes(p, w) /\ w \in Z
    BY <1>2, <2>1, UnderFacts
  <2> QED BY <1>2, <2>2 DEF Gone
<1>3. CASE x \in Z /\ Goes(q, x) /\ ~(y \in Z /\ Goes(q, y))
  BY <1>2, <1>3 DEF Origin
<1>4. CASE ~(x \in Z /\ Goes(q, x)) /\ y \in Z /\ Goes(q, y)
  BY <1>2, <1>4 DEF Origin
<1>5. CASE ~(x \in Z /\ Goes(q, x)) /\ ~(y \in Z /\ Goes(q, y))
  BY <1>5 DEF Origin
<1> QED BY <1>1, <1>3, <1>4, <1>5

\* The folder of a path is there.
Rooted(t, p) == Len(p) = 1 \/ t[Folder(p)] = Dir

\* A folder is there if every one above it is.
LEMMA DirAbs == ASSUME NEW p \in Paths PROVE B!dirAbs(p) <=> Rooted(tree, p)
<1>1. Len(p) \in Nat /\ Len(p) > 0
  BY PathFacts
<1>2. CASE Len(p) = 1
  BY <1>2, FolderFacts DEF B!dirAbs, Rooted
<1>3. CASE Len(p) # 1
  <2>1. Len(p) > 1
    BY <1>1, <1>3
  <2>2. B!Front(p) = Folder(p) /\ Folder(p) \in Paths /\ Len(Folder(p)) = Len(p) - 1
    BY <2>1, FolderFacts
  <2>3. Folder(p) # <<>>
    BY <2>2, PathFacts, EmptySeq
  <2> QED BY <1>3, <2>2, <2>3 DEF B!dirAbs, Rooted
<1> QED BY <1>2, <1>3

\* What has its folder at or below p is below p.
LEMMA FolderGoes ==
  ASSUME NEW p \in Paths, NEW x \in Paths, Len(x) > 1, Goes(p, Folder(x))
  PROVE  Len(p) < Len(x) /\ Goes(p, x)
<1>1. Len(p) \in Nat /\ Len(x) \in Nat
  BY PathFacts
<1>2. Len(Folder(x)) = Len(x) - 1
  BY FolderFacts
<1>3. Len(p) <= Len(x) - 1 /\ \A i \in 1 .. Len(p) : p[i] = Folder(x)[i]
  BY <1>2 DEF Goes
<1>4. \A i \in 1 .. Len(p) : i \in 1 .. Len(x) - 1
  BY <1>1, <1>3
<1>5. \A i \in 1 .. Len(p) : Folder(x)[i] = x[i]
  BY <1>4 DEF Folder
<1> QED BY <1>1, <1>3, <1>5 DEF Goes

\* The folder of what is below p is p or below p.
LEMMA FolderBelow ==
  ASSUME NEW p \in Paths, NEW x \in Paths, Len(p) < Len(x), Goes(p, x)
  PROVE  Len(x) > 1 /\ Goes(p, Folder(x))
<1>1. Len(p) \in Nat /\ Len(p) > 0 /\ Len(x) \in Nat
  BY PathFacts
<1>2. Len(x) > 1
  BY <1>1
<1>3. Len(Folder(x)) = Len(x) - 1
  BY <1>2, FolderFacts
<1>4. \A i \in 1 .. Len(p) : i \in 1 .. Len(x) - 1 /\ p[i] = x[i]
  BY <1>1 DEF Goes
<1>5. \A i \in 1 .. Len(p) : Folder(x)[i] = p[i]
  BY <1>4 DEF Folder
<1>6. Len(p) <= Len(x) - 1
  BY <1>1
<1> QED BY <1>2, <1>3, <1>5, <1>6 DEF Goes

\* The folder of what is below q has its place below p.
LEMMA FolderUnder ==
  ASSUME NEW p \in Paths, NEW q \in Paths, Len(p) = Len(q), NEW x \in Paths,
         Len(q) < Len(x), Goes(q, x)
  PROVE  Folder(Under(p, x)) = Under(p, Folder(x))
<1>1. Len(p) \in Nat /\ Len(p) > 0 /\ Len(x) \in Nat /\ Len(x) > 1
  BY PathFacts
<1>2. Len(Folder(x)) = Len(x) - 1
  BY <1>1, FolderFacts
<1>3. Len(Under(p, x)) = Len(x)
  BY <1>1, UnderFacts
<1>4. ASSUME NEW i \in 1 .. Len(x) - 1
      PROVE  Under(p, x)[i] = IF i <= Len(p) THEN p[i] ELSE Folder(x)[i]
  <2>1. i \in 1 .. Len(x)
    BY <1>1
  <2>2. Folder(x)[i] = x[i]
    BY DEF Folder
  <2> QED BY <2>1, <2>2 DEF Under
<1>5. Folder(Under(p, x)) = [i \in 1 .. Len(x) - 1 |-> Under(p, x)[i]]
  BY <1>3 DEF Folder
<1>6. Under(p, Folder(x)) =
          [i \in 1 .. Len(x) - 1 |-> IF i <= Len(p) THEN p[i] ELSE Folder(x)[i]]
  BY <1>2 DEF Under
<1> QED BY <1>4, <1>5, <1>6

\* No path goes through two others of the same depth.
LEMMA SameBeginning ==
  ASSUME NEW p \in Paths, NEW q \in Paths, Len(p) = Len(q), p # q, NEW x
  PROVE  ~(Goes(p, x) /\ Goes(q, x))
<1>1. p = [i \in 1 .. Len(p) |-> p[i]] /\ q = [i \in 1 .. Len(q) |-> q[i]]
  BY PathFacts
<1> QED BY <1>1 DEF Goes

Reach(p, q) == {p, q} \cup B!below(p) \cup B!below(q)
Inner(p, q) == B!below(p) \cup B!below(q)

\* Only the path itself goes through one of its own depth.
LEMMA GoesSelf ==
  ASSUME NEW p \in Paths, NEW x \in Paths, Goes(p, x), Len(x) = Len(p) PROVE x = p
<1>1. p = [i \in 1 .. Len(p) |-> p[i]] /\ x = [i \in 1 .. Len(x) |-> x[i]]
  BY PathFacts
<1> QED BY <1>1 DEF Goes

\* What a move reaches.
LEMMA ReachSays ==
  ASSUME NEW p \in Paths, NEW q \in Paths, Len(p) = Len(q), NEW x \in Paths
  PROVE  /\ x \in Reach(p, q) <=> Goes(p, x) \/ Goes(q, x)
         /\ x \in Inner(p, q) <=> Len(p) < Len(x) /\ (Goes(p, x) \/ Goes(q, x))
<1>1. x \in B!below(p) <=> Len(p) < Len(x) /\ Goes(p, x)
  BY BelowGoes
<1>2. x \in B!below(q) <=> Len(p) < Len(x) /\ Goes(q, x)
  BY BelowGoes
<1>3. Goes(p, p) /\ Goes(q, q)
  BY PathFacts DEF Goes
<1>4. Goes(p, x) \/ Goes(q, x) => Len(p) < Len(x) \/ Len(x) = Len(p)
  <2>1. Len(p) \in Nat /\ Len(x) \in Nat
    BY PathFacts
  <2>2. Goes(p, x) \/ Goes(q, x) => Len(p) <= Len(x)
    BY DEF Goes
  <2>3. Len(p) <= Len(x) => Len(p) < Len(x) \/ Len(x) = Len(p)
    BY <2>1
  <2> QED BY <2>2, <2>3
<1>5. Len(x) = Len(p) => (Goes(p, x) => x = p) /\ (Goes(q, x) => x = q)
  BY GoesSelf
<1> QED BY <1>1, <1>2, <1>3, <1>4, <1>5 DEF Reach, Inner

\* Both sets take the source of a path with the path.
LEMMA ReachUnder ==
  ASSUME NEW p \in Paths, NEW q \in Paths, Len(p) = Len(q), NEW x \in Paths, Goes(q, x)
  PROVE  /\ Under(p, x) \in Paths /\ Under(p, x) \in Reach(p, q)
         /\ x \in Inner(p, q) => Under(p, x) \in Inner(p, q)
<1>1. Len(p) <= Len(x)
  BY DEF Goes
<1>2. Under(p, x) \in Paths /\ Len(Under(p, x)) = Len(x) /\ Goes(p, Under(p, x))
  BY <1>1, UnderFacts
<1> QED BY <1>2, ReachSays

Standing(t, f) == \A x \in Paths : t[x] # Absent \/ f[x] # Absent => Rooted(t, x)

\* A move leaves everything in a folder.
LEMMA MovedStands ==
  ASSUME NEW t, NEW f, Standing(t, f), NEW p \in Paths, NEW q \in Paths, Len(p) = Len(q),
         p # q, Rooted(t, q),
         NEW x \in Paths,
         \/ B!moved(t, p, q, Reach(p, q))[x] # Absent
         \/ B!moved(f, p, q, Inner(p, q))[x] # Absent
  PROVE  Rooted(B!moved(t, p, q, Reach(p, q)), x)
<1> DEFINE t2 == B!moved(t, p, q, Reach(p, q))
           f2 == B!moved(f, p, q, Inner(p, q))
<1>1. Len(p) \in Nat /\ Len(p) > 0 /\ Len(x) \in Nat /\ Len(x) > 0
  BY PathFacts
<1>2. Len(x) = 1 \/ Len(x) > 1
  <2>1. \A k \in Nat : k > 0 => k = 1 \/ k > 1
    OBVIOUS
  <2> QED BY <1>1, <2>1
<1>3. CASE Len(x) > 1 /\ Len(p) < Len(x) /\ Goes(q, x)
  <2> DEFINE v == Under(p, x)
  <2>1. /\ v \in Paths /\ Len(v) = Len(x) /\ Goes(p, v)
        /\ Folder(v) = Under(p, Folder(x))
    <3>1. Len(p) <= Len(x)
      BY <1>3 DEF Goes
    <3>2. v \in Paths /\ Len(v) = Len(x) /\ Goes(p, v)
      BY <3>1, UnderFacts
    <3>3. Folder(v) = Under(p, Folder(x))
      BY <1>3, FolderUnder
    <3> QED BY <3>2, <3>3
  <2>2. /\ ~Gone(Reach(p, q), p, q, x) /\ Origin(Reach(p, q), p, q, x) = v
        /\ ~Gone(Inner(p, q), p, q, x) /\ Origin(Inner(p, q), p, q, x) = v
    BY <1>3, ReachSays DEF Gone, Origin
  <2>3. t2[x] = t[v] /\ f2[x] = f[v]
    BY <2>2, MovedSays DEF Brought
  <2> HIDE DEF t2, f2
  <2>4. Rooted(t, v)
    BY <2>1, <2>3 DEF Standing, t2, f2
  <2>5. t[Folder(v)] = Dir
    BY <1>1, <1>3, <2>1, <2>4 DEF Rooted
  <2>6. Folder(x) \in Paths /\ Goes(q, Folder(x))
    BY <1>3, FolderFacts, FolderBelow
  <2>7. /\ ~Gone(Reach(p, q), p, q, Folder(x))
        /\ Origin(Reach(p, q), p, q, Folder(x)) = Under(p, Folder(x))
    BY <2>6, ReachSays DEF Gone, Origin
  <2>8. t2[Folder(x)] = t[Under(p, Folder(x))]
    BY <2>6, <2>7, MovedSays DEF Brought, t2
  <2> QED BY <2>1, <2>5, <2>8 DEF Rooted, t2
<1>4. CASE Len(x) > 1 /\ Len(p) < Len(x) /\ Goes(p, x) /\ ~Goes(q, x)
  <2>1. Gone(Reach(p, q), p, q, x) /\ Gone(Inner(p, q), p, q, x)
    BY <1>4, ReachSays DEF Gone
  <2>2. t2[x] = Absent /\ f2[x] = Absent
    BY <2>1, MovedSays DEF Brought
  <2> QED BY <2>2
<1>5. CASE Len(x) > 1 /\ ~(Len(p) < Len(x) /\ (Goes(p, x) \/ Goes(q, x)))
  <2>1. Folder(x) \in Paths /\ ~Goes(p, Folder(x)) /\ ~Goes(q, Folder(x))
    BY <1>5, FolderFacts, FolderGoes
  <2>2. t2[Folder(x)] = t[Folder(x)]
    <3>1. /\ ~Gone(Reach(p, q), p, q, Folder(x))
          /\ Origin(Reach(p, q), p, q, Folder(x)) = Folder(x)
      BY <2>1 DEF Gone, Origin
    <3> QED BY <2>1, <3>1, MovedSays DEF Brought
  <2>3. f2[x] = f[x]
    <3>1. x \notin Inner(p, q)
      BY <1>5, ReachSays
    <3>2. ~Gone(Inner(p, q), p, q, x) /\ Origin(Inner(p, q), p, q, x) = x
      BY <3>1 DEF Gone, Origin
    <3> QED BY <3>2, MovedSays DEF Brought
  <2>4. x = q \/ t2[x] = Absent \/ t2[x] = t[x]
    <3>1. Goes(q, x) => x = q
      <4>1. Goes(q, x) => Len(p) <= Len(x)
        BY DEF Goes
      <4>2. Goes(q, x) => Len(x) = Len(q)
        BY <1>1, <1>5, <4>1
      <4> QED BY <4>2, GoesSelf
    <3>2. ~Goes(q, x) => Origin(Reach(p, q), p, q, x) = x
      BY DEF Origin
    <3> QED BY <3>1, <3>2, MovedSays DEF Brought
  <2> HIDE DEF t2, f2
  <2>5. Rooted(t, x)
    BY <2>3, <2>4 DEF Standing, t2, f2
  <2> QED BY <1>5, <2>2, <2>5 DEF Rooted, t2
<1>6. CASE Len(x) = 1
  BY <1>6 DEF Rooted
<1> QED BY <1>2, <1>3, <1>4, <1>5, <1>6

\* One upload wrote each chunk.
OneWriter(c, i) == \E u \in Uploaders : \A k \in 1 .. Chunks : c[i][k] = u

Sound(t, f, c, o) ==
    /\ \A x \in Paths : t[x] \notin {Dir, Absent} => OneWriter(c, t[x])
    /\ \A x, y \in Paths : f[x] # Absent => f[x] # t[y] /\ (f[x] = f[y] => x = y)
    /\ \A u \in Uploaders : o[u].inode # Absent =>
          /\ \A x \in Paths : t[x] # o[u].inode
          /\ \A k \in 1 .. Chunks : k < o[u].next => c[o[u].inode][k] = u
          /\ \A v \in Uploaders : o[v].inode = o[u].inode => v = u

LibTyped ==
    /\ tree \in [Paths -> Inodes \cup {Dir, Absent}]
    /\ partial \in [Paths -> Inodes \cup {Absent}]
    /\ content \in [Inodes -> [1 .. Chunks -> Uploaders \cup {None}]]
    /\ open \in [Uploaders -> [path : Paths \cup {<<>>}, inode : Inodes \cup {Absent},
                               next : 1 .. Chunks + 1]]
    /\ \A u \in Uploaders : open[u].inode # Absent => open[u].path \in Paths
    /\ moving = <<>> \/ \E p, q \in Paths : /\ moving = <<p, q>>
                                            /\ p # q /\ Len(p) = Len(q)
    /\ requests \in 0 .. MaxParts /\ shared \in BOOLEAN

LibInv == LibTyped /\ Standing(tree, partial) /\ (shared \/ Sound(tree, partial, content, open))

\* What stands for a folder, for nothing, and for a file.
LEMMA Apartness == Dir # Absent /\ Dir \notin Inodes /\ Absent \notin Inodes /\ Chunks \in Nat
                   /\ MaxParts \in Nat
BY LibraryAssumption

\* What is moved or removed stays apart.
Drawn(t, f, g) ==
    /\ f \in [Paths -> Inodes \cup {Absent}] /\ g \in [Paths -> Paths]
    /\ \A x \in Paths : t[x] \notin {Dir, Absent} => \E y \in Paths : t[x] = tree[y]
    /\ \A x \in Paths : f[x] # Absent => f[x] = partial[g[x]]
    /\ \A x, y \in Paths : f[x] # Absent /\ f[y] # Absent /\ g[x] = g[y] => x = y

\* A move keeps files apart.
LEMMA ApartMoves ==
  ASSUME LibTyped, Sound(tree, partial, content, open),
         NEW t, NEW f, NEW g, Drawn(t, f, g)
  PROVE  Sound(t, f, content, open)
<1> USE DEF Drawn
<1>1. ASSUME NEW x \in Paths, t[x] \notin {Dir, Absent} PROVE OneWriter(content, t[x])
  BY <1>1 DEF Sound
<1>2. ASSUME NEW x \in Paths, NEW y \in Paths, f[x] # Absent
      PROVE  f[x] # t[y] /\ (f[x] = f[y] => x = y)
  <2>1. f[x] = partial[g[x]] /\ g[x] \in Paths /\ g[y] \in Paths
    BY <1>2
  <2>2. \A z \in Paths : f[x] # tree[z]
    BY <1>2, <2>1 DEF Sound
  <2>3. f[x] # Dir
    BY <1>2, Apartness
  <2>4. f[x] # t[y]
    BY <1>2, <2>2, <2>3
  <2>5. f[x] = f[y] => g[x] = g[y]
    <3>1. f[x] = f[y] => partial[g[x]] = partial[g[y]] /\ partial[g[x]] # Absent
      BY <1>2, <2>1
    <3> QED BY <2>1, <3>1 DEF Sound
  <2> QED BY <1>2, <2>4, <2>5
<1>3. ASSUME NEW u \in Uploaders, open[u].inode # Absent
      PROVE  /\ \A x \in Paths : t[x] # open[u].inode
             /\ \A k \in 1 .. Chunks : k < open[u].next => content[open[u].inode][k] = u
             /\ \A v \in Uploaders : open[v].inode = open[u].inode => v = u
  <2>1. open[u].inode # Dir
    BY <1>3, Apartness DEF LibTyped
  <2>2. \A x \in Paths : tree[x] # open[u].inode
    BY <1>3 DEF Sound
  <2> QED BY <1>3, <2>1, <2>2 DEF Sound
<1> QED BY <1>1, <1>2, <1>3 DEF Sound


\* The library starts whole.
LEMMA LibInit == B!NewLibrary => LibInv
<1> SUFFICES ASSUME B!NewLibrary PROVE LibInv
  OBVIOUS
<1>1. 1 \in 1 .. Chunks + 1
  BY Apartness
<1>2. B!Closed \in [path : Paths \cup {<<>>}, inode : Inodes \cup {Absent}, next : 1 .. Chunks + 1]
  BY <1>1 DEF B!Closed
<1>3. B!blank \in [1 .. Chunks -> Uploaders \cup {None}]
  BY DEF B!blank
<1>4. \A u \in Uploaders : open[u].inode = Absent
  BY DEF B!NewLibrary, B!Closed
<1>5. 0 \in 0 .. MaxParts
  BY Apartness
<1>6. LibTyped
  BY <1>2, <1>3, <1>4, <1>5 DEF B!NewLibrary, LibTyped
<1>7. Standing(tree, partial)
  BY DEF B!NewLibrary, Standing
<1>8. Sound(tree, partial, content, open)
  BY <1>4 DEF B!NewLibrary, Sound
<1> QED BY <1>6, <1>7, <1>8 DEF LibInv

\* Calls are bounded.
LEMMA CallCounts == ASSUME LibTyped, B!call PROVE requests' \in 0 .. MaxParts
<1>1. requests \in 0 .. MaxParts /\ MaxParts \in Nat /\ requests < MaxParts
      /\ requests' = requests + 1
  BY Apartness DEF LibTyped, B!call
<1> QED BY <1>1

\* An upload begins.
LEMMA LibCreates ==
  ASSUME LibInv, NEW u \in Uploaders, NEW p \in Paths, B!handleLibraryUpload(u, p)
  PROVE  LibInv'
<1> DEFINE i == IF partial[p] = Absent THEN B!fresh ELSE partial[p]
           o == [path |-> p, inode |-> i, next |-> 1]
<1>1. LibTyped
  BY DEF LibInv
<1>2. /\ open[u].inode = Absent /\ B!dirAbs(p) /\ UNCHANGED <<tree, moving>>
      /\ partial[p] = Absent => B!free # {}
      /\ open' = [open EXCEPT ![u] = o] /\ content' = [content EXCEPT ![i] = B!blank]
      /\ shared' = (shared \/ \E v \in Uploaders \ {u} : open[v].inode = i)
      /\ partial' = [partial EXCEPT ![p] = i]
  BY DEF B!handleLibraryUpload, B!Create, B!opened, B!uploading
<1>3. partial[p] = Absent =>
          /\ i \in Inodes /\ \A x \in Paths : i # tree[x] /\ i # partial[x]
          /\ \A v \in Uploaders : open[v].inode # i
  <2>1. partial[p] = Absent => B!fresh \in B!free
    BY <1>2 DEF B!fresh
  <2> QED BY <2>1 DEF B!free
<1>4. partial[p] # Absent => i = partial[p] /\ i \in Inodes
  BY <1>1 DEF LibTyped
<1> HIDE DEF i
<1>5. i \in Inodes /\ i # Absent /\ 1 \in 1 .. Chunks + 1
  BY <1>3, <1>4, Apartness
<1>6. o \in [path : Paths \cup {<<>>}, inode : Inodes \cup {Absent}, next : 1 .. Chunks + 1]
      /\ o.inode = i /\ o.path = p /\ o.next = 1
  BY <1>5
<1> HIDE DEF o
<1>7. B!blank \in [1 .. Chunks -> Uploaders \cup {None}]
  BY DEF B!blank
<1>8. \A v \in Uploaders : open'[v] = IF v = u THEN o ELSE open[v]
  BY <1>1, <1>2 DEF LibTyped
<1>9. \A x \in Paths : partial'[x] = IF x = p THEN i ELSE partial[x]
  BY <1>1, <1>2 DEF LibTyped
<1>10. \A j \in Inodes : content'[j] = IF j = i THEN B!blank ELSE content[j]
  BY <1>1, <1>2 DEF LibTyped
<1>11. LibTyped'
  <2>1. requests' \in 0 .. MaxParts
    BY <1>1, CallCounts DEF B!handleLibraryUpload
  <2>2. open' \in [Uploaders -> [path : Paths \cup {<<>>}, inode : Inodes \cup {Absent},
                                 next : 1 .. Chunks + 1]]
    BY <1>1, <1>2, <1>6 DEF LibTyped
  <2>3. content' \in [Inodes -> [1 .. Chunks -> Uploaders \cup {None}]]
    BY <1>1, <1>2, <1>7 DEF LibTyped
  <2>4. partial' \in [Paths -> Inodes \cup {Absent}]
    BY <1>1, <1>2, <1>5 DEF LibTyped
  <2>5. \A v \in Uploaders : open'[v].inode # Absent => open'[v].path \in Paths
    BY <1>1, <1>6, <1>8 DEF LibTyped
  <2>6. shared' \in BOOLEAN
    BY <1>1, <1>2 DEF LibTyped
  <2> QED BY <1>1, <1>2, <2>1, <2>2, <2>3, <2>4, <2>5, <2>6 DEF LibTyped
<1>12. Standing(tree', partial')
  <2>1. Rooted(tree, p)
    BY <1>2, DirAbs
  <2> QED BY <1>2, <1>9, <2>1 DEF LibInv, Standing
<1>13. ASSUME ~shared' PROVE Sound(tree', partial', content', open')
  <2>1. Sound(tree, partial, content, open) /\ \A v \in Uploaders : v # u => open[v].inode # i
    BY <1>1, <1>2, <1>13 DEF LibInv, LibTyped
  <2>2. \A x \in Paths : tree[x] # i
    BY <1>3, <1>4, <2>1 DEF Sound
  <2>3. \A x \in Paths : partial[x] = i => x = p
    BY <1>3, <1>4, <2>1 DEF Sound
  <2>4. \A x \in Paths : tree'[x] \notin {Dir, Absent} => OneWriter(content', tree'[x])
    <3> SUFFICES ASSUME NEW x \in Paths, tree[x] \notin {Dir, Absent}
                 PROVE  OneWriter(content', tree[x])
      BY <1>2
    <3>1. tree[x] \in Inodes
      BY <1>1 DEF LibTyped
    <3>2. content'[tree[x]] = content[tree[x]]
      BY <1>10, <2>2, <3>1
    <3>3. OneWriter(content, tree[x])
      BY <2>1 DEF Sound
    <3> QED BY <3>2, <3>3 DEF OneWriter
  <2>5. ASSUME NEW x \in Paths, NEW y \in Paths, partial'[x] # Absent
        PROVE  partial'[x] # tree'[y] /\ (partial'[x] = partial'[y] => x = y)
    <3>1. partial[x] # Absent =>
              partial[x] # tree[y] /\ (partial[x] = partial[y] => x = y)
      BY <2>1 DEF Sound
    <3> QED BY <1>2, <1>9, <2>2, <2>3, <2>5, <3>1
  <2>6. ASSUME NEW v \in Uploaders, open'[v].inode # Absent
        PROVE  /\ \A x \in Paths : tree'[x] # open'[v].inode
               /\ \A k \in 1 .. Chunks : k < open'[v].next => content'[open'[v].inode][k] = v
               /\ \A w \in Uploaders : open'[w].inode = open'[v].inode => w = v
    <3>1. CASE v = u
      <4>1. open'[v].inode = i /\ open'[v].next = 1
        BY <1>6, <1>8, <3>1
      <4>2. \A k \in 1 .. Chunks : ~(k < 1)
        BY Apartness
      <4>3. \A w \in Uploaders : open'[w].inode = i => w = v
        BY <1>6, <1>8, <2>1, <3>1
      <4> QED BY <1>2, <2>2, <4>1, <4>2, <4>3
    <3>2. CASE v # u
      <4>1. open'[v] = open[v] /\ open[v].inode # Absent /\ open[v].inode # i
        BY <1>8, <2>1, <2>6, <3>2
      <4>2. open[v].inode \in Inodes
        BY <1>1, <4>1 DEF LibTyped
      <4>3. content'[open[v].inode] = content[open[v].inode]
        BY <1>10, <4>1, <4>2
      <4>4. /\ \A x \in Paths : tree[x] # open[v].inode
            /\ \A k \in 1 .. Chunks : k < open[v].next => content[open[v].inode][k] = v
            /\ \A w \in Uploaders : open[w].inode = open[v].inode => w = v
        BY <2>1, <4>1 DEF Sound
      <4>5. \A w \in Uploaders : open'[w].inode = open[v].inode => w = v
        BY <1>6, <1>8, <4>1, <4>4
      <4> QED BY <1>2, <4>1, <4>3, <4>4, <4>5
    <3> QED BY <3>1, <3>2
  <2> QED BY <2>4, <2>5, <2>6 DEF Sound
<1> QED BY <1>11, <1>12, <1>13 DEF LibInv

\* A part of an upload is written.
LEMMA LibCopies ==
  ASSUME LibInv, NEW u \in Uploaders, B!Copy(u) PROVE LibInv'
<1> DEFINE i == open[u].inode
           n == open[u].next
<1>1. LibTyped
  BY DEF LibInv
<1>2. /\ i # Absent /\ n <= Chunks /\ open' = [open EXCEPT ![u].next = @ + 1]
      /\ content' = [content EXCEPT ![i][n] = u]
      /\ UNCHANGED <<tree, partial, moving, requests, shared>>
  BY DEF B!Copy, B!uploading
<1>3. /\ i \in Inodes /\ n \in 1 .. Chunks + 1 /\ open[u].path \in Paths
      /\ open[u] = [path |-> open[u].path, inode |-> i, next |-> n]
  BY <1>1, <1>2 DEF LibTyped
<1>4. n \in 1 .. Chunks /\ n + 1 \in 1 .. Chunks + 1 /\ n \in Nat /\ Chunks \in Nat
  <2>1. n \in 1 .. Chunks + 1 /\ n <= Chunks /\ Chunks \in Nat
    BY <1>2, <1>3, Apartness
  <2> HIDE DEF n
  <2> QED BY <2>1
<1> DEFINE o == [path |-> open[u].path, inode |-> i, next |-> n + 1]
<1>5. \A v \in Uploaders : open'[v] = IF v = u THEN o ELSE open[v]
  BY <1>1, <1>2, <1>3 DEF LibTyped
<1>6. o \in [path : Paths \cup {<<>>}, inode : Inodes \cup {Absent}, next : 1 .. Chunks + 1]
      /\ o.inode = i /\ o.next = n + 1 /\ o.path = open[u].path
  BY <1>3, <1>4
<1>7. \A j \in Inodes, k \in 1 .. Chunks :
         content'[j][k] = IF j = i /\ k = n THEN u ELSE content[j][k]
  BY <1>1, <1>2, <1>3 DEF LibTyped
<1>8. content' \in [Inodes -> [1 .. Chunks -> Uploaders \cup {None}]]
  <2>1. content[i] \in [1 .. Chunks -> Uploaders \cup {None}]
    BY <1>1, <1>3 DEF LibTyped
  <2>2. content' = [content EXCEPT ![i] = [content[i] EXCEPT ![n] = u]]
    BY <1>2
  <2>3. [content[i] EXCEPT ![n] = u] \in [1 .. Chunks -> Uploaders \cup {None}]
    BY <2>1
  <2> HIDE DEF i, n
  <2> QED BY <1>1, <2>2, <2>3 DEF LibTyped
<1>9. DOMAIN open' = Uploaders /\ open' = [v \in Uploaders |-> open'[v]]
  BY <1>1, <1>2 DEF LibTyped
<1> HIDE DEF o
<1>10. open' \in [Uploaders -> [path : Paths \cup {<<>>}, inode : Inodes \cup {Absent},
                                next : 1 .. Chunks + 1]]
  <2>1. \A v \in Uploaders : open'[v] \in [path : Paths \cup {<<>>},
                                           inode : Inodes \cup {Absent}, next : 1 .. Chunks + 1]
    BY <1>1, <1>5, <1>6 DEF LibTyped
  <2> QED BY <1>9, <2>1
<1>11. LibTyped'
  <2>1. \A v \in Uploaders : open'[v].inode # Absent => open'[v].path \in Paths
    BY <1>1, <1>3, <1>5, <1>6 DEF LibTyped
  <2> QED BY <1>1, <1>2, <1>8, <1>10, <2>1 DEF LibTyped
<1>12. Standing(tree', partial')
  BY <1>2 DEF LibInv
<1>13. ASSUME ~shared' PROVE Sound(tree', partial', content', open')
  <2>1. Sound(tree, partial, content, open)
    BY <1>2, <1>13 DEF LibInv
  <2>2. /\ \A x \in Paths : tree[x] # i
        /\ \A k \in 1 .. Chunks : k < n => content[i][k] = u
        /\ \A v \in Uploaders : open[v].inode = i => v = u
    BY <1>2, <2>1 DEF Sound
  <2>3. ASSUME NEW x \in Paths, tree[x] \notin {Dir, Absent}
        PROVE  OneWriter(content', tree[x])
    <3>1. tree[x] \in Inodes /\ tree[x] # i
      BY <1>1, <2>2, <2>3 DEF LibTyped
    <3>2. OneWriter(content, tree[x])
      BY <2>1, <2>3 DEF Sound
    <3> QED BY <1>7, <3>1, <3>2 DEF OneWriter
  <2>4. ASSUME NEW v \in Uploaders, open'[v].inode # Absent
        PROVE  /\ \A x \in Paths : tree[x] # open'[v].inode
               /\ \A k \in 1 .. Chunks : k < open'[v].next => content'[open'[v].inode][k] = v
               /\ \A w \in Uploaders : open'[w].inode = open'[v].inode => w = v
    <3>1. \A w \in Uploaders : open'[w].inode = open[w].inode
      BY <1>5, <1>6
    <3>2. CASE v = u
      <4>1. open'[v].inode = i /\ open'[v].next = n + 1
        BY <1>5, <1>6, <3>2
      <4>2. \A k \in 1 .. Chunks : k < n + 1 => k < n \/ k = n
        BY <1>4
      <4>3. \A k \in 1 .. Chunks : k < n + 1 => content'[i][k] = u
        BY <1>3, <1>7, <2>2, <4>2
      <4> HIDE DEF i, n
      <4> QED BY <2>2, <3>1, <3>2, <4>1, <4>3
    <3>3. CASE v # u
      <4>1. open'[v] = open[v]
        BY <1>5, <3>3
      <4>2. open[v].inode # i /\ open[v].inode \in Inodes
        BY <1>1, <2>2, <2>4, <3>3, <4>1 DEF LibTyped
      <4>3. /\ \A x \in Paths : tree[x] # open[v].inode
            /\ \A k \in 1 .. Chunks : k < open[v].next => content[open[v].inode][k] = v
            /\ \A w \in Uploaders : open[w].inode = open[v].inode => w = v
        BY <2>1, <2>4, <4>1 DEF Sound
      <4>4. \A k \in 1 .. Chunks : content'[open[v].inode][k] = content[open[v].inode][k]
        BY <1>7, <4>2
      <4> HIDE DEF i, n
      <4> QED BY <3>1, <4>1, <4>3, <4>4
    <3> QED BY <3>2, <3>3
  <2>5. \A x, y \in Paths : partial[x] # Absent =>
            partial[x] # tree[y] /\ (partial[x] = partial[y] => x = y)
    BY <2>1 DEF Sound
  <2> QED BY <1>2, <2>3, <2>4, <2>5 DEF Sound
<1> QED BY <1>11, <1>12, <1>13 DEF LibInv

\* The end of an upload.
LEMMA LibCloses ==
  ASSUME LibTyped, NEW u \in Uploaders, B!uploading(u), B!closes(u)
  PROVE  /\ open[u].path \in Paths /\ open[u].inode \in Inodes
         /\ \A v \in Uploaders : open'[v].inode = IF v = u THEN Absent ELSE open[v].inode
         /\ \A v \in Uploaders : v # u => open'[v] = open[v]
         /\ open' \in [Uploaders -> [path : Paths \cup {<<>>}, inode : Inodes \cup {Absent},
                                     next : 1 .. Chunks + 1]]
         /\ \A v \in Uploaders : open'[v].inode # Absent => open'[v].path \in Paths
         /\ partial' \in [Paths -> Inodes \cup {Absent}]
         /\ \A x \in Paths : partial'[x] = IF x = open[u].path THEN Absent ELSE partial[x]
<1>1. /\ open[u].inode # Absent /\ open' = [open EXCEPT ![u] = B!Closed]
      /\ partial' = [partial EXCEPT ![open[u].path] = Absent]
  BY DEF B!uploading, B!closes
<1>2. 1 \in 1 .. Chunks + 1
  BY Apartness
<1>3. /\ B!Closed \in [path : Paths \cup {<<>>}, inode : Inodes \cup {Absent},
                       next : 1 .. Chunks + 1]
      /\ B!Closed.inode = Absent
  BY <1>2 DEF B!Closed
<1>4. \A v \in Uploaders : open'[v] = IF v = u THEN B!Closed ELSE open[v]
  BY <1>1 DEF LibTyped
<1> QED BY <1>1, <1>3, <1>4 DEF LibTyped

\* An upload ends in failure.
LEMMA LibFails ==
  ASSUME LibInv, NEW u \in Uploaders, B!CopyFails(u) PROVE LibInv'
<1>1. LibTyped /\ UNCHANGED <<tree, content, moving, requests, shared>>
  BY DEF LibInv, B!CopyFails
<1>2. /\ open[u].path \in Paths /\ open[u].inode \in Inodes
      /\ \A v \in Uploaders : open'[v].inode = IF v = u THEN Absent ELSE open[v].inode
      /\ \A v \in Uploaders : v # u => open'[v] = open[v]
      /\ open' \in [Uploaders -> [path : Paths \cup {<<>>}, inode : Inodes \cup {Absent},
                                  next : 1 .. Chunks + 1]]
      /\ \A v \in Uploaders : open'[v].inode # Absent => open'[v].path \in Paths
      /\ partial' \in [Paths -> Inodes \cup {Absent}]
      /\ \A x \in Paths : partial'[x] = IF x = open[u].path THEN Absent ELSE partial[x]
  BY <1>1, LibCloses DEF B!CopyFails
<1>3. LibTyped'
  BY <1>1, <1>2 DEF LibTyped
<1>4. Standing(tree', partial')
  BY <1>1, <1>2 DEF LibInv, Standing
<1>5. shared' \/ Sound(tree', partial', content', open')
  BY <1>1, <1>2 DEF LibInv, Sound
<1> QED BY <1>3, <1>4, <1>5 DEF LibInv

\* An upload is renamed to its name.
LEMMA LibSaves ==
  ASSUME LibInv, NEW u \in Uploaders, B!SaveFile(u) PROVE LibInv'
<1> DEFINE p == open[u].path
           i == open[u].inode
<1>1. LibTyped
  BY DEF LibInv
<1>2. /\ open[u].next > Chunks /\ UNCHANGED <<content, moving, requests>>
      /\ tree' = IF partial[p] = Absent \/ tree[p] = Dir THEN tree
                 ELSE [tree EXCEPT ![p] = partial[p]]
      /\ shared' = (shared \/ partial[p] \notin {Absent, i})
      /\ B!uploading(u) /\ i # Absent
  BY DEF B!SaveFile, B!uploading
<1>3. /\ p \in Paths /\ i \in Inodes
      /\ \A v \in Uploaders : open'[v].inode = IF v = u THEN Absent ELSE open[v].inode
      /\ \A v \in Uploaders : v # u => open'[v] = open[v]
      /\ open' \in [Uploaders -> [path : Paths \cup {<<>>}, inode : Inodes \cup {Absent},
                                  next : 1 .. Chunks + 1]]
      /\ \A v \in Uploaders : open'[v].inode # Absent => open'[v].path \in Paths
      /\ partial' \in [Paths -> Inodes \cup {Absent}]
      /\ \A x \in Paths : partial'[x] = IF x = p THEN Absent ELSE partial[x]
  BY <1>1, LibCloses DEF B!SaveFile
<1>4. tree' \in [Paths -> Inodes \cup {Dir, Absent}] /\ shared' \in BOOLEAN
  BY <1>1, <1>2, <1>3 DEF LibTyped
<1>5. \A x \in Paths : tree'[x] = IF x = p /\ partial[p] # Absent /\ tree[p] # Dir
                                  THEN partial[p] ELSE tree[x]
  BY <1>1, <1>2, <1>3 DEF LibTyped
<1> HIDE DEF p, i
<1>6. LibTyped'
  BY <1>1, <1>2, <1>3, <1>4 DEF LibTyped
<1>7. Standing(tree', partial')
  <2> SUFFICES ASSUME NEW x \in Paths, tree'[x] # Absent \/ partial'[x] # Absent
               PROVE  Rooted(tree', x)
    BY DEF Standing
  <2>1. Rooted(tree, x)
    BY <1>3, <1>5 DEF LibInv, Standing
  <2>2. CASE Len(x) = 1
    BY <2>2 DEF Rooted
  <2>3. CASE Len(x) # 1
    <3>1. Folder(x) \in Paths
      <4>1. Len(x) > 1
        <5>1. Len(x) \in Nat /\ Len(x) > 0
          BY PathFacts
        <5>2. \A k \in Nat : k > 0 => k = 1 \/ k > 1
          OBVIOUS
        <5> QED BY <2>3, <5>1, <5>2
      <4> QED BY <4>1, FolderFacts
    <3>2. tree[Folder(x)] = Dir
      BY <2>1, <2>3 DEF Rooted
    <3>3. tree'[Folder(x)] = Dir
      BY <1>5, <3>1, <3>2
    <3> QED BY <3>3 DEF Rooted
  <2> QED BY <2>2, <2>3
<1>8. ASSUME ~shared' PROVE Sound(tree', partial', content', open')
  <2>1. Sound(tree, partial, content, open) /\ partial[p] \in {Absent, i}
    BY <1>1, <1>2, <1>8 DEF LibInv, LibTyped
  <2>2. OneWriter(content, i)
    <3>1. \A k \in 1 .. Chunks : k < open[u].next => content[i][k] = u
      BY <1>2, <2>1 DEF Sound, i
    <3>2. open[u].next \in 1 .. Chunks + 1 /\ Chunks \in Nat
      BY <1>1, Apartness DEF LibTyped
    <3>3. \A n \in 1 .. Chunks + 1 : n > Chunks => \A k \in 1 .. Chunks : k < n
      BY <3>2
    <3> QED BY <1>2, <3>1, <3>2, <3>3 DEF OneWriter
  <2>3. ASSUME NEW x \in Paths, tree'[x] \notin {Dir, Absent}
        PROVE  OneWriter(content, tree'[x])
    <3>1. tree'[x] = i \/ tree'[x] = tree[x]
      BY <1>5, <2>1
    <3> QED BY <2>1, <2>2, <2>3, <3>1 DEF Sound
  <2>4. ASSUME NEW x \in Paths, NEW y \in Paths, partial'[x] # Absent
        PROVE  partial'[x] # tree'[y] /\ (partial'[x] = partial'[y] => x = y)
    <3>1. x # p /\ partial'[x] = partial[x] /\ partial[x] # Absent
      BY <1>3, <2>4
    <3>2. /\ \A z \in Paths : partial[x] # tree[z]
          /\ \A z \in Paths : partial[x] = partial[z] => x = z
      BY <2>1, <3>1 DEF Sound
    <3> QED BY <1>3, <1>5, <3>1, <3>2
  <2>5. ASSUME NEW v \in Uploaders, open'[v].inode # Absent
        PROVE  /\ \A x \in Paths : tree'[x] # open'[v].inode
               /\ \A k \in 1 .. Chunks : k < open'[v].next => content[open'[v].inode][k] = v
               /\ \A w \in Uploaders : open'[w].inode = open'[v].inode => w = v
    <3>1. v # u /\ open'[v] = open[v] /\ open[v].inode # Absent
      BY <1>3, <2>5
    <3>2. /\ \A x \in Paths : tree[x] # open[v].inode
          /\ \A k \in 1 .. Chunks : k < open[v].next => content[open[v].inode][k] = v
          /\ \A w \in Uploaders : open[w].inode = open[v].inode => w = v
      BY <2>1, <3>1 DEF Sound
    <3>3. open[v].inode # i
      BY <1>2, <2>1, <3>1, <3>2 DEF i
    <3>4. \A x \in Paths : tree'[x] # open[v].inode
      BY <1>5, <2>1, <3>2, <3>3
    <3>5. \A w \in Uploaders : open'[w].inode = open[v].inode => w = v
      BY <1>3, <3>1, <3>2
    <3> QED BY <3>1, <3>2, <3>4, <3>5
  <2> QED BY <1>2, <2>3, <2>4, <2>5 DEF Sound
<1> QED BY <1>6, <1>7, <1>8 DEF LibInv

\* A folder is made.
LEMMA LibMakes ==
  ASSUME LibInv, NEW p \in Paths, B!handleLibraryMkdir(p) PROVE LibInv'
<1>1. /\ LibTyped /\ B!dirAbs(p) /\ tree[p] = Absent /\ tree' = [tree EXCEPT ![p] = Dir]
      /\ UNCHANGED <<partial, content, open, moving, shared>> /\ B!call
  BY DEF LibInv, B!handleLibraryMkdir, B!Mkdir
<1>2. \A x \in Paths : tree'[x] = IF x = p THEN Dir ELSE tree[x]
  BY <1>1 DEF LibTyped
<1>3. LibTyped'
  <2>1. requests' \in 0 .. MaxParts
    BY <1>1, CallCounts
  <2>2. tree' \in [Paths -> Inodes \cup {Dir, Absent}]
    BY <1>1 DEF LibTyped
  <2> QED BY <1>1, <2>1, <2>2 DEF LibTyped
<1>4. Standing(tree', partial')
  <2> SUFFICES ASSUME NEW x \in Paths, tree'[x] # Absent \/ partial'[x] # Absent
               PROVE  Rooted(tree', x)
    BY DEF Standing
  <2>1. Rooted(tree, x)
    BY <1>1, <1>2, DirAbs DEF LibInv, Standing
  <2>2. Len(x) = 1 \/ Folder(x) \in Paths
    <3>1. Len(x) \in Nat /\ Len(x) > 0
      BY PathFacts
    <3>2. \A k \in Nat : k > 0 => k = 1 \/ k > 1
      OBVIOUS
    <3> QED BY <3>1, <3>2, FolderFacts
  <2> QED BY <1>2, <2>1, <2>2 DEF Rooted
<1>5. ASSUME ~shared' PROVE Sound(tree', partial', content', open')
  <2> DEFINE g == [x \in Paths |-> x]
  <2>1. Sound(tree, partial, content, open)
    BY <1>1, <1>5 DEF LibInv
  <2>2. partial \in [Paths -> Inodes \cup {Absent}] /\ g \in [Paths -> Paths]
    BY <1>1 DEF LibTyped
  <2>3. \A x \in Paths : tree'[x] \notin {Dir, Absent} => \E y \in Paths : tree'[x] = tree[y]
    BY <1>2
  <2>4. \A x \in Paths : partial[x] = partial[g[x]]
    OBVIOUS
  <2>5. \A x, y \in Paths : g[x] = g[y] => x = y
    OBVIOUS
  <2> HIDE DEF g
  <2>6. \A x, y \in Paths : partial[x] # Absent /\ partial[y] # Absent /\ g[x] = g[y] => x = y
    BY <2>5
  <2>7. \A x \in Paths : partial[x] # Absent => partial[x] = partial[g[x]]
    BY <2>4
  <2>8. partial' = partial
    BY <1>1
  <2>9. Drawn(tree', partial', g)
    BY <2>2, <2>3, <2>6, <2>7, <2>8 DEF Drawn
  <2>10. Sound(tree', partial', content, open)
    BY <1>1, <2>1, <2>9, ApartMoves
  <2> QED BY <1>1, <2>10
<1> QED BY <1>3, <1>4, <1>5 DEF LibInv

\* A request to move or delete comes in.
LEMMA LibAsks ==
  ASSUME LibInv, NEW p \in Paths, NEW q \in Paths, Len(p) = Len(q),
         B!handleLibraryRename(p, q)
  PROVE  LibInv'
<1>1. /\ LibTyped /\ B!call /\ tree[p] # Absent /\ tree[q] = Absent /\ moving' = <<p, q>>
      /\ UNCHANGED <<tree, partial, content, open, shared>>
  BY DEF LibInv, B!handleLibraryRename, B!Rename
<1>2. requests' \in 0 .. MaxParts
  BY <1>1, CallCounts
<1>3. p # q
  BY <1>1
<1>4. LibTyped'
  BY <1>1, <1>2, <1>3 DEF LibTyped
<1> QED BY <1>1, <1>4 DEF LibInv

\* Something is moved.
LEMMA LibMoves == ASSUME LibInv, B!MoveItem PROVE LibInv'
<1>1. PICK p \in Paths, q \in Paths :
         moving = <<p, q>> /\ p # q /\ Len(p) = Len(q)
  BY DEF LibInv, LibTyped, B!MoveItem
<1>2. /\ LibTyped /\ moving' = <<>>
      /\ UNCHANGED <<content, open, requests, shared>>
      /\ IF B!movable(p, q)
         THEN /\ tree' = B!moved(tree, p, q, {p, q} \cup B!below(p) \cup B!below(q))
              /\ partial' = B!moved(partial, p, q, B!below(p) \cup B!below(q))
         ELSE UNCHANGED <<tree, partial>>
  <2>1. moving[1] = p /\ moving[2] = q
    BY <1>1
  <2> QED BY <2>1 DEF LibInv, B!MoveItem
<1>3. CASE ~B!movable(p, q)
  <2>1. UNCHANGED <<tree, partial>>
    BY <1>2, <1>3
  <2>2. LibTyped'
    BY <1>2, <2>1 DEF LibTyped
  <2> QED BY <1>2, <2>1, <2>2 DEF LibInv
<1>4. CASE B!movable(p, q)
  <2>1. /\ tree' = B!moved(tree, p, q, Reach(p, q))
        /\ partial' = B!moved(partial, p, q, Inner(p, q))
    BY <1>2, <1>4 DEF Reach, Inner
  <2>2. Rooted(tree, q)
    BY <1>1, <1>4, DirAbs DEF B!movable
  <2>3. Standing(tree', partial')
    <3> SUFFICES ASSUME NEW x \in Paths, tree'[x] # Absent \/ partial'[x] # Absent
                 PROVE  Rooted(tree', x)
      BY DEF Standing
    <3>1. Standing(tree, partial)
      BY DEF LibInv
    <3> QED BY <1>1, <2>1, <2>2, <3>1, MovedStands
  <2>4. ASSUME NEW x \in Paths
        PROVE  /\ tree'[x] = IF Gone(Reach(p, q), p, q, x) THEN Absent
                             ELSE tree[Origin(Reach(p, q), p, q, x)]
               /\ Origin(Reach(p, q), p, q, x) \in Paths
    <3>0. Brought(tree, p, q, Reach(p, q), x)
      BY <1>1, MovedSays
    <3>1. /\ B!moved(tree, p, q, Reach(p, q))[x] = IF Gone(Reach(p, q), p, q, x) THEN Absent
                ELSE tree[Origin(Reach(p, q), p, q, x)]
          /\ Origin(Reach(p, q), p, q, x) \in Paths
      BY <1>1, <3>0 DEF Brought
    <3> QED BY <2>1, <3>1
  <2>5. ASSUME NEW x \in Paths
        PROVE  /\ partial'[x] = IF Gone(Inner(p, q), p, q, x) THEN Absent
                                ELSE partial[Origin(Inner(p, q), p, q, x)]
               /\ Origin(Inner(p, q), p, q, x) \in Paths
    <3>0. Brought(partial, p, q, Inner(p, q), x)
      BY <1>1, MovedSays
    <3>1. /\ B!moved(partial, p, q, Inner(p, q))[x] = IF Gone(Inner(p, q), p, q, x) THEN Absent
                ELSE partial[Origin(Inner(p, q), p, q, x)]
          /\ Origin(Inner(p, q), p, q, x) \in Paths
      BY <1>1, <3>0 DEF Brought
    <3> QED BY <2>1, <3>1
  <2>6. tree' \in [Paths -> Inodes \cup {Dir, Absent}]
    <3>1. DOMAIN tree' = Paths /\ tree' = [x \in Paths |-> tree'[x]]
      BY <2>1 DEF B!moved
    <3>2. \A x \in Paths : tree'[x] \in Inodes \cup {Dir, Absent}
      BY <1>2, <2>4 DEF LibTyped
    <3> QED BY <3>1, <3>2
  <2>7. partial' \in [Paths -> Inodes \cup {Absent}]
    <3>1. DOMAIN partial' = Paths /\ partial' = [x \in Paths |-> partial'[x]]
      BY <2>1 DEF B!moved
    <3>2. \A x \in Paths : partial'[x] \in Inodes \cup {Absent}
      BY <1>2, <2>5 DEF LibTyped
    <3> QED BY <3>1, <3>2
  <2>8. LibTyped'
    BY <1>2, <2>6, <2>7 DEF LibTyped
  <2>9. ASSUME ~shared' PROVE Sound(tree', partial', content', open')
    <3> DEFINE g == [x \in Paths |-> Origin(Inner(p, q), p, q, x)]
    <3>1. Sound(tree, partial, content, open)
      BY <1>2, <2>9 DEF LibInv
    <3>2. g \in [Paths -> Paths]
      BY <2>5
    <3>3. \A x \in Paths : tree'[x] \notin {Dir, Absent} => \E y \in Paths : tree'[x] = tree[y]
      BY <2>4
    <3>4. \A x \in Paths : partial'[x] # Absent =>
              partial'[x] = partial[g[x]] /\ ~Gone(Inner(p, q), p, q, x)
      BY <2>5
    <3>5. ASSUME NEW x \in Paths, NEW y \in Paths, partial'[x] # Absent,
                 partial'[y] # Absent, g[x] = g[y]
          PROVE  x = y
      <4>1. ~Gone(Inner(p, q), p, q, x) /\ ~Gone(Inner(p, q), p, q, y)
        BY <3>4, <3>5
      <4>2. Origin(Inner(p, q), p, q, x) = Origin(Inner(p, q), p, q, y)
        BY <3>5
      <4>3. \A z \in Paths : z \in Inner(p, q) /\ Goes(q, z) => Under(p, z) \in Inner(p, q)
        BY <1>1, ReachUnder
      <4> QED BY <1>1, <4>1, <4>2, <4>3, OriginOnce
    <3> HIDE DEF g
    <3>6. Drawn(tree', partial', g)
      BY <2>7, <3>2, <3>3, <3>4, <3>5 DEF Drawn
    <3>7. Sound(tree', partial', content, open)
      BY <1>2, <3>1, <3>6, ApartMoves
    <3> QED BY <1>2, <3>7
  <2> QED BY <2>3, <2>8, <2>9 DEF LibInv
<1> QED BY <1>3, <1>4

\* Something is deleted.
LEMMA LibDeletes ==
  ASSUME LibInv, NEW p \in Paths, NEW recurse \in BOOLEAN,
         B!handleLibraryDelete(p, recurse)
  PROVE  LibInv'
<1>1. /\ LibTyped /\ B!call /\ UNCHANGED <<content, open, moving, shared>>
      /\ tree' = [x \in Paths |-> IF x \in {p} \cup B!below(p) THEN Absent ELSE tree[x]]
      /\ partial' = [x \in Paths |-> IF x \in B!below(p) THEN Absent ELSE partial[x]]
  BY DEF LibInv, B!handleLibraryDelete, B!Delete
<1>2. \A x \in Paths : x \in B!below(p) <=> Len(p) < Len(x) /\ Goes(p, x)
  BY BelowGoes
<1>3. tree' \in [Paths -> Inodes \cup {Dir, Absent}] /\ partial' \in [Paths -> Inodes \cup {Absent}]
  BY <1>1 DEF LibTyped
<1>4. LibTyped'
  <2>1. requests' \in 0 .. MaxParts
    BY <1>1, CallCounts
  <2> QED BY <1>1, <1>3, <2>1 DEF LibTyped
<1>5. Standing(tree', partial')
  <2> SUFFICES ASSUME NEW x \in Paths, tree'[x] # Absent \/ partial'[x] # Absent
               PROVE  Rooted(tree', x)
    BY DEF Standing
  <2>1. x \notin B!below(p) /\ Rooted(tree, x)
    BY <1>1 DEF LibInv, Standing
  <2>2. Len(x) = 1 \/ Len(x) > 1
    <3>1. Len(x) \in Nat /\ Len(x) > 0
      BY PathFacts
    <3>2. \A k \in Nat : k > 0 => k = 1 \/ k > 1
      OBVIOUS
    <3> QED BY <3>1, <3>2
  <2>3. CASE Len(x) > 1
    <3>1. Folder(x) \in Paths
      BY <2>3, FolderFacts
    <3>2. ~Goes(p, Folder(x))
      BY <1>2, <2>1, <2>3, FolderGoes
    <3>3. Goes(p, p)
      BY PathFacts DEF Goes
    <3>4. tree'[Folder(x)] = tree[Folder(x)]
      BY <1>1, <1>2, <3>1, <3>2, <3>3
    <3> QED BY <2>1, <3>4 DEF Rooted
  <2> QED BY <2>2, <2>3 DEF Rooted
<1>6. ASSUME ~shared' PROVE Sound(tree', partial', content', open')
  <2> DEFINE g == [x \in Paths |-> x]
  <2>1. Sound(tree, partial, content, open)
    BY <1>1, <1>6 DEF LibInv
  <2>2. g \in [Paths -> Paths]
    OBVIOUS
  <2>3. \A x \in Paths : tree'[x] \notin {Dir, Absent} => \E y \in Paths : tree'[x] = tree[y]
    BY <1>1
  <2>4. \A x \in Paths : partial'[x] # Absent => partial'[x] = partial[g[x]]
    BY <1>1
  <2>5. \A x, y \in Paths : g[x] = g[y] => x = y
    OBVIOUS
  <2> HIDE DEF g
  <2>6. Drawn(tree', partial', g)
    BY <1>3, <2>2, <2>3, <2>4, <2>5 DEF Drawn
  <2>7. Sound(tree', partial', content, open)
    BY <1>1, <2>1, <2>6, ApartMoves
  <2> QED BY <1>1, <2>7
<1> QED BY <1>4, <1>5, <1>6 DEF LibInv

\* The process is killed.
LEMMA LibCrashes == ASSUME LibInv, B!Crash PROVE LibInv'
<1>1. /\ LibTyped /\ open' = [u \in Uploaders |-> B!Closed] /\ moving' = <<>>
      /\ UNCHANGED <<tree, partial, content, requests, shared>>
  BY DEF LibInv, B!Crash
<1>2. 1 \in 1 .. Chunks + 1
  BY Apartness
<1>3. /\ B!Closed \in [path : Paths \cup {<<>>}, inode : Inodes \cup {Absent},
                       next : 1 .. Chunks + 1]
      /\ B!Closed.inode = Absent
  BY <1>2 DEF B!Closed
<1>4. \A v \in Uploaders : open'[v].inode = Absent
  BY <1>1, <1>3
<1>5. LibTyped'
  BY <1>1, <1>3, <1>4 DEF LibTyped
<1>6. shared' \/ Sound(tree', partial', content', open')
  BY <1>1, <1>4 DEF LibInv, Sound
<1> QED BY <1>1, <1>5, <1>6 DEF LibInv

\* Every step of the library keeps it whole.
LEMMA LibStep == ASSUME LibInv, [B!Next]_(B!vars) PROVE LibInv'
<1>1. CASE B!MoveItem
  BY <1>1, LibMoves
<1>2. CASE B!Crash
  BY <1>2, LibCrashes
<1>3. ASSUME NEW u \in Uploaders, NEW p \in Paths, B!handleLibraryUpload(u, p)
      PROVE  LibInv'
  BY <1>3, LibCreates
<1>4. ASSUME NEW u \in Uploaders, B!Copy(u) \/ B!CopyFails(u) \/ B!SaveFile(u)
      PROVE  LibInv'
  BY <1>4, LibCopies, LibFails, LibSaves
<1>5. ASSUME NEW p \in Paths, B!handleLibraryMkdir(p) PROVE LibInv'
  BY <1>5, LibMakes
<1>6. ASSUME NEW p \in Paths, NEW recurse \in BOOLEAN, B!handleLibraryDelete(p, recurse)
      PROVE  LibInv'
  BY <1>6, LibDeletes
<1>7. ASSUME NEW p \in Paths, NEW q \in Paths, Len(p) = Len(q), B!handleLibraryRename(p, q)
      PROVE  LibInv'
  BY <1>7, LibAsks
<1>8. CASE UNCHANGED B!vars
  <2>1. UNCHANGED <<tree, partial, content, open, moving, requests, shared>>
    BY <1>8 DEF B!vars
  <2>2. LibTyped'
    BY <2>1 DEF LibInv, LibTyped
  <2> QED BY <2>1, <2>2 DEF LibInv
<1> QED BY <1>1, <1>2, <1>3, <1>4, <1>5, <1>6, <1>7, <1>8 DEF B!Next

\* What the invariant says of the properties that a run checks.
LEMMA LibTells == ASSUME LibInv PROVE B!TypeOK /\ B!FilesAreWhole
<1>1. \A p \in Paths : tree[p] # Absent => B!dirAbs(p)
  BY DirAbs DEF LibInv, Standing
<1>2. B!TypeOK
  BY <1>1 DEF LibInv, LibTyped, B!TypeOK
<1>3. B!FilesAreWhole
  BY DEF LibInv, Sound, OneWriter, B!FilesAreWhole
<1> QED BY <1>2, <1>3

\* What the rest of the node does leaves the library alone.
LEMMA LibAlone == Spec => B!NewLibrary /\ [][B!Next]_(B!vars)
<1>1. Init => B!NewLibrary
  BY DEF Init
<1>2. [Next]_vars => [B!Next]_(B!vars)
  BY DEF Next, vars, bvars, B!vars
<1> QED BY <1>1, <1>2, PTL DEF Spec

\* The invariant of this service holds at the start, and so throughout.
LEMMA LibHolds == Spec => []LibInv
<1> QED BY LibInit, LibStep, LibAlone, PTL

-----------------------------------------------------------------------------
(* The playlist: its file follows the memory, too (playlist.go) *)

\* What the holder of saveMu writes is the list, unless a save is still to come.
PlaylistInv ==
    /\ listSnap = [r \in Posters |-> listSnap[r]]
    /\ listPc \in [Posters -> {"idle", "save", "write", "play"}]
    /\ \A r \in Posters : listSaver = r <=> listPc[r] = "write"
    /\ (\A v \in Posters : listPc[v] # "save") =>
          \A r \in Posters : listPc[r] = "write" => listSnap[r] = list
    /\ Y!PlaylistSettles

\* What the rest of the node does leaves this service alone.
LEMMA PlaylistAlone == Spec => Y!NewPlaylist /\ [][Y!Next]_(Y!vars)
<1>1. Init => Y!NewPlaylist
  BY DEF Init
<1>2. [Next]_vars => [Y!Next]_(Y!vars)
  BY DEF Next, vars, svars, avars, pvars, yvars, bvars, lvars, cvars, gvars, nvars,
         jvars, tvars, kvars, xvars, Y!vars
<1> QED BY <1>1, <1>2, PTL DEF Spec

\* Every post, save, failure or restart keeps it.
LEMMA PlaylistStep == PlaylistInv /\ [Y!Next]_(Y!vars) => PlaylistInv'
<1> SUFFICES ASSUME PlaylistInv, [Y!Next]_(Y!vars) PROVE PlaylistInv'
  OBVIOUS
<1> USE NothingAssumption DEF PlaylistInv, Y!PlaylistSettles, Y!at, Y!ended
<1>1. CASE Y!Restart
  BY <1>1 DEF Y!Restart
<1>2. ASSUME NEW r \in Posters, NEW c \in Lists, Y!Set(r, c) PROVE PlaylistInv'
  BY <1>2 DEF Y!Set
<1>3. ASSUME NEW r \in Posters, Y!Snapshot(r) PROVE PlaylistInv'
  BY <1>3 DEF Y!Snapshot
<1>4. ASSUME NEW r \in Posters, Y!save(r) PROVE PlaylistInv'
  BY <1>4 DEF Y!save
<1>5. ASSUME NEW r \in Posters, Y!SaveFails(r) PROVE PlaylistInv'
  BY <1>5 DEF Y!SaveFails
<1>6. ASSUME NEW r \in Posters, NEW play \in BOOLEAN, Y!handlePlaylistMedia(r, play)
      PROVE  PlaylistInv'
  BY <1>6 DEF Y!handlePlaylistMedia
<1>7. CASE UNCHANGED Y!vars
  BY <1>7 DEF Y!vars
<1> QED
  BY <1>1, <1>2, <1>3, <1>4, <1>5, <1>6, <1>7 DEF Y!Next

\* The invariant of this service holds at the start, and so throughout.
LEMMA PlaylistHolds == Spec => []PlaylistInv
<1>1. Y!NewPlaylist => PlaylistInv
  BY NothingAssumption DEF Y!NewPlaylist, PlaylistInv, Y!PlaylistSettles
<1> QED BY <1>1, PlaylistStep, PlaylistAlone, PTL

\* An item as JSON decodes into it, and a playlist of such.
Clip(i) ==
    /\ i = [kind |-> i.kind, src |-> i.src, id |-> i.id, seconds |-> i.seconds]
    /\ i.seconds \in Int /\ NoItem # <<i.kind, i.src>>
Decoded(c) ==
    /\ c.interval \in Int /\ Len(c.items) \in Nat
    /\ c.items = [n \in 1 .. Len(c.items) |-> c.items[n]]
    /\ \A n \in 1 .. Len(c.items) : Clip(c.items[n])

\* A playlist that is played: short, and each item playable and with an id.
Playable(c) ==
    /\ Decoded(c) /\ c.interval > 0 /\ Len(c.items) <= MaxItems
    /\ \A n \in 1 .. Len(c.items) : LET i == c.items[n] IN
          Y!playable(i) /\ i.id # NoItem /\ i.seconds \in Nat

\* What sanitizing makes of an item.
LEMMA ClipSanitized ==
  ASSUME NEW i, Clip(i), Y!playable(i)
  PROVE  LET s == Y!sanitized(i) IN
         Clip(s) /\ Y!playable(s) /\ s.id # NoItem /\ s.seconds \in Nat
<1> DEFINE s == Y!sanitized(i)
           r == [kind |-> i.kind, src |-> i.src, id |-> i.id, seconds |-> i.seconds]
           d == IF i.id = NoItem THEN <<i.kind, i.src>> ELSE i.id
           t == IF i.seconds < 0 THEN 0 ELSE i.seconds
<1>1. i = r /\ i.seconds \in Int /\ NoItem # <<i.kind, i.src>>
  BY DEF Clip
<1>2. s = [i EXCEPT !.id = d, !.seconds = t]
  BY <1>1 DEF Y!sanitized, Y!histID
<1>3. d # NoItem /\ t \in Nat
  BY <1>1
<1> HIDE DEF s, d, t
<1>4. s = [kind |-> i.kind, src |-> i.src, id |-> d, seconds |-> t]
  BY <1>1, <1>2
<1>5. s.kind = i.kind /\ s.src = i.src /\ s.id = d /\ s.seconds = t
  BY <1>4
<1>6. Clip(s)
  BY <1>1, <1>3, <1>4, <1>5 DEF Clip
<1>7. Y!playable(s)
  BY <1>5 DEF Y!playable
<1> QED BY <1>3, <1>5, <1>6, <1>7 DEF s

\* The items are filtered as Ranking filters.
LEMMA SameRankingY == \A e, D : Y!Kept(e, D) = Kept(e, D)
BY DEF Y!Kept, Kept, Y!Arranged, Arranged, Y!preceding, preceding, Y!Cardinality,
   Cardinality

\* What clean makes of a submission, or of a file.
LEMMA Cleaned ==
  ASSUME NEW c, Decoded(c)
  PROVE  Playable(Y!clean(c))
<1> DEFINE e == c.items
           Z == {e[n] : n \in 1 .. Len(e)}
           D == {n \in DOMAIN e : Y!playable(e[n])}
           k == Kept(e, D)
           m == IF Len(k) < MaxItems THEN Len(k) ELSE MaxItems
           s == [n \in 1 .. m |-> Y!sanitized(k[n])]
           v == IF c.interval < 1 THEN Interval ELSE c.interval
<1>1. /\ Len(e) \in Nat /\ e = [n \in 1 .. Len(e) |-> e[n]] /\ DOMAIN e = 1 .. Len(e)
      /\ \A n \in 1 .. Len(e) : Clip(e[n])
  BY DEF Decoded
<1>2. v \in Int /\ v > 0
  BY PlaylistAssumption DEF Decoded
<1>3. Y!clean(c) = [items |-> s, interval |-> v]
  BY SameRankingY DEF Y!clean, Y!sanitizeItems
<1> HIDE DEF v, e
<1>4. e \in Seq(Z)
  BY <1>1, IsASeq
<1>5. D \subseteq DOMAIN e
  OBVIOUS
<1> HIDE DEF Z
<1>6. PICK o \in [1 .. Cardinality(D) -> D] : KeptBy(Z, e, D, o)
  BY <1>4, <1>5, KeptFacts
<1>7. /\ Len(k) \in Nat /\ \A n \in 1 .. Len(k) : k[n] = e[o[n]] /\ o[n] \in D
  BY <1>6 DEF KeptBy
<1>8. \A n \in 1 .. Len(k) : Clip(k[n]) /\ Y!playable(k[n])
  BY <1>1, <1>7
<1> HIDE DEF k
<1>9. m \in Nat /\ m <= MaxItems /\ m <= Len(k)
  BY <1>7, PlaylistAssumption
<1> HIDE DEF m
<1>10. /\ Len(s) = m /\ s = [n \in 1 .. Len(s) |-> s[n]]
       /\ \A n \in 1 .. Len(s) : s[n] = Y!sanitized(k[n])
  <2>1. s \in Seq({s[n] : n \in 1 .. m}) /\ Len(s) = m
    BY <1>9, IsASeq
  <2> QED BY <2>1
<1>11. \A n \in 1 .. Len(s) :
          Clip(s[n]) /\ Y!playable(s[n]) /\ s[n].id # NoItem /\ s[n].seconds \in Nat
  BY <1>8, <1>9, <1>10, ClipSanitized
<1> HIDE DEF s
<1> DEFINE p == [items |-> s, interval |-> v]
<1>12. p.items = s /\ p.interval = v
  OBVIOUS
<1> HIDE DEF p
<1>13. Playable(p)
  BY <1>2, <1>9, <1>10, <1>11, <1>12 DEF Playable, Decoded
<1> QED BY <1>3, <1>13 DEF p

\* What a list in memory, in a file and in a save under way is.
PlaylistTypes ==
    /\ Playable(list) /\ (listFile = NoList \/ Decoded(listFile))
    /\ listSaver \in Posters \cup {None} /\ playing \in BOOLEAN
    /\ \A r \in Posters : listPc[r] = "write" => Decoded(listSnap[r])

\* What is loaded from a file can be played, too.
LEMMA Loaded == ASSUME NEW f, f = NoList \/ Decoded(f) PROVE Playable(Y!load(f))
<1>1. Playable(Y!Fresh)
  <2>1. /\ Len(<<>>) = 0 /\ <<>> = [n \in 1 .. 0 |-> <<>>[n]]
        /\ Interval \in Int /\ Interval > 0 /\ MaxItems >= 0
    BY PlaylistAssumption
  <2> DEFINE p == [items |-> <<>>, interval |-> Interval]
  <2>2. p.items = <<>> /\ p.interval = Interval /\ Y!Fresh = p
    BY DEF Y!Fresh
  <2> HIDE DEF p
  <2> QED BY <2>1, <2>2 DEF Playable, Decoded
<1> QED BY <1>1, Cleaned DEF Y!load

\* Every step keeps those, and with the invariant they are the types.
LEMMA PlaylistTyped ==
  /\ Y!NewPlaylist => PlaylistTypes
  /\ PlaylistInv /\ PlaylistTypes /\ [Y!Next]_(Y!vars) => PlaylistTypes'
  /\ PlaylistInv /\ PlaylistTypes => Y!TypeOK
<1>a. \A c \in Lists \cup (ListFiles \ {NoList}) : Decoded(c)
  BY PlaylistAssumption DEF Decoded, Clip
<1>b. \A c : Playable(c) => Decoded(c)
  BY DEF Playable
<1>1. Y!NewPlaylist => PlaylistTypes
  <2> SUFFICES ASSUME Y!NewPlaylist PROVE PlaylistTypes
    OBVIOUS
  <2>1. listFile = NoList \/ Decoded(listFile)
    BY <1>a DEF Y!NewPlaylist
  <2> QED BY <2>1, Loaded DEF Y!NewPlaylist, PlaylistTypes
<1>2. ASSUME PlaylistInv, PlaylistTypes, [Y!Next]_(Y!vars) PROVE PlaylistTypes'
  <2>a. PlaylistTypes /\ DOMAIN listPc = Posters /\ DOMAIN listSnap = Posters
    BY <1>2 DEF PlaylistInv
  <2> USE DEF PlaylistTypes, Y!at, Y!ended
  <2>1. CASE Y!Restart
    BY <2>a, <2>1, Loaded DEF Y!Restart
  <2>2. ASSUME NEW r \in Posters, NEW c \in Lists, Y!Set(r, c) PROVE PlaylistTypes'
    BY <1>a, <2>a, <2>2, Cleaned DEF Y!Set
  <2>3. ASSUME NEW r \in Posters, Y!Snapshot(r) PROVE PlaylistTypes'
    BY <1>b, <2>a, <2>3 DEF Y!Snapshot
  <2>4. ASSUME NEW r \in Posters, Y!save(r) PROVE PlaylistTypes'
    BY <2>a, <2>4 DEF Y!save
  <2>5. ASSUME NEW r \in Posters, Y!SaveFails(r) PROVE PlaylistTypes'
    BY <2>a, <2>5 DEF Y!SaveFails
  <2>6. ASSUME NEW r \in Posters, NEW play \in BOOLEAN, Y!handlePlaylistMedia(r, play)
        PROVE  PlaylistTypes'
    BY <2>a, <2>6 DEF Y!handlePlaylistMedia
  <2>7. CASE UNCHANGED Y!vars
    BY <2>a, <2>7 DEF Y!vars
  <2> QED BY <1>2, <2>1, <2>2, <2>3, <2>4, <2>5, <2>6, <2>7 DEF Y!Next
<1>3. ASSUME PlaylistInv, PlaylistTypes PROVE Y!TypeOK
  <2>1. Playable(list) /\ DOMAIN list.items = 1 .. Len(list.items)
    BY <1>3 DEF PlaylistTypes, Playable, Decoded
  <2> QED BY <1>3, <2>1 DEF PlaylistInv, PlaylistTypes, Y!TypeOK, Playable, Decoded
<1> QED BY <1>1, <1>2, <1>3

-----------------------------------------------------------------------------
(* Wi-Fi: a failed join takes away no network (net.go) *)

\* A request that will drop or add a profile works on a network of which nothing
\* is kept, and two requests at work on one network contest it.
JoinInv ==
    /\ J!TypeOK
    /\ J!SavedNetworkSurvives
    /\ \A c \in Joiners :
           joinPc[c] \in {"save", "up"} /\ ~exists[c] /\ req[c].ssid \notin contested
             => kept[req[c].ssid] = {}
    /\ \A c, d \in Joiners :
           c # d /\ J!working(c) /\ J!working(d) /\ req[c].ssid = req[d].ssid
             => req[c].ssid \in contested

\* What the rest of the node does leaves this service alone.
LEMMA JoinAlone == Spec => J!Init /\ [][J!Next]_(J!vars)
<1>1. Init => J!Init
  BY DEF Init
<1>2. [Next]_vars => [J!Next]_(J!vars)
  BY DEF Next, vars, svars, avars, pvars, yvars, bvars, lvars, cvars, gvars, nvars,
         jvars, tvars, kvars, xvars, J!vars, J!history
<1> QED BY <1>1, <1>2, PTL DEF Spec

\* There is a request to begin with.
LEMMA FirstRequest == (CHOOSE r \in J!Requests : TRUE) \in J!Requests
<1>1. PICK s \in SSIDs : TRUE
  BY NetworkAssumption
<1>2. [ssid |-> s, psk |-> Right, hidden |-> TRUE] \in J!Requests
  BY NetworkAssumption DEF J!Requests
<1> QED BY <1>2

\* The types of Wi-Fi are kept by themselves.
LEMMA JoinTyped ==
  /\ J!Init => J!TypeOK
  /\ J!TypeOK /\ [J!Next]_(J!vars) => J!TypeOK'
<1>1. J!Init => J!TypeOK
  BY FirstRequest, NetworkAssumption, BoundAssumption DEF J!Init, J!TypeOK, J!answered
<1>2. ASSUME J!TypeOK, [J!Next]_(J!vars) PROVE J!TypeOK'
  <2> USE NetworkAssumption
      DEF J!TypeOK, J!at, J!ssid, J!answered, J!save, J!settle, J!history
  <2>a. J!TypeOK
    BY <1>2
  <2>0. \A c \in Joiners : req[c].ssid \in SSIDs /\ req[c].psk \in Passwords
    BY <2>a DEF J!Requests
  <2>1. ASSUME NEW c \in Joiners, J!WifiConnect(c) \/ J!AskForget(c) PROVE J!TypeOK'
    <3>1. PICK r \in J!Requests, what \in {"query", "connect", "forget"} :
              J!Ask(c, r, what)
      BY <2>1 DEF J!WifiConnect, J!AskForget
    <3>2. calls' \in 0 .. MaxJoins
      BY <2>a, <3>1, BoundAssumption DEF J!Ask
    <3>3. /\ joinPc' = [joinPc EXCEPT ![c] = what] /\ req' = [req EXCEPT ![c] = r]
          /\ exists' = [exists EXCEPT ![c] = FALSE]
          /\ contested' \subseteq contested \cup {r.ssid} /\ r.ssid \in SSIDs
          /\ UNCHANGED <<profiles, inRange, kept, overwritten>>
      BY <3>1 DEF J!Ask, J!Requests
    <3> QED BY <2>a, <3>2, <3>3
  <2>2. ASSUME NEW c \in Joiners,
               J!ConnectFails(c) \/ J!NotInRange(c) \/ J!SavedWifi(c) \/ J!SaveFails(c)
               \/ J!ForgetFails(c)
        PROVE  J!TypeOK'
    BY <2>a, <2>2 DEF J!ConnectFails, J!NotInRange, J!outOfRange, J!SavedWifi,
       J!SaveFails,
       J!ForgetFails
  <2>3. ASSUME NEW c \in Joiners,
               J!Connect(c) \/ J!SavedWifiFails(c) \/ J!Activate(c) \/ J!WifiForget(c)
        PROVE  J!TypeOK'
    BY <2>a, <2>0, <2>3 DEF J!Connect, J!SavedWifiFails, J!Activate, J!WifiForget
  <2>4. ASSUME NEW c \in Joiners, J!SaveProfile(c) PROVE J!TypeOK'
    BY <2>a, <2>0, <2>4 DEF J!SaveProfile, J!modified, J!added
  <2>5. ASSUME NEW c \in Joiners, J!WrongPassword(c) PROVE J!TypeOK'
    BY <2>a, <2>0, <2>5 DEF J!WrongPassword
  <2>6. ASSUME NEW s \in SSIDs, J!Move(s) PROVE J!TypeOK'
    BY <2>a, <2>6 DEF J!Move
  <2>7. CASE UNCHANGED J!vars
    BY <2>a, <2>7 DEF J!vars
  <2> QED BY <1>2, <2>1, <2>2, <2>3, <2>4, <2>5, <2>6, <2>7 DEF J!Next
<1> QED BY <1>1, <1>2

\* Whether it changes a profile or adds one, a save leaves one.
LEMMA SomethingSaved ==
  \A c \in Joiners : \A psks \in J!modified(c) \cup J!added(c) : psks # {}
<1> SUFFICES ASSUME NEW c \in Joiners, NEW psks \in J!modified(c) \cup J!added(c)
             PROVE  psks # {}
  OBVIOUS
<1>1. CASE psks \in J!modified(c)
  <2>1. PICK p \in profiles[req[c].ssid] :
            psks = IF req[c].psk = Open THEN profiles[req[c].ssid]
                   ELSE (profiles[req[c].ssid] \ {p}) \cup {req[c].psk}
    BY <1>1, Zenon DEF J!modified, J!ssid
  <2> QED BY <2>1
<1>2. CASE psks \in J!added(c)
  <2>1. psks = profiles[req[c].ssid] \cup {req[c].psk}
    BY <1>2, Zenon DEF J!added, J!ssid
  <2> QED BY <2>1
<1> QED BY <1>1, <1>2

\* Every step of a request, or of the air, keeps it.
LEMMA JoinStep == JoinInv /\ [J!Next]_(J!vars) => JoinInv'
<1> SUFFICES ASSUME JoinInv, [J!Next]_(J!vars) PROVE JoinInv'
  OBVIOUS
<1>0. J!TypeOK'
  BY JoinTyped DEF JoinInv
<1>a. /\ \A c \in Joiners : req[c].ssid \in SSIDs /\ req[c].psk \in Passwords
      /\ profiles \in [SSIDs -> SUBSET Passwords] /\ kept \in [SSIDs -> SUBSET Passwords]
      /\ joinPc \in [Joiners -> {"ok", "failed", "idle", "connect", "query", "save", "up",
                                "forget"}]
      /\ exists \in [Joiners -> BOOLEAN] /\ req \in [Joiners -> J!Requests]
      /\ profiles' \in [SSIDs -> SUBSET Passwords]
      /\ kept' \in [SSIDs -> SUBSET Passwords]
  BY <1>0 DEF JoinInv, J!TypeOK, J!Requests, J!answered
<1> USE <1>0, <1>a DEF JoinInv, J!SavedNetworkSurvives, J!at, J!ssid, J!answered, J!save,
       J!settle, J!history, J!working
<1>1. ASSUME NEW c \in Joiners, J!WifiConnect(c) \/ J!AskForget(c) PROVE JoinInv'
  <2>1. PICK r \in J!Requests, what \in {"query", "connect", "forget"} : J!Ask(c, r, what)
    BY <1>1 DEF J!WifiConnect, J!AskForget
  <2>2. /\ ~J!working(c) /\ joinPc' = [joinPc EXCEPT ![c] = what]
        /\ req' = [req EXCEPT ![c] = r]
        /\ exists' = [exists EXCEPT ![c] = FALSE]
        /\ contested' = contested \cup
               {s \in {r.ssid} : \E o \in Joiners : J!working(o) /\ req[o].ssid = s}
        /\ UNCHANGED <<profiles, inRange, kept, overwritten>>
    BY <2>1 DEF J!Ask
  <2> QED BY <2>2
<1>2. ASSUME NEW c \in Joiners, J!Connect(c) PROVE JoinInv'
  BY <1>2 DEF J!Connect
<1>3. ASSUME NEW c \in Joiners, J!ConnectFails(c) PROVE JoinInv'
  BY <1>3 DEF J!ConnectFails
<1>4. ASSUME NEW c \in Joiners, J!NotInRange(c) PROVE JoinInv'
  BY <1>4 DEF J!NotInRange, J!outOfRange
<1>5. ASSUME NEW c \in Joiners, J!SavedWifi(c) PROVE JoinInv'
  BY <1>5 DEF J!SavedWifi
<1>6. ASSUME NEW c \in Joiners, J!SavedWifiFails(c) PROVE JoinInv'
  BY <1>6 DEF J!SavedWifiFails
<1>7. ASSUME NEW c \in Joiners, J!SaveProfile(c) PROVE JoinInv'
  <2>1. /\ joinPc[c] = "save" /\ joinPc' \in {[joinPc EXCEPT ![c] = "up"],
                                             [joinPc EXCEPT ![c] = "ok"]}
        /\ UNCHANGED <<inRange, req, exists, calls, contested>>
    BY <1>7 DEF J!SaveProfile
  <2>2. PICK psks \in IF exists[c] THEN J!modified(c) ELSE J!added(c) :
            /\ profiles' = [profiles EXCEPT ![req[c].ssid] = psks]
            /\ \/ /\ overwritten' = overwritten \cup
                           {s \in {req[c].ssid} : ~ kept[s] \subseteq psks}
                  /\ kept' = kept
               \/ /\ overwritten' = overwritten \ {req[c].ssid}
                  /\ kept' = [kept EXCEPT ![req[c].ssid] = psks]
    BY <1>7 DEF J!SaveProfile
  <2>3. psks # {}
    <3>1. CASE exists[c]
      BY <2>2, <3>1, SomethingSaved
    <3>2. CASE ~exists[c]
      BY <2>2, <3>2, SomethingSaved
    <3> QED BY <3>1, <3>2
  <2>4. J!SavedNetworkSurvives'
    BY <2>1, <2>2, <2>3
  <2>5. \A d \in Joiners :
            joinPc'[d] \in {"save", "up"} /\ ~exists[d] /\ req[d].ssid \notin contested
              => kept'[req[d].ssid] = {}
    <3> SUFFICES ASSUME NEW d \in Joiners, joinPc'[d] \in {"save", "up"}, ~exists[d],
                        req[d].ssid \notin contested
                 PROVE  kept'[req[d].ssid] = {}
      OBVIOUS
    <3>1. joinPc[d] \in {"save", "up"} /\ kept[req[d].ssid] = {}
      BY <2>1
    <3>2. CASE d = c
      BY <1>7, <3>1, <3>2 DEF J!SaveProfile
    <3>3. CASE d # c
      BY <2>1, <2>2, <3>1, <3>3
    <3> QED BY <3>2, <3>3
  <2>6. \A d, e \in Joiners :
            d # e /\ J!working(d)' /\ J!working(e)' /\ req[d].ssid = req[e].ssid
              => req[d].ssid \in contested
    BY <2>1
  <2> QED BY <2>1, <2>4, <2>5, <2>6
<1>8. ASSUME NEW c \in Joiners, J!SaveFails(c) PROVE JoinInv'
  BY <1>8 DEF J!SaveFails
<1>9. ASSUME NEW c \in Joiners, J!Activate(c) PROVE JoinInv'
  BY <1>9 DEF J!Activate
<1>10. ASSUME NEW c \in Joiners, J!WrongPassword(c) PROVE JoinInv'
  BY <1>10 DEF J!WrongPassword, J!drop
<1>11. ASSUME NEW c \in Joiners, J!WifiForget(c) PROVE JoinInv'
  BY <1>11 DEF J!WifiForget
<1>12. ASSUME NEW c \in Joiners, J!ForgetFails(c) PROVE JoinInv'
  BY <1>12 DEF J!ForgetFails
<1>13. ASSUME NEW s \in SSIDs, J!Move(s) PROVE JoinInv'
  BY <1>13 DEF J!Move
<1>14. CASE UNCHANGED J!vars
  BY <1>14 DEF J!vars
<1> QED
  BY <1>1, <1>2, <1>3, <1>4, <1>5, <1>6, <1>7, <1>8, <1>9, <1>10, <1>11, <1>12,
     <1>13, <1>14 DEF J!Next

\* The invariant of this service holds at the start, and so throughout.
LEMMA JoinHolds == Spec => []JoinInv
<1>1. J!Init => JoinInv
  <2> SUFFICES ASSUME J!Init PROVE JoinInv
    OBVIOUS
  <2>1. J!TypeOK
    BY JoinTyped
  <2>2. /\ kept = profiles /\ overwritten = {}
        /\ \A c \in Joiners : joinPc[c] = "idle"
    BY DEF J!Init
  <2> QED BY <2>1, <2>2 DEF JoinInv, J!SavedNetworkSurvives, J!working, J!answered
<1> QED BY <1>1, JoinStep, JoinAlone, PTL

-----------------------------------------------------------------------------
(* The types of all of them *)

\* The numbers that a call keeps are in their bounds.
LEMMA PageTyped == ASSUME PageInv PROVE C!TypeOK
<1>1. /\ 1 \in Zooms /\ Schemes \subseteq BOOLEAN /\ MaxBrowsers \in Nat
  BY LookAssumption, BoundAssumption
<1>2. PageTypes /\ LinksKnown /\ Bounded
  BY DEF PageInv
<1>3. /\ ctx \in Conns \cup {None} /\ zoom \in Zooms /\ port \in C!Ports
      /\ threadPc \in [C!Threads -> Points] /\ driven \subseteq Conns
  BY <1>1, <1>2 DEF PageTypes, Bounded
<1>4. /\ launched \in 0 .. MaxBrowsers
      /\ link \in [Conns -> 0 .. MaxBrowsers]
  BY <1>1, <1>2 DEF PageTypes, LinksKnown, Bounded
<1>5. browser \in [id : 0 .. launched, port : C!Ports, zoom : Zooms, dark : BOOLEAN]
  BY <1>1, <1>2, <1>4 DEF PageTypes, LinksKnown, Pages
<1>6. base.id \in 0 .. launched /\ base.port \in C!Ports
  BY <1>2, <1>4 DEF PageTypes, Bounded, Bases
<1> DEFINE Small ==
             [op : {"none", "start", "off", "switch", "reattach", "rotate", "relaunch"}
                   \cup C!Requests,
              what : {"none", "navigate"} \cup C!Requests,
              base : 0 .. MaxBrowsers, port : C!Ports, dark : BOOLEAN, zoom : Zooms,
              ctx : Conns \cup {None}, found : 0 .. MaxBrowsers]
<1>7. local \in [C!Threads -> Small]
  <2> SUFFICES ASSUME NEW t \in C!Threads PROVE local[t] \in Small
    BY <1>2 DEF PageTypes
  <2>1. local[t] \in Calls /\ local[t].base <= launched /\ local[t].found <= launched
    BY <1>2 DEF PageTypes, Bounded
  <2>2. local[t].base \in 0 .. MaxBrowsers /\ local[t].found \in 0 .. MaxBrowsers
    BY <1>1, <1>4, <2>1, CallFields
  <2> QED BY <1>1, <2>1, <2>2 DEF Calls
<1> QED BY <1>3, <1>4, <1>5, <1>6, <1>7 DEF C!TypeOK, Points

\* The focus is one of the services, and stays what it is.
Foci == {"scheduler", "actions", "state", "playlist", "library", "view", "page", "key",
         "scan", "join", "tailscale", "packages", "tls"}
\* The focus stays what it is.
LEMMA FocusKept == Spec => [](focus \in Foci)
<1>1. Init => focus \in Foci
  BY DEF Init, Foci
<1>2. [Next]_vars => focus' = focus
  BY DEF Next, vars
<1>3. focus \in Foci /\ [Next]_vars => (focus \in Foci)'
  BY <1>2
<1> QED BY <1>1, <1>3, PTL DEF Spec

-----------------------------------------------------------------------------
(* What Services states *)

\* Every service keeps its types, and the scheduler what is sorted and parses, for
\* every value of the constants (PersistedState to Tls).
THEOREM ServicesTyped == Spec => []WellFormed
<1> DEFINE F == focus \in Foci
           T1 == S!TypeOK /\ A!TypeOK /\ P!TypeOK /\ B!TypeOK /\ L!TypeOK
           T2 == C!TypeOK /\ G!TypeOK /\ N!TypeOK /\ X!TypeOK
           T3 == Y!TypeOK /\ J!TypeOK /\ T!TypeOK /\ K!TypeOK
<1>1. SchedInv /\ ActInv /\ StateInv /\ LibInv /\ ViewInv => T1
  BY SchedTyped, ActTells, StateTyped, LibTells, ViewTyped
<1>2. PageInv /\ KeyInv /\ ScanInv /\ TlsInv => T2
  BY PageTyped, ScanTyped DEF KeyInv, TlsInv
<1>3. Spec => []Y!TypeOK
  <2>1. Spec => []PlaylistTypes
    BY PlaylistTyped, PlaylistHolds, PlaylistAlone, PTL
  <2> QED BY <2>1, PlaylistTyped, PlaylistHolds, PTL
<1>4. Spec => []T!TypeOK
  <2>1. Spec => []TailscaleTypes
    BY TailscaleTyped, TailscaleHolds, TailscaleAlone, PTL
  <2> QED BY <2>1, TailscaleTyped, TailscaleHolds, PTL
<1>5. Spec => []K!TypeOK
  BY PackagesTyped, PackagesAlone, PTL
<1>6. Spec => []J!TypeOK
  BY JoinTyped, JoinAlone, PTL
<1>7. Spec => []F
  BY FocusKept
<1>8. F /\ T1 /\ T2 /\ T3 => WellFormed
  BY DEF WellFormed, Foci
<1> HIDE DEF F, T1, T2
<1>9. Spec => []T3
  BY <1>3, <1>4, <1>5, <1>6, PTL
<1> HIDE DEF T3
<1>10. Spec => []T1
  BY <1>1, SchedHolds, ActHolds, StateHolds, LibHolds, ViewHolds, PTL
<1>11. Spec => []T2
  BY <1>2, PageInit, PageInvStep, PageAlone, KeyHolds, ScanHolds, TlsHolds, PTL
<1> QED BY <1>7, <1>8, <1>9, <1>10, <1>11, PTL

\* What the UI addresses by a slug, id, label or name is one thing, for every list
\* of actions, history and tree of folders: slugs and ids tell the actions apart
\* and their order outlives a restart (actions.go), labels and ids the entries of
\* the state (state.go), and a name in the library is one whole upload
\* (library.go, SaveFile).
THEOREM NamesApart == Spec => []Addressable
<1>1. ActInv => A!Keyed /\ A!OrderedSlice /\ A!PlaysItsOwn
  BY ActTells
<1>2. StateInv => P!StateKeyed /\ P!ActiveHeadsHistory
  BY GoodTells DEF StateInv, StateTells
<1>3. LibInv => B!FilesAreWhole
  BY LibTells
<1>4. ActInv /\ StateInv /\ LibInv => Addressable
  BY <1>1, <1>2, <1>3 DEF Addressable
<1> QED BY <1>4, ActHolds, StateHolds, LibHolds, PTL

\* Of all transitions of today and yesterday that are not in the future the one
\* that the scheduler finds is the latest, for every schedule (weekly.go,
\* desiredLocked).
THEOREM DueIsLatest == Spec => []DesiredIsLatest
<1>1. SchedInv => DesiredIsLatest
  BY DesiredLatest DEF SchedInv, DesiredIsLatest, S!DesiredIsLatest
<1> QED BY <1>1, SchedHolds, PTL

\* A manual switch sticks until the next transition, whatever midnights lie
\* between, and the legacy window never comes back, for every schedule
\* (weekly.go, tick, MigrateNightly).
THEOREM SwitchSticks == Spec => ManualSticks
<1>1. Spec => S!ManualSticks
  BY SchedActs, SchedHolds, SchedAlone, PTL DEF S!ManualSticks, Crossing
<1>2. Spec => S!LegacyStaysGone
  BY SchedActs, SchedHolds, SchedAlone, PTL DEF S!LegacyStaysGone, Chosen
<1> QED BY <1>1, <1>2 DEF ManualSticks

\* The list of networks sums up the scan and the saved ones, the connected one
\* first, for every scan and however many networks (net.go).
THEOREM ScanSumsUp == Spec => []NetworksListed
<1>1. ScanInv => NetworksListed
  BY DEF ScanInv, NetworksListed
<1> QED BY <1>1, ScanHolds, PTL

\* A server that runs is the known one: at most one capture server, for somebody
\* (vnc.go), and an HTTPS listener on record with a certificate (tls.go), for
\* any number of viewers and servers.
THEOREM RunningServersKnown == Spec => []ServersKnown
<1>1. ViewInv /\ TlsInv => ServersKnown
  BY DEF ServersKnown, ViewInv, TlsInv
<1> QED BY <1>1, ViewHolds, TlsHolds, PTL

\* When nobody writes, state.json holds the state (state.go) and playlist.json
\* the playlist (playlist.go), for any number of writers, in whatever order
\* they change and save.
THEOREM WrittenFilesSettle == Spec => []FilesSettle
<1>1. StateInv /\ PlaylistInv => FilesSettle
  BY DEF FilesSettle, StateInv, PlaylistInv
<1> QED BY <1>1, StateHolds, PlaylistHolds, PTL

\* What was written later is not undone by what was read or begun earlier: the
\* state file (state.go), the cached status (tailscale.go) and the count of the
\* packages after an upgrade (apt.go), for any number of threads.
THEOREM LaterPrevails == Spec => NeverGoesBack
<1>1. StateInv /\ [P!Next]_(P!vars) => [stateFile'.version >= stateFile.version]_(P!vars)
  BY StateStep DEF Forward
<1>2. TailscaleInv /\ [T!Next]_(T!vars) => [cached'.revision >= cached.revision]_(T!vars)
  BY TailscaleStep
<1>3. /\ PackagesInv /\ [K!Next]_(K!vars)
      => [count' # count => count'.upgrades = system.upgrades]_(K!vars)
  BY PackagesStep DEF CountedAfter
<1>4. Spec => P!FileGoesForward
  BY <1>1, StateHolds, StateAlone, PTL DEF P!FileGoesForward
<1>5. Spec => T!CacheNeverGoesBack
  BY <1>2, TailscaleHolds, TailscaleAlone, PTL DEF T!CacheNeverGoesBack
<1>6. Spec => K!CountAfterUpgrade
  BY <1>3, PackagesHolds, PackagesAlone, PTL DEF K!CountAfterUpgrade
<1> QED BY <1>4, <1>5, <1>6 DEF NeverGoesBack

\* A change of it that fails or is interrupted takes away nothing that lets one in,
\* for any number of clients and requests at once: not the control key, but for a
\* start that cannot read its file, and rotations that overlapped (auth.go); not a
\* saved network, but for a Forget or a failed query, nor its password, but for a
\* save of another, and but for two requests for that network at once (net.go).
THEOREM AccessKept == Spec => []AccessSurvives
<1>1. KeyInv => G!KeyNeverLost /\ G!FileIsLive
  BY DEF KeyInv, RotationInv, Rotating, G!TypeOK, G!KeyNeverLost, G!FileIsLive, G!quiet
<1>2. JoinInv => J!SavedNetworkSurvives
  BY DEF JoinInv
<1> QED BY <1>1, <1>2, KeyHolds, JoinHolds, PTL DEF AccessSurvives
=============================================================================
