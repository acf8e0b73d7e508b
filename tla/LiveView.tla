------------------------------ MODULE LiveView ------------------------------
(***************************************************************************)
(* The live view (agent/vnc.go, type VNC): a capture server that is        *)
(* started for the first viewer, kept while somebody looks or it is        *)
(* pinned, and stopped a grace period after the last viewer left.          *)
(*                                                                         *)
(* A viewer is an HTTP request that bridges a web socket; Pin(true) starts *)
(* the server the same way.  startMu is held through a start, mu only for  *)
(* single steps, so viewers come and go, the idle timer fires and the      *)
(* server exits while another is being started.  Which program captures    *)
(* the screen (x11vnc or wayvnc) is left out.                              *)
(***************************************************************************)
EXTENDS Naturals, FiniteSets

CONSTANTS
    Viewers, Pinner,   \* requests: viewers, and POST /api/vnc
    Servers,           \* processes, reused when they are gone
    None

VARIABLES
    pc,        \* out, lock, launch, port, ready, in
    startMu,   \* its holder, or None
    cmd, running, clients, pinned,
    armed,     \* stopTimer will fire
    expired,   \* it fired, and its function waits for mu
    server,    \* each process: none, up, told (to stop), exited
    forsaken   \* history: a start was given up after the launch

state == <<cmd, running, clients, pinned>>
vars  == <<pc, startMu, state, armed, expired, server, forsaken>>

Clients == Viewers \cup {Pinner}
live(s) == server[s] \in {"up", "told"}

Init ==
    /\ pc = [c \in Clients |-> "out"] /\ startMu = None
    /\ cmd = None /\ running = FALSE /\ clients = 0 /\ pinned = FALSE
    /\ armed = FALSE /\ expired = FALSE
    /\ server = [s \in Servers |-> "none"] /\ forsaken = FALSE

at(c, from, to) == pc[c] = from /\ pc' = [pc EXCEPT ![c] = to]

(* ensureServer *)

\* A viewer connects, or the view is pinned.
Ask(c) ==
    /\ at(c, "out", "lock")
    /\ UNCHANGED <<startMu, state, armed, expired, server, forsaken>>

AlreadyRunning(c) ==
    /\ startMu = None /\ running /\ at(c, "lock", "ready")
    /\ UNCHANGED <<startMu, state, armed, expired, server, forsaken>>

BeginStart(c) ==
    /\ startMu = None /\ ~running /\ at(c, "lock", "launch")
    /\ startMu' = c
    /\ UNCHANGED <<state, armed, expired, server, forsaken>>

\* waitPortFree waits a while for the previous server, and goes on regardless.
Launch(c) ==
    /\ at(c, "launch", "port")
    /\ \E s \in Servers :
           /\ server[s] = "none"
           /\ server' = [server EXCEPT ![s] = "up"]
           /\ cmd' = s /\ running' = TRUE
    /\ UNCHANGED <<startMu, clients, pinned, armed, expired, forsaken>>

LaunchFails(c) ==
    /\ at(c, "launch", "out") /\ startMu' = None
    /\ UNCHANGED <<state, armed, expired, server, forsaken>>

\* Something accepts on the port.
PortOpens(c) ==
    /\ at(c, "port", "ready") /\ startMu' = None
    /\ \E s \in Servers : live(s)
    /\ UNCHANGED <<state, armed, expired, server, forsaken>>

\* Nothing did for 20 s.  The server that was launched stays.
PortTimeout(c) ==
    /\ at(c, "port", "out") /\ startMu' = None
    /\ forsaken' = TRUE
    /\ UNCHANGED <<state, armed, expired, server>>

(* Viewers and the pin *)

\* clientConnect: the viewer counts, and the idle stop is cancelled.
Connect(v) ==
    /\ at(v, "ready", "in")
    /\ clients' = clients + 1 /\ armed' = FALSE
    /\ UNCHANGED <<startMu, cmd, running, pinned, expired, server, forsaken>>

\* clientDisconnect: the viewer left, or could not reach the server.
Disconnect(v) ==
    /\ at(v, "in", "out")
    /\ clients' = clients - 1
    /\ armed' = (armed \/ (clients' = 0 /\ ~pinned))
    /\ UNCHANGED <<startMu, cmd, running, pinned, expired, server, forsaken>>

PinOn ==
    /\ at(Pinner, "ready", "out")
    /\ pinned' = TRUE
    /\ UNCHANGED <<startMu, cmd, running, clients, armed, expired, server,
                   forsaken>>

\* stopLocked: SIGTERM to the server, which is forgotten at once.
stop ==
    /\ server' = [s \in Servers |->
                      IF s = cmd /\ server[s] = "up" THEN "told" ELSE server[s]]
    /\ cmd' = None /\ running' = FALSE

PinOff ==
    /\ pc[Pinner] = "out"
    /\ pinned' = FALSE
    /\ IF clients = 0 THEN stop ELSE UNCHANGED <<server, cmd, running>>
    /\ UNCHANGED <<pc, startMu, clients, armed, expired, forsaken>>

Expire ==
    /\ armed /\ armed' = FALSE /\ expired' = TRUE
    /\ UNCHANGED <<pc, startMu, state, server, forsaken>>

IdleStop ==
    /\ expired /\ expired' = FALSE
    /\ IF clients = 0 /\ ~pinned THEN stop ELSE UNCHANGED <<server, cmd, running>>
    /\ UNCHANGED <<pc, startMu, clients, pinned, armed, forsaken>>

(* The server *)

Exit(s) ==
    /\ live(s)
    /\ server' = [server EXCEPT ![s] = "exited"]
    /\ UNCHANGED <<pc, startMu, state, armed, expired, forsaken>>

\* Mutation: a late exit clears the state of the server after it.
ReapBlindly(s) ==
    /\ server[s] = "exited"
    /\ server' = [server EXCEPT ![s] = "none"]
    /\ cmd' = None /\ running' = FALSE
    /\ UNCHANGED <<pc, startMu, clients, pinned, armed, expired, forsaken>>

\* The goroutine that waits for this process.
Reap(s) ==
    /\ server[s] = "exited"
    /\ server' = [server EXCEPT ![s] = "none"]
    /\ IF cmd = s THEN cmd' = None /\ running' = FALSE
       ELSE UNCHANGED <<cmd, running>>
    /\ UNCHANGED <<pc, startMu, clients, pinned, armed, expired, forsaken>>

Next ==
    \/ \E c \in Clients : \/ Ask(c) \/ AlreadyRunning(c) \/ BeginStart(c)
                          \/ Launch(c) \/ LaunchFails(c)
                          \/ PortOpens(c) \/ PortTimeout(c)
    \/ \E v \in Viewers : Connect(v) \/ Disconnect(v)
    \/ PinOn \/ PinOff \/ Expire \/ IdleStop
    \/ \E s \in Servers : Exit(s) \/ Reap(s)

Spec == Init /\ [][Next]_vars

-----------------------------------------------------------------------------
TypeOK ==
    /\ pc \in [Clients -> {"out", "lock", "launch", "port", "ready", "in"}]
    /\ startMu \in Clients \cup {None} /\ cmd \in Servers \cup {None}
    /\ server \in [Servers -> {"none", "up", "told", "exited"}]
    /\ clients = Cardinality({v \in Viewers : pc[v] = "in"})
    /\ {running, pinned, armed, expired, forsaken} \subseteq BOOLEAN

\* At most one capture server runs that nobody told to stop, and it is the one
\* the agent knows: the idle stop, the pin, a late exit of the server before
\* and a start in progress never lose one or launch a second.
OneServer == \A s \in Servers : server[s] = "up" => running /\ cmd = s

\* "The heavy capture only runs while someone is actually watching": a server
\* runs for a viewer, a pin, a request that is about to become one of them, or
\* the grace period, unless the request that started it gave up on its port.
ServerIsWatched ==
    running => \/ clients > 0 \/ pinned \/ armed \/ expired \/ forsaken
               \/ \E c \in Clients : pc[c] \in {"port", "ready"}
=============================================================================
