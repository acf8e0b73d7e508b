------------------------------- MODULE XServer -------------------------------
(***************************************************************************)
(* The agent's own X server (agent/xorg.go, type XServer).                 *)
(*                                                                         *)
(* Start writes the cookie, supervises Xorg, waits until its socket        *)
(* accepts and then supervises the window manager and the cursor hider,    *)
(* which are clients of that server and die with it.  Stop cancels the     *)
(* context, which kills the children and ends the loops.                   *)
(***************************************************************************)
EXTENDS Naturals, FiniteSets

CONSTANTS
    Delays,       \* number of doublings up to the longest delay
    MaxFailures   \* bound: starts of a child that fail

VARIABLES
    starter,      \* Start: cookie, wait, ready, failed
    cancelled,    \* x.ctx
    loop,         \* each supervise: none, top, built, running, reap, sleep, over
    backoff,      \* as the number of doublings
    accepts,      \* Xorg's socket
    failures

vars == <<starter, cancelled, loop, backoff, accepts, failures>>

Clients == {"wm", "cursor"}
Children == {"Xorg"} \cup Clients

Init ==
    /\ starter = "cookie" /\ cancelled = FALSE /\ accepts = FALSE
    /\ loop = [c \in Children |-> "none"]
    /\ backoff = [c \in Children |-> 0] /\ failures = 0

at(c, from, to) == loop[c] = from /\ loop' = [loop EXCEPT ![c] = to]
running(c) == loop[c] = "running"

(* Start *)

WriteAuth ==
    /\ starter = "cookie" /\ starter' = "wait"
    /\ at("Xorg", "none", "top")
    /\ UNCHANGED <<cancelled, backoff, accepts, failures>>

WriteAuthFails ==
    /\ starter = "cookie" /\ starter' = "failed"
    /\ UNCHANGED <<cancelled, loop, backoff, accepts, failures>>

Ready ==
    /\ starter = "wait" /\ accepts /\ starter' = "ready"
    /\ loop' = [c \in Children |-> IF c \in Clients THEN "top" ELSE loop[c]]
    /\ UNCHANGED <<cancelled, backoff, accepts, failures>>

\* 25 s without an answer, or Stop.  Xorg goes on, without its clients.
NotReady ==
    /\ starter = "wait" /\ starter' = "failed"
    /\ UNCHANGED <<cancelled, loop, backoff, accepts, failures>>

Stop ==
    /\ ~cancelled /\ cancelled' = TRUE
    /\ UNCHANGED <<starter, loop, backoff, accepts, failures>>

(* supervise *)

LoopTop(c) ==
    /\ at(c, "top", IF cancelled THEN "over" ELSE "built")
    /\ UNCHANGED <<starter, cancelled, backoff, accepts, failures>>

\* cmd.Start() refuses a context that is done.
Launch(c) ==
    /\ ~cancelled /\ at(c, "built", "running")
    /\ UNCHANGED <<starter, cancelled, backoff, accepts, failures>>

LaunchFails(c) ==
    /\ cancelled \/ failures < MaxFailures
    /\ failures' = IF cancelled THEN failures ELSE failures + 1
    /\ at(c, "built", "sleep")
    /\ UNCHANGED <<starter, cancelled, backoff, accepts>>

\* A child exits, is killed, or a client finds no server.
Exit(c) ==
    /\ at(c, "running", "reap")
    /\ accepts' = (accepts /\ c # "Xorg")
    /\ UNCHANGED <<starter, cancelled, backoff, failures>>

\* Mutation: a child that ends well is not needed any more.
ReapForGood(c) ==
    /\ \E to \in {"over", "sleep"} : at(c, "reap", to)
    /\ backoff' = [backoff EXCEPT ![c] = 0]
    /\ UNCHANGED <<starter, cancelled, accepts, failures>>

\* A child that ran starts the delays over.
Reap(c) ==
    /\ at(c, "reap", IF cancelled THEN "over" ELSE "sleep")
    /\ backoff' = IF cancelled THEN backoff ELSE [backoff EXCEPT ![c] = 0]
    /\ UNCHANGED <<starter, cancelled, accepts, failures>>

Sleep(c) ==
    /\ at(c, "sleep", IF cancelled THEN "over" ELSE "top")
    /\ backoff' = IF cancelled \/ backoff[c] = Delays THEN backoff
                  ELSE [backoff EXCEPT ![c] = @ + 1]
    /\ UNCHANGED <<starter, cancelled, accepts, failures>>

\* The server accepts clients a while after it was launched.
Accept ==
    /\ running("Xorg") /\ ~accepts /\ accepts' = TRUE
    /\ UNCHANGED <<starter, cancelled, loop, backoff, failures>>

Next ==
    \/ WriteAuth \/ WriteAuthFails \/ Ready \/ NotReady \/ Stop \/ Accept
    \/ \E c \in Children : \/ LoopTop(c) \/ Launch(c) \/ LaunchFails(c)
                           \/ Exit(c) \/ Reap(c) \/ Sleep(c)

Spec == Init /\ [][Next]_vars

\* A loop goes on; a child whose context is cancelled is killed.
goesOn(c) ==
    \/ LoopTop(c) \/ Launch(c) \/ Reap(c) \/ Sleep(c)
    \/ cancelled /\ (LaunchFails(c) \/ Exit(c))

Fairness == \A c \in Children : WF_vars(goesOn(c))

FairSpec == Spec /\ Fairness

-----------------------------------------------------------------------------
TypeOK ==
    /\ starter \in {"cookie", "wait", "ready", "failed"}
    /\ loop \in [Children -> {"none", "top", "built", "running", "reap",
                              "sleep", "over"}]
    /\ backoff \in [Children -> 0 .. Delays] /\ failures \in 0 .. MaxFailures
    /\ {cancelled, accepts} \subseteq BOOLEAN /\ (accepts => running("Xorg"))

\* Once Start has returned without an error, the server, its window manager
\* and the cursor hider each come back whenever they are gone, until Stop; and
\* after Stop every loop ends, with nothing left running.
BaseComesBack ==
    /\ \A c \in Children : starter = "ready" ~> running(c) \/ cancelled
    /\ cancelled ~> \A c \in Children : loop[c] \in {"none", "over"}
=============================================================================
