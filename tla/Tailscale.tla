------------------------------ MODULE Tailscale ------------------------------
(***************************************************************************)
(* The overlay network (agent/tailscale.go, type Tailscale).               *)
(*                                                                         *)
(* Up, Down and SetServe run the tailscale command and then refresh the    *)
(* cached status, as do a ticker, GET /api/tailscale and the first boot    *)
(* with a staged key.  mu is held for single steps only; refreshMu is held *)
(* from before the status is asked for until it is stored.  The daemon is  *)
(* a backend that is joined or not and serves the UI or not; revision      *)
(* counts its changes.  Addresses, names and notes are left out.           *)
(***************************************************************************)
EXTENDS Naturals

CONSTANTS
    Callers,      \* HTTP requests
    Ticker, Boot, \* goroutines
    NoOne,
    MaxChanges    \* bound: changes of the backend

VARIABLES
    backend,      \* [joined, serving, revision]
    cached,       \* t.cached: [joined, serve, revision]
    serve,        \* t.serve
    file,         \* tailscale.json
    staged,       \* the pre-auth key file exists
    refresher,    \* holder of refreshMu
    pc, loc       \* where each goroutine is; its local variables

vars == <<backend, cached, serve, file, staged, refresher, pc, loc>>

Threads == Callers \cup {Ticker, Boot}

\* then: where to go on after a refresh; for: the request that SetServe is a
\* part of; want: the wish, or what saveServe read; answer: what status said.
NoStatus == [joined |-> FALSE, serve |-> FALSE, revision |-> 0]
Fresh == [then |-> "idle", for |-> "serve", want |-> FALSE, answer |-> NoStatus]

Init ==
    /\ file \in BOOLEAN /\ staged \in BOOLEAN
    /\ \E joined \in BOOLEAN :
           backend = [joined |-> joined, serving |-> file, revision |-> 0]
    /\ cached = [NoStatus EXCEPT !.serve = file] /\ serve = file
    /\ refresher = NoOne
    /\ pc = [t \in Threads |-> IF t = Boot THEN "status" ELSE "idle"]
    /\ loc = [t \in Threads |-> Fresh]

move(t, from, to) == pc[t] = from /\ pc' = [pc EXCEPT ![t] = to]

\* Go on with a refresh, and then at another point.
refreshing(t, from, then) ==
    /\ move(t, from, "refresh") /\ loc' = [loc EXCEPT ![t].then = then]

change(b) == /\ backend.revision < MaxChanges
             /\ backend' = [b EXCEPT !.revision = @ + 1]

(* refresh *)

\* Mutation: refreshes are not serialized.
refreshUnserialized(t) == UNCHANGED refresher

lockRefresh(t) == refresher = NoOne /\ refresher' = t

RefreshBegins(t) ==
    /\ move(t, "refresh", "ask") /\ lockRefresh(t)
    /\ loc' = [loc EXCEPT ![t].answer.serve = serve]
    /\ UNCHANGED <<backend, cached, serve, file, staged>>

\* tailscale status; without an answer the node shows as not joined.
StatusAnswers(t) ==
    /\ move(t, "ask", "store")
    /\ \E joined \in {backend.joined, FALSE} :
         loc' = [loc EXCEPT ![t].answer.joined = joined,
                            ![t].answer.revision = backend.revision]
    /\ UNCHANGED <<backend, cached, serve, file, staged, refresher>>

Store(t) ==
    /\ move(t, "store", loc[t].then)
    /\ cached' = loc[t].answer /\ refresher' = NoOne
    /\ loc' = [loc EXCEPT ![t] = IF @.then = "idle" THEN Fresh
                                 ELSE [@ EXCEPT !.answer = NoStatus]]
    /\ UNCHANGED <<backend, serve, file, staged>>

(* Requests *)

\* The ticker, and Status().
Refresh(t) ==
    /\ t # Boot /\ refreshing(t, "idle", "idle")
    /\ UNCHANGED <<backend, cached, serve, file, staged, refresher>>

\* POST /api/tailscale/up, /serve and /down; the last one begins with SetServe.
Ask(c, request, on) ==
    /\ move(c, "idle", IF request = "up" THEN "up" ELSE "serve")
    /\ request = "down" => ~on
    /\ loc' = [loc EXCEPT ![c] = [Fresh EXCEPT !.for = request, !.want = on]]
    /\ UNCHANGED <<backend, cached, serve, file, staged, refresher>>

\* tailscale up; the first boot serves nothing and then removes the key.
Up(t) ==
    /\ change([backend EXCEPT !.joined = TRUE])
    /\ IF loc[t].want THEN move(t, "up", "serve") /\ UNCHANGED loc
       ELSE refreshing(t, "up", IF t = Boot THEN "shred" ELSE "idle")
    /\ UNCHANGED <<cached, serve, file, staged, refresher>>

UpFails(t) ==
    /\ move(t, "up", "idle")
    /\ UNCHANGED <<backend, cached, serve, file, staged, refresher, loc>>

\* SetServe: the command, and the operator's wish under mu.
SetServe(c) ==
    /\ move(c, "serve", "save")
    /\ change([backend EXCEPT !.serving = loc[c].want])
    /\ serve' = loc[c].want
    /\ UNCHANGED <<cached, file, staged, refresher, loc>>

\* Up has joined all the same and refreshes; Down goes on.
ServeFails(c) ==
    /\ CASE loc[c].for = "up"    -> refreshing(c, "serve", "idle")
         [] loc[c].for = "down"  -> move(c, "serve", "logout") /\ UNCHANGED loc
         [] loc[c].for = "serve" -> move(c, "serve", "idle") /\ UNCHANGED loc
    /\ UNCHANGED <<backend, cached, serve, file, staged, refresher>>

\* saveServe reads the wish again, and writes it without a lock.
ReadServe(c) ==
    /\ move(c, "save", "write")
    /\ loc' = [loc EXCEPT ![c].want = serve]
    /\ UNCHANGED <<backend, cached, serve, file, staged, refresher>>

WriteServe(c) ==
    /\ refreshing(c, "write", CASE loc[c].for = "up"    -> "again"
                                [] loc[c].for = "down"  -> "logout"
                                [] loc[c].for = "serve" -> "idle")
    /\ file' \in {file, loc[c].want}
    /\ UNCHANGED <<backend, cached, serve, staged, refresher>>

\* Up refreshes once more after SetServe did.
UpRefreshes(c) ==
    /\ refreshing(c, "again", "idle")
    /\ UNCHANGED <<backend, cached, serve, file, staged, refresher>>

Logout(c) ==
    /\ \/ refreshing(c, "logout", "idle") /\ change([backend EXCEPT !.joined = FALSE])
       \/ move(c, "logout", "idle") /\ UNCHANGED <<loc, backend>>
    /\ UNCHANGED <<cached, serve, file, staged, refresher>>

(* MaybeJoinFromKeyFile *)

BootReadsKey ==
    /\ IF staged THEN refreshing(Boot, "status", "joined?")
       ELSE move(Boot, "status", "idle") /\ UNCHANGED loc
    /\ UNCHANGED <<backend, cached, serve, file, staged, refresher>>

BootJoins ==
    /\ move(Boot, "joined?", IF cached.joined THEN "shred" ELSE "up")
    /\ UNCHANGED <<backend, cached, serve, file, staged, refresher, loc>>

shredKeyFile ==
    /\ move(Boot, "shred", "idle") /\ staged' \in {FALSE, staged}
    /\ UNCHANGED <<backend, cached, serve, file, refresher, loc>>

Next ==
    \/ \E t \in Threads :
         \/ RefreshBegins(t) \/ StatusAnswers(t) \/ Store(t) \/ Refresh(t)
         \/ Up(t) \/ UpFails(t)
    \/ \E c \in Callers :
         \/ \E request \in {"up", "serve", "down"}, on \in BOOLEAN : Ask(c, request, on)
         \/ SetServe(c) \/ ServeFails(c) \/ ReadServe(c) \/ WriteServe(c)
         \/ UpRefreshes(c) \/ Logout(c)
    \/ BootReadsKey \/ BootJoins \/ shredKeyFile

Spec == Init /\ [][Next]_vars

-----------------------------------------------------------------------------
TypeOK ==
    /\ {cached.joined, cached.serve, serve, file, staged} \subseteq BOOLEAN
    /\ cached.revision <= backend.revision /\ backend.revision <= MaxChanges
    /\ refresher \in Threads \cup {NoOne}
    /\ \A t \in Threads : refresher = t <=> pc[t] \in {"ask", "store"}

\* "A slow, stale poll can't clobber fresh status": the cached status never
\* goes back to an older one, so a UI that has seen a join does not see the
\* node outside the tailnet again because of a poll that began before.
CacheNeverGoesBack == [][cached'.revision >= cached.revision]_vars
=============================================================================
