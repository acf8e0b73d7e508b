--------------------------------- MODULE Auth ---------------------------------
(***************************************************************************)
(* The control key (agent/auth.go, and the gate of agent/server.go): where *)
(* it is kept, who is let in with it, and how it is rotated.  The key that *)
(* counts is in memory; a rotation writes the key file first, and a        *)
(* restart reads it, unless the agent was started with a key as an option. *)
(* Any number of rotations may be under way, and they share one temporary  *)
(* file: what a rotation has open may be that file, may have become the    *)
(* key file by the rename of another, or may have no name any more.        *)
(*                                                                         *)
(* A request is a class of paths and methods, loopback or not, and carries *)
(* a key by cookie or header.  Keys are compared, never looked into; an    *)
(* empty file holds NoKey.                                                 *)
(***************************************************************************)
EXTENDS Naturals

CONSTANTS
    Clients, Keys,
    NoKey,           \* no key: the gate is open
    InitAuthKey,     \* the node mints a key when it has none
    HasKeyFile,      \* a key file is configured
    MaxRestarts

VARIABLES
    up,              \* the agent runs, its key resolved
    authKey,         \* the option -auth-key
    live,            \* the key that counts
    file,            \* what the key file holds
    tmp,             \* what the temporary file holds, if there is one
    fd,              \* what each client's call writes to
    cookie,          \* the cookie of each client
    setupComplete,
    pc, new,         \* each client's call, and the key it brought
    restarts,
    source,          \* history: where the live key came from
    keyed,           \* history: the node had a key
    crowded          \* history: two rotations overlapped

memory == <<up, live, pc, new, fd>>
disk   == <<file, tmp, setupComplete>>
hist   == <<restarts, source, keyed, crowded>>
vars   == <<memory, disk, cookie, authKey, hist>>

Init ==
    /\ up = FALSE /\ live = NoKey /\ file \in Keys \cup {NoKey} /\ tmp = {}
    /\ authKey \in Keys \cup {NoKey} /\ source = "option"
    /\ fd = [c \in Clients |-> "none"]
    /\ cookie = [c \in Clients |-> NoKey] /\ setupComplete = FALSE
    /\ pc = [c \in Clients |-> "idle"] /\ new = [c \in Clients |-> NoKey]
    /\ restarts = 0 /\ keyed = FALSE /\ crowded = FALSE

(* The gate *)

Classes == {"shell", "viewer", "setup", "rest"}
request(class, local, keys) == [class |-> class, local |-> local, keys |-> keys]

authEnabled         == live # NoKey
authed(r)           == live \in r.keys
\* The shell of the UI, the login and the health check.
authExempt(r)       == r.class = "shell"
\* What the kiosk itself shows: documents, media and the player.
kioskLocalExempt(r) == r.class = "viewer" /\ r.local
\* What the wizard does, until it has been finished.
setupExempt(r)      == r.class = "setup" /\ ~setupComplete

ServeHTTP(r) ==
    /\ up
    /\ authEnabled => \/ authExempt(r) \/ kioskLocalExempt(r)
                      \/ setupExempt(r) \/ authed(r)

\* A client sends its cookie, and may send a key that it knows.
carries(c, k) == {cookie[c], k} \ {NoKey}

at(c, from, to) == pc[c] = from /\ pc' = [pc EXCEPT ![c] = to]

(* The start *)

\* A key is minted when the file is missing or empty, or Stat fails; writing it
\* may fail as well.
ensureAuthKeyFile(stat) ==
    {file} \cup IF InitAuthKey /\ (file = NoKey \/ ~stat) THEN Keys ELSE {}

\* resolve: an explicit key wins, and the file is left alone; otherwise the key
\* is what the file holds, or none if it cannot be read.
explicit == authKey # NoKey \/ ~HasKeyFile

resolve ==
    /\ ~up /\ up' = TRUE
    /\ \/ explicit /\ source' = "option" /\ live' = authKey /\ UNCHANGED file
       \/ /\ ~explicit /\ \E stat \in BOOLEAN : file' \in ensureAuthKeyFile(stat)
          /\ \/ source' = "file" /\ live' = file'
             \/ source' = "unread" /\ live' = NoKey
    /\ keyed' = (keyed \/ live' # NoKey)
    /\ UNCHANGED <<tmp, setupComplete, cookie, authKey, pc, new, fd, restarts, crowded>>

\* The agent stops, or the power fails, at any point of a rotation.
Crash ==
    /\ up /\ restarts < MaxRestarts /\ restarts' = restarts + 1
    /\ up' = FALSE /\ live' = NoKey
    /\ pc' = [c \in Clients |-> "idle"] /\ new' = [c \in Clients |-> NoKey]
    /\ fd' = [c \in Clients |-> "none"]
    /\ UNCHANGED <<disk, cookie, authKey, source, keyed, crowded>>

(* Login and logout *)

\* The key is compared with the live one ...
handleAuth(c, k) ==
    /\ ServeHTTP(request("shell", FALSE, carries(c, k)))
    /\ authEnabled /\ k = live /\ at(c, "idle", "cookie")
    /\ UNCHANGED <<up, live, new, fd, disk, cookie, authKey, hist>>

\* ... and the cookie takes the key that is live then.
SetCookie(c) ==
    /\ at(c, "cookie", "idle") /\ cookie' = [cookie EXCEPT ![c] = live]
    /\ UNCHANGED <<up, live, new, fd, disk, authKey, hist>>

handleLogout(c) ==
    /\ ServeHTTP(request("rest", FALSE, carries(c, NoKey)))
    /\ pc[c] = "idle" /\ cookie' = [cookie EXCEPT ![c] = NoKey]
    /\ UNCHANGED <<memory, disk, authKey, hist>>

(* The rotation *)

\* A valid key is never empty.
validAuthKey(k) == k # NoKey

handleAuthKey(c, k) ==
    /\ ServeHTTP(request("setup", FALSE, carries(c, NoKey)))
    /\ validAuthKey(k) /\ HasKeyFile
    /\ at(c, "idle", "open") /\ new' = [new EXCEPT ![c] = k]
    /\ crowded' = (crowded \/ \E o \in Clients : new[o] # NoKey)
    /\ UNCHANGED <<up, live, fd, disk, cookie, authKey, restarts, source, keyed>>

\* Mutation: the key file itself is truncated and written.
writeAuthKeyFileInPlace(c) ==
    /\ at(c, "open", "write") /\ file' = NoKey /\ fd' = [fd EXCEPT ![c] = "file"]
    /\ UNCHANGED <<up, live, new, tmp, setupComplete, cookie, authKey, hist>>

\* writeAuthKeyFile: the temporary file is made, or emptied if another has it ...
writeAuthKeyFile(c) ==
    /\ at(c, "open", "write") /\ tmp' = {NoKey} /\ fd' = [fd EXCEPT ![c] = "tmp"]
    /\ UNCHANGED <<up, live, new, file, setupComplete, cookie, authKey, hist>>

\* ... written, whatever has become of it ...
Write(c) ==
    /\ at(c, "write", "rename") /\ fd' = [fd EXCEPT ![c] = "none"]
    /\ tmp'  = IF fd[c] = "tmp"  THEN {new[c]} ELSE tmp
    /\ file' = IF fd[c] = "file" THEN new[c]   ELSE file
    /\ UNCHANGED <<up, live, new, setupComplete, cookie, authKey, hist>>

\* What the others have open after the temporary file has taken the name of the
\* key file.
renamed(f) == IF f = "tmp" THEN "file" ELSE "none"

\* ... and renamed over the key file, if there still is one.
Rename(c) ==
    /\ at(c, "rename", "apply") /\ file' \in tmp /\ tmp' = {}
    /\ fd' = [o \in Clients |-> renamed(fd[o])]
    /\ UNCHANGED <<up, live, new, setupComplete, cookie, authKey, hist>>

\* A step fails, the last one also because another took the file: 500.  A chmod
\* that fails removes the file.
WriteFails(c) ==
    /\ \/ \E step \in {"open", "write"} : at(c, step, "idle") /\ UNCHANGED tmp
       \/ at(c, "rename", "idle") /\ tmp' \in {tmp, {}}
    /\ new' = [new EXCEPT ![c] = NoKey] /\ fd' = [fd EXCEPT ![c] = "none"]
    /\ UNCHANGED <<up, live, file, setupComplete, cookie, authKey, hist>>

SetAuthKey(c) ==
    /\ at(c, "apply", "idle") /\ live' = new[c]
    /\ source' = "file" /\ keyed' = TRUE
    /\ new' = [new EXCEPT ![c] = NoKey]
    /\ UNCHANGED <<up, fd, disk, cookie, authKey, restarts, crowded>>

\* The wizard is finished, and state.json says so.
handleSetupFinish(c) ==
    /\ ServeHTTP(request("setup", FALSE, carries(c, NoKey)))
    /\ ~setupComplete /\ setupComplete' = TRUE
    /\ UNCHANGED <<memory, file, tmp, cookie, authKey, hist>>

Next ==
    \/ resolve \/ Crash
    \/ \E c \in Clients :
           \/ SetCookie(c) \/ handleLogout(c) \/ handleSetupFinish(c)
           \/ writeAuthKeyFile(c) \/ Write(c) \/ Rename(c) \/ WriteFails(c)
           \/ SetAuthKey(c)
           \/ \E k \in Keys : handleAuth(c, k) \/ handleAuthKey(c, k)

Spec == Init /\ [][Next]_vars

-----------------------------------------------------------------------------
TypeOK ==
    /\ {up, setupComplete} \subseteq BOOLEAN /\ restarts \in 0..MaxRestarts
    /\ {live, file, authKey} \subseteq Keys \cup {NoKey}
    /\ tmp \subseteq Keys \cup {NoKey}
    /\ cookie \in [Clients -> Keys \cup {NoKey}]
    /\ new \in [Clients -> Keys \cup {NoKey}]
    /\ fd \in [Clients -> {"none", "tmp", "file"}]
    /\ source \in {"option", "file", "unread"}
    /\ pc \in [Clients -> {"idle", "cookie", "open", "write", "rename", "apply"}]

\* Nobody rotates the key just now.
quiet == \A c \in Clients : new[c] = NoKey

\* A node that had a key has one whenever it serves, wherever a rotation failed
\* or was interrupted: no restart opens the gate.  Two exceptions: the start that
\* cannot read the key file serves without a key until it is rotated (resolve),
\* and nothing is claimed once rotations overlapped: the rename of one may make
\* the file that another has only emptied the key file.
KeyNeverLost == up /\ keyed /\ ~crowded => live # NoKey \/ source = "unread"

\* When no rotation is under way, the key that counts is the one that a restart
\* would read: after a rotation, or a start that took it from the file, and
\* unless rotations overlapped (handleAuthKey).  A start with -auth-key takes that
\* one, also after a rotation.
FileIsLive == up /\ ~crowded /\ quiet /\ source = "file" => file = live
=============================================================================
