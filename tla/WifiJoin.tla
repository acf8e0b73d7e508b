------------------------------ MODULE WifiJoin ------------------------------
(***************************************************************************)
(* Joining and forgetting Wi-Fi networks (agent/net.go: WifiConnect,       *)
(* wifiSaveProfile, WifiForget, savedWifi).                                *)
(*                                                                         *)
(* Each request is a few runs of nmcli, with no lock and seconds between   *)
(* them.  What NetworkManager keeps is a set of profiles for each SSID,    *)
(* told apart by the password they hold: "add" adds one even if there is   *)
(* one of that name, "modify" changes one, "delete" removes all of the     *)
(* name.  A run of nmcli may fail; a failed query reads as "not saved".    *)
(* The syntax of SSIDs and passwords is left out; no password is Open.     *)
(***************************************************************************)
EXTENDS Naturals

CONSTANTS
    Callers,      \* HTTP requests
    SSIDs,
    Passwords, Right, Open,  \* Right is the access points' password
    MaxCalls      \* bound: requests

VARIABLES
    profiles,     \* SSID -> the passwords of its saved profiles
    inRange,      \* access points one can associate with
    pc, req, exists,   \* of each request: its place, arguments, local variable
    calls,
    kept,         \* history: SSID -> what it should have, by the answers given
    overwritten,  \* history: SSIDs one of whose kept passwords a join replaced
                  \* that has not been answered with success
    contested     \* history: SSIDs that two requests were at work on at once

history == <<kept, overwritten, contested>>
vars    == <<profiles, inRange, pc, req, exists, calls, history>>

Requests == [ssid : SSIDs, psk : Passwords, hidden : BOOLEAN]

Init ==
    /\ profiles \in [SSIDs -> {{}, {Right}}] /\ inRange = {}
    /\ pc = [c \in Callers |-> "idle"]
    /\ req \in [Callers -> {CHOOSE r \in Requests : TRUE}]
    /\ exists = [c \in Callers |-> FALSE] /\ calls = 0
    /\ kept = profiles /\ overwritten = {} /\ contested = {}

at(c, from, to) == pc[c] = from /\ pc' = [pc EXCEPT ![c] = to]
ssid(c)    == req[c].ssid
answered   == {"ok", "failed"}
working(c) == pc[c] \notin answered \cup {"idle"}

\* What is saved of the SSID of c from now on.
save(c, psks) == profiles' = [profiles EXCEPT ![ssid(c)] = psks]

\* What is saved of it now is what should be there: the answer says so.
settle(c, psks) ==
    /\ kept' = [kept EXCEPT ![ssid(c)] = psks]
    /\ overwritten' = overwritten \ {ssid(c)} /\ UNCHANGED contested

\* Whether access point and password, or the saved one, let one in.
admits(s, psk) ==
    s \in inRange /\ (psk = Right \/ (psk = Open /\ Right \in profiles[s]))

Ask(c, r, what) ==
    /\ calls < MaxCalls /\ calls' = calls + 1
    /\ pc[c] \in answered \cup {"idle"}
    /\ pc' = [pc EXCEPT ![c] = what]
    /\ req' = [req EXCEPT ![c] = r] /\ exists' = [exists EXCEPT ![c] = FALSE]
    /\ contested' = contested \cup
           {s \in {r.ssid} : \E o \in Callers : working(o) /\ ssid(o) = s}
    /\ UNCHANGED <<profiles, inRange, kept, overwritten>>

\* A hidden network is saved without trying "dev wifi connect".
WifiConnect(c) == \E r \in Requests : Ask(c, r, IF r.hidden THEN "query" ELSE "connect")

\* "dev wifi connect" joins what the scan sees, and keeps the profile.
Connect(c) ==
    /\ admits(ssid(c), req[c].psk) /\ at(c, "connect", "ok")
    /\ save(c, {Right}) /\ settle(c, {Right})
    /\ UNCHANGED <<inRange, req, exists, calls>>

ConnectFails(c) ==
    /\ at(c, "connect", "failed")
    /\ UNCHANGED <<profiles, inRange, req, exists, calls, history>>

\* wifiNotInRange: the profile is saved for later.
outOfRange(c) == IF ssid(c) \in inRange THEN "failed" ELSE "query"

NotInRange(c) ==
    /\ at(c, "connect", outOfRange(c))
    /\ UNCHANGED <<profiles, inRange, req, exists, calls, history>>

(* wifiSaveProfile *)

SavedWifi(c) ==
    /\ at(c, "query", "save")
    /\ exists' = [exists EXCEPT ![c] = profiles[ssid(c)] # {}]
    /\ UNCHANGED <<profiles, inRange, req, calls, history>>

\* The query failed, and a saved network counts as new: nothing is promised of it.
SavedWifiFails(c) ==
    /\ at(c, "query", "save") /\ settle(c, {})
    /\ UNCHANGED <<profiles, inRange, req, exists, calls>>

\* A profile is changed in place, a password only for another, or one is added.
modified(c) ==
    {IF req[c].psk = Open THEN profiles[ssid(c)]
     ELSE (profiles[ssid(c)] \ {p}) \cup {req[c].psk} : p \in profiles[ssid(c)]}
added(c) == {profiles[ssid(c)] \cup {req[c].psk}}

\* A hidden network is then brought up.
SaveProfile(c) ==
    /\ at(c, "save", IF req[c].hidden THEN "up" ELSE "ok")
    /\ \E psks \in IF exists[c] THEN modified(c) ELSE added(c) :
          /\ save(c, psks)
          /\ IF req[c].hidden
             THEN /\ overwritten' =
                        overwritten \cup {s \in {ssid(c)} : ~ kept[s] \subseteq psks}
                  /\ UNCHANGED <<kept, contested>>
             ELSE settle(c, psks)
    /\ UNCHANGED <<inRange, req, exists, calls>>

SaveFails(c) ==
    /\ at(c, "save", "failed")
    /\ UNCHANGED <<profiles, inRange, req, exists, calls, history>>

\* Up, or not for now: the profile stays, for NetworkManager to join later.
Activate(c) ==
    /\ at(c, "up", "ok") /\ settle(c, profiles[ssid(c)])
    /\ UNCHANGED <<profiles, inRange, req, exists, calls>>

drop(c) == ~exists[c]

\* nmcli asks for a password: a profile that was just added is dropped again, if
\* that works, and one that was changed stays changed.
WrongPassword(c) ==
    /\ ssid(c) \in inRange /\ req[c].psk \notin {Right, Open} /\ at(c, "up", "failed")
    /\ \/ UNCHANGED profiles
       \/ drop(c) /\ save(c, {})
    /\ UNCHANGED <<inRange, req, exists, calls, history>>

(* WifiForget *)

AskForget(c) == \E r \in Requests : ~r.hidden /\ Ask(c, r, "forget")

WifiForget(c) ==
    /\ profiles[ssid(c)] # {} /\ at(c, "forget", "ok")
    /\ save(c, {}) /\ settle(c, {})
    /\ UNCHANGED <<inRange, req, exists, calls>>

ForgetFails(c) ==
    /\ at(c, "forget", "failed")
    /\ UNCHANGED <<profiles, inRange, req, exists, calls, history>>

(* The air *)

Move(s) ==
    /\ inRange' = IF s \in inRange THEN inRange \ {s} ELSE inRange \cup {s}
    /\ UNCHANGED <<profiles, pc, req, exists, calls, history>>

Next ==
    \/ \E c \in Callers :
         \/ WifiConnect(c) \/ Connect(c) \/ ConnectFails(c) \/ NotInRange(c)
         \/ SavedWifi(c) \/ SavedWifiFails(c) \/ SaveProfile(c) \/ SaveFails(c)
         \/ Activate(c) \/ WrongPassword(c)
         \/ AskForget(c) \/ WifiForget(c) \/ ForgetFails(c)
    \/ \E s \in SSIDs : Move(s)

Spec == Init /\ [][Next]_vars

-----------------------------------------------------------------------------
TypeOK ==
    /\ profiles \in [SSIDs -> SUBSET Passwords] /\ inRange \subseteq SSIDs
    /\ pc \in [Callers -> answered \cup {"idle", "connect", "query", "save",
                                         "up", "forget"}]
    /\ req \in [Callers -> Requests] /\ exists \in [Callers -> BOOLEAN]
    /\ calls \in 0 .. MaxCalls
    /\ kept \in [SSIDs -> SUBSET Passwords] /\ overwritten \cup contested \subseteq SSIDs

\* A saved network is only lost to a Forget, and its password only to a save of
\* another: in whatever step a join fails, nothing else goes, and what was
\* answered with success stays.  Three exceptions: a join during which
\* NetworkManager did not say what it has saved (SavedWifiFails); the passwords,
\* not the network, once a hidden join has put its own in the place of a saved
\* one and was not answered with success ("Update IN PLACE so a failed change
\* never destroys the working profile" is true of the update, not of the join);
\* and two requests for one network at once (NetworkKept).
SavedNetworkSurvives ==
    \A s \in SSIDs \ contested :
        /\ kept[s] # {} => profiles[s] # {}
        /\ s \notin overwritten => kept[s] \subseteq profiles[s]

\* The comment on "delete": it is to "drop a just-added profile so a retry is
\* clean".  So a network that was saved, with whatever password, stays.
NetworkKept == \A s \in SSIDs : kept[s] # {} => profiles[s] # {}
=============================================================================
