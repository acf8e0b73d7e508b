--------------------------- MODULE PersistedState ---------------------------
(***************************************************************************)
(* The node's state (agent/state.go, type State) and its file state.json.  *)
(*                                                                         *)
(* Writers (HTTP handlers, the scheduler, the guards) change the state     *)
(* under mu and then save(): under saveMu they take a snapshot, write a    *)
(* temporary file and rename it.  The lock mu is free in between, so other *)
(* writers change the state while a save is under way.  The process may be *)
(* killed at any point, and a write may fail (a full disk): save() logs it *)
(* and returns.  Playlist, Scheduler, Actions and Miracast save the same   *)
(* way.                                                                    *)
(***************************************************************************)
EXTENDS Integers, Sequences, Ranking

CONSTANTS
    Writers,
    Shows,        \* modes that are recorded: [off, label, mode]
    CustomIds,    \* ids of custom modes, given or hashed from the time
    Launchers,    \* what a custom mode launches
    MaxHistory,   \* maxHistory
    MaxChanges,   \* bound: changes made in one run
    NoMode, NoOne, NoSnap

VARIABLES
    mem,        \* the fields of State
    version,    \* history: how many changes mem has seen
    saver,      \* the holder of saveMu, or NoOne
    snap,       \* each writer's snapshot: [state, version], or NoSnap
    tmp,        \* state.json.tmp; what a failed save leaves is overwritten
    file,       \* state.json
    pc,         \* where each writer is: idle, save, write, rename
    stale       \* history: the last save that ended failed

vars == <<mem, version, saver, snap, tmp, file, pc, stale>>

Fresh == [active |-> NoMode, setupComplete |-> FALSE, history |-> <<>>,
          customModes |-> <<>>, localInput |-> "unset"]

Init ==
    /\ mem = Fresh /\ version = 0
    /\ saver = NoOne /\ snap = [w \in Writers |-> NoSnap]
    /\ tmp = NoSnap /\ file = [state |-> Fresh, version |-> 0]
    /\ pc = [w \in Writers |-> "idle"] /\ stale = FALSE

(* The changes: what each setter does under mu. *)

labels(list) == {list[i].label : i \in DOMAIN list}
without(list, label) == Kept(list, {i \in DOMAIN list : list[i].label # label})
capped(list) == IF Len(list) > MaxHistory THEN SubSeq(list, 1, MaxHistory) ELSE list

RecordMode(s, m) ==
    [s EXCEPT !.active = m,
              !.history = IF m.off THEN @
                          ELSE capped(<<m>> \o without(@, m.label))]

DeleteHistory(s, label) == [s EXCEPT !.history = without(@, label)]
ClearHistory(s) == [s EXCEPT !.history = <<>>]
SetSetupComplete(s, v) == [s EXCEPT !.setupComplete = v]
SetLocalInput(s, v) == [s EXCEPT !.localInput = v]

customIds(s) == {s.customModes[i].id : i \in DOMAIN s.customModes}

\* In place when the id is there, else at the end; a new one gets a new id.
UpsertCustom(s, cm) ==
    [s EXCEPT !.customModes =
        IF cm.id \in customIds(s)
        THEN [i \in DOMAIN @ |-> IF @[i].id = cm.id THEN cm ELSE @[i]]
        ELSE Append(@, cm)]

DeleteCustom(s, id) ==
    [s EXCEPT !.customModes = Kept(@, {i \in DOMAIN @ : @[i].id # id})]

Changes(s) ==
    {RecordMode(s, m) : m \in Shows}
    \cup {DeleteHistory(s, l) : l \in labels(s.history)}
    \cup {ClearHistory(s), SetSetupComplete(s, TRUE), SetLocalInput(s, "off")}
    \cup {UpsertCustom(s, cm) : cm \in [id : CustomIds, launch : Launchers]}
    \cup {DeleteCustom(s, i) : i \in customIds(s)}

Change(w) ==
    /\ pc[w] = "idle" /\ version < MaxChanges
    /\ mem' \in Changes(mem)
    /\ version' = version + 1
    /\ pc' = [pc EXCEPT ![w] = "save"]
    /\ UNCHANGED <<saver, snap, tmp, file, stale>>

(* save *)

\* Mutation: saves are not serialized.
SnapshotUnserialized(w) ==
    /\ pc[w] = "save"
    /\ saver' = w
    /\ snap' = [snap EXCEPT ![w] = [state |-> mem, version |-> version]]
    /\ pc' = [pc EXCEPT ![w] = "write"]
    /\ UNCHANGED <<mem, version, tmp, file, stale>>

Snapshot(w) ==
    /\ pc[w] = "save" /\ saver = NoOne
    /\ saver' = w
    /\ snap' = [snap EXCEPT ![w] = [state |-> mem, version |-> version]]
    /\ pc' = [pc EXCEPT ![w] = "write"]
    /\ UNCHANGED <<mem, version, tmp, file, stale>>

Write(w) ==
    /\ pc[w] = "write"
    /\ tmp' = snap[w]
    /\ pc' = [pc EXCEPT ![w] = "rename"]
    /\ UNCHANGED <<mem, version, saver, snap, file, stale>>

\* The end of save(), done or failed.
Unlock(w) ==
    /\ saver' = NoOne /\ tmp' = NoSnap
    /\ snap' = [snap EXCEPT ![w] = NoSnap]
    /\ pc' = [pc EXCEPT ![w] = "idle"]
    /\ UNCHANGED <<mem, version>>

\* The temporary file has to be there.
Rename(w) ==
    /\ pc[w] = "rename" /\ tmp # NoSnap
    /\ file' = tmp /\ stale' = FALSE
    /\ Unlock(w)

SaveFails(w) ==
    /\ pc[w] \in {"write", "rename"}
    /\ stale' = TRUE
    /\ UNCHANGED file
    /\ Unlock(w)

\* The process dies and starts again: load().
Crash ==
    /\ mem' = file.state /\ version' = file.version
    /\ saver' = NoOne /\ snap' = [w \in Writers |-> NoSnap] /\ tmp' = NoSnap
    /\ pc' = [w \in Writers |-> "idle"] /\ stale' = FALSE
    /\ UNCHANGED file

Next ==
    \/ \E w \in Writers : \/ Change(w) \/ Snapshot(w) \/ Write(w)
                          \/ Rename(w) \/ SaveFails(w)
    \/ Crash

Spec == Init /\ [][Next]_vars

-----------------------------------------------------------------------------
TypeOK ==
    /\ mem.active \in Shows \cup {NoMode}
    /\ mem.history \in Seq(Shows) /\ Len(mem.history) <= MaxHistory
    /\ version \in 0 .. MaxChanges /\ saver \in Writers \cup {NoOne}
    /\ pc \in [Writers -> {"idle", "save", "write", "rename"}]

\* The remembered shows have distinct labels and the custom modes distinct ids:
\* DeleteHistory, DeleteCustom and the UI address them by these.
StateKeyed ==
    /\ \A i, j \in DOMAIN mem.history :
           i # j => mem.history[i].label # mem.history[j].label
    /\ \A i, j \in DOMAIN mem.customModes :
           i # j => mem.customModes[i].id # mem.customModes[j].id

\* What is on screen was shown last: it heads the history, if it is there.
ActiveHeadsHistory ==
    \A i \in DOMAIN mem.history :
        mem.active # NoMode /\ mem.history[i].label = mem.active.label => i = 1

\* "Concurrent saves can't clobber each other's update": the file never goes
\* back to an older state, whoever saves when, and a crash in the middle of a
\* save leaves the old file or the new one.
FileGoesForward == [][file'.version >= file.version]_vars

\* When nobody is saving, the file holds the state: the last writer's snapshot
\* covers every change made before, also those whose own save failed.
FileSettles ==
    (\A w \in Writers : pc[w] = "idle") /\ ~stale => file.state = mem
=============================================================================
