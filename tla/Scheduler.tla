----------------------------- MODULE Scheduler ------------------------------
(***************************************************************************)
(* The weekly scheduler (agent/weekly.go): per-weekday transitions with    *)
(* exceptions for dates, merged with a nightly sleep/wake window; a ticker *)
(* puts on the action of the transition that is due, once per transition.  *)
(*                                                                         *)
(* Time is a day and a slot of the day (a minute, in the code).  A time    *)
(* that parseHHMM refuses is BadTime, an empty action NoAction.  A         *)
(* schedule is what Set() and schedule.json hold: the flag, a sequence of  *)
(* entries per weekday, exceptions, the window.  save() writes the file as *)
(* PersistedState shows for state.json, which has the same code.           *)
(***************************************************************************)
EXTENDS Integers, Sequences, FiniteSets, SequencesExt, Ranking

CONSTANTS
    Week, Slots, Horizon,   \* weekdays, slots of a day, days that are run
    MaxEntries,             \* maxScheduleEntries
    Submissions,            \* the schedules that clients submit
    Files,                  \* what schedule.json may hold at first
    Legacy,                 \* the window display.json holds, or NoWindow
    Targets,                \* the actions that a transition may put on
    BadTime, NoAction, NoWindow

VARIABLES
    schedule,       \* enabled, days, exceptions, nightly (each sanitized)
    nightlyLoaded,
    lastKey,
    file,           \* schedule.json
    now,            \* [day, slot]
    firing,         \* the action tick() is about to fire, or NoAction
    seen            \* history: when tick() last looked at this schedule

vars == <<schedule, nightlyLoaded, lastKey, file, now, firing, seen>>

Sleep == "@sleep"
Wake  == "@wake"
NoKey == <<>>
Never == [day |-> -1, slot |-> 0]

Instants == [day : 0 .. Horizon - 1, slot : 0 .. Slots - 1]
before(s, t) == s.day < t.day \/ (s.day = t.day /\ s.slot < t.slot)

(* What is stored. *)

parses(at) == at # BadTime

\* A stable sort by time.
sortEntriesByTime(e) ==
    LET earlier == { p \in (DOMAIN e) \X (DOMAIN e) :
                         \/ e[p[1]].at < e[p[2]].at
                         \/ e[p[1]].at = e[p[2]].at /\ p[1] < p[2] }
        order == Arranged(DOMAIN e, earlier)
    IN [i \in DOMAIN e |-> e[order[i]]]

\* The entries with an action and a time.
usable(e) == Kept(e, {i \in DOMAIN e : e[i].action # NoAction /\ parses(e[i].at)})

\* Mutation: what is stored keeps the order of the request.
sanitizeEntriesUnsorted(e) == usable(e)

sanitizeEntries(e) ==
    sortEntriesByTime(IF Len(usable(e)) > MaxEntries
                      THEN SubSeq(usable(e), 1, MaxEntries) ELSE usable(e))

sanitizeExceptions(exs) ==
    LET ok == Kept(exs, {i \in DOMAIN exs : parses(exs[i].date)})
    IN [i \in DOMAIN ok |-> [ok[i] EXCEPT !.entries = sanitizeEntries(@)]]

sanitizeNightly(n) ==
    [n EXCEPT !.enabled = @ /\ parses(n.sleep) /\ parses(n.wake)
                            /\ n.sleep # n.wake]

sanitize(s) ==
    [enabled |-> s.enabled,
     days |-> [d \in DOMAIN s.days |-> sanitizeEntries(s.days[d])],
     exceptions |-> sanitizeExceptions(s.exceptions),
     nightly |-> sanitizeNightly(s.nightly)]

\* What Set() answers with 400.
refused(s) ==
    \/ \E d \in DOMAIN s.days : \E i \in DOMAIN s.days[d] :
           ~parses(s.days[d][i].at) \/ s.days[d][i].action = NoAction
    \/ \E i \in DOMAIN s.exceptions : ~parses(s.exceptions[i].date)
    \/ s.nightly.enabled /\ sanitizeNightly(s.nightly) # s.nightly

(* What is due. *)

\* The entries of a date: its first exception, or its weekday.
dayEntries(d) ==
    LET all == schedule.exceptions
        ex  == Kept(all, {i \in DOMAIN all : all[i].date = d})
    IN IF ex # <<>> THEN ex[1].entries ELSE schedule.days[d % Week]

window == IF schedule.nightly.enabled
          THEN <<[at |-> schedule.nightly.sleep, action |-> Sleep],
                 [at |-> schedule.nightly.wake, action |-> Wake]>>
          ELSE <<>>

\* Mutation: the window comes after the entries, and wins a tie.
effectiveEntriesNightly(d) ==
    sortEntriesByTime((IF schedule.enabled THEN dayEntries(d) ELSE <<>>) \o window)

effectiveEntries(d) ==
    sortEntriesByTime(window \o IF schedule.enabled THEN dayEntries(d) ELSE <<>>)

key(d, e) == <<d, e.at, e.action>>

\* Mutation: what carries over from yesterday is a transition of today.
desiredRekeyed(t) ==
    LET today     == effectiveEntries(t.day)
        yesterday == effectiveEntries(t.day - 1)
        due       == Kept(today, {i \in DOMAIN today : today[i].at <= t.slot})
    IN IF due # <<>> THEN key(t.day, Last(due))
       ELSE IF yesterday # <<>> THEN key(t.day, Last(yesterday))
       ELSE NoKey

desired(t) ==
    LET today     == effectiveEntries(t.day)
        yesterday == effectiveEntries(t.day - 1)
        due       == Kept(today, {i \in DOMAIN today : today[i].at <= t.slot})
    IN IF due # <<>> THEN key(t.day, Last(due))
       ELSE IF yesterday # <<>> THEN key(t.day - 1, Last(yesterday))
       ELSE NoKey

(* The operations. *)

\* load(), and MigrateNightly(), which main calls before Start().
started(f) ==
    LET s == sanitize(f.schedule)
        migrates == ~f.nightlyLoaded /\ Legacy # NoWindow
    IN [schedule |-> IF migrates
                     THEN [s EXCEPT !.nightly = sanitizeNightly(Legacy)] ELSE s,
        nightlyLoaded |-> f.nightlyLoaded \/ migrates,
        saves |-> migrates]

kept(f) == IF started(f).saves
           THEN [schedule |-> started(f).schedule, nightlyLoaded |-> TRUE] ELSE f

Start(f) ==
    LET s == started(f) IN
    /\ schedule' = s.schedule /\ nightlyLoaded' = s.nightlyLoaded
    /\ lastKey' = NoKey /\ firing' = NoAction /\ seen' = Never
    /\ file' = kept(f)

Init ==
    \E f \in Files :
        LET s == started(f) IN
        /\ schedule = s.schedule /\ nightlyLoaded = s.nightlyLoaded
        /\ lastKey = NoKey /\ firing = NoAction /\ seen = Never
        /\ file = kept(f)
        /\ now = [day |-> 1, slot |-> 0]

Restart == Start(file) /\ UNCHANGED now

Set(s) ==
    /\ ~refused(s)
    /\ schedule' = sanitize(s) /\ nightlyLoaded' = TRUE
    /\ lastKey' = NoKey /\ seen' = Never
    /\ file' = [schedule |-> schedule', nightlyLoaded |-> TRUE]
    /\ UNCHANGED <<now, firing>>

enforced == schedule.enabled \/ schedule.nightly.enabled

\* tick() up to the unlock.
Tick ==
    /\ firing = NoAction /\ enforced
    /\ seen' = now
    /\ LET k == desired(now) IN
       IF k = NoKey \/ k = lastKey THEN UNCHANGED <<lastKey, firing>>
       ELSE lastKey' = k /\ firing' = k[3]
    /\ UNCHANGED <<schedule, nightlyLoaded, file, now>>

\* The call of fire(), which may fail or be answered 409: nothing is kept.
Fire ==
    /\ firing # NoAction /\ firing' = NoAction
    /\ UNCHANGED <<schedule, nightlyLoaded, lastKey, file, now, seen>>

Advance ==
    /\ IF now.slot + 1 < Slots
       THEN now' = [now EXCEPT !.slot = @ + 1]
       ELSE /\ now.day + 1 < Horizon
            /\ now' = [day |-> now.day + 1, slot |-> 0]
    /\ UNCHANGED <<schedule, nightlyLoaded, lastKey, file, firing, seen>>

Next == Tick \/ Fire \/ Advance \/ Restart \/ \E s \in Submissions : Set(s)

Spec == Init /\ [][Next]_vars

-----------------------------------------------------------------------------
sorted(e) == \A i, j \in DOMAIN e : i < j => e[i].at <= e[j].at

\* Everything that is kept is sorted, parses and is within the cap.
TypeOK ==
    /\ now \in Instants /\ seen \in Instants \cup {Never}
    /\ nightlyLoaded \in BOOLEAN /\ schedule.enabled \in BOOLEAN
    /\ \A d \in 0 .. Week - 1 :
           /\ sorted(schedule.days[d]) /\ Len(schedule.days[d]) <= MaxEntries
           /\ \A i \in DOMAIN schedule.days[d] : parses(schedule.days[d][i].at)

\* The transitions of a day, as an operator reads the schedule: the window,
\* and the entries of the date.  Of two at the same time an explicit one
\* counts, and of those the one further down the list.
transitions(d) ==
    LET explicit == IF schedule.enabled THEN dayEntries(d) ELSE <<>>
    IN { [day |-> d, at |-> window[i].at, rank |-> 0, action |-> window[i].action] :
             i \in DOMAIN window }
       \cup { [day |-> d, at |-> explicit[i].at, rank |-> i,
               action |-> explicit[i].action] : i \in DOMAIN explicit }

later(x, y) ==
    \/ x.day > y.day
    \/ x.day = y.day /\ x.at > y.at
    \/ x.day = y.day /\ x.at = y.at /\ x.rank > y.rank

\* What is not in the future, of today and yesterday, and the latest of that.
past(t) == { x \in transitions(t.day) : x.at <= t.slot }
           \cup transitions(t.day - 1)

latest(t, k) ==
    IF past(t) = {} THEN k = NoKey
    ELSE \E x \in past(t) : /\ k = <<x.day, x.at, x.action>>
                            /\ \A y \in past(t) \ {x} : later(x, y)

\* desiredLocked() finds the latest transition of today and yesterday that is
\* not in the future: through midnight, exceptions, and a window that wraps.
DesiredIsLatest == latest(now, desired(now))

\* "A manual mode switch between transitions sticks until the next slot": a
\* tick fires only when some transition of the schedule falls between the last
\* time it looked and now, or it looks at this schedule for the first time.
\* Midnight, when the day's entries change and an old one carries over, is no
\* transition.
crossed(x, s, t) ==
    LET at == [day |-> x.day, slot |-> x.at] IN before(s, at) /\ ~before(t, at)

ManualSticks ==
    [][firing = NoAction /\ firing' # NoAction =>
           \/ seen = Never
           \/ \E d \in seen.day .. now.day : \E x \in transitions(d) :
                  crossed(x, seen, now)]_vars

\* display.json is migrated at most once: after Set() has returned, no restart
\* brings the legacy window back over what the operator chose.
LegacyStaysGone ==
    [][nightlyLoaded /\ schedule' # schedule =>
           \E s \in Submissions : schedule' = sanitize(s)]_vars
=============================================================================
