------------------------------ MODULE NodeProofs ------------------------------
(***************************************************************************)
(* The watchdog keeps to its ceiling of reboots, the display service       *)
(* remembers what it put to sleep, the setup page is never persisted, and  *)
(* every part keeps its types, for every number of rounds, restarts,       *)
(* outputs, callers, requests and modes.  All hold of every behaviour of   *)
(* Node, whichever part is in its focus: the steps of the other parts      *)
(* leave it alone.                                                         *)
(***************************************************************************)
EXTENDS Node, FiniteSetTheorems, SequenceTheorems, WellFoundedInduction, TLAPS

-----------------------------------------------------------------------------
(* The ceiling of reboots (watchdog.go) *)

\* The ledger holds every recent reboot that was asked for while the mode was
\* down, and at most MaxReboots recent ones.  In a round that found the mode
\* up there is none to hold, and until a round asks for one, none is of the
\* round: the ages differ.
CeilingInv ==
    /\ ledger \in W!Ages /\ undowned \in W!Ages
    /\ pc \in {"wait", "unwedge", "judge"}
    /\ W!inWindow(undowned) \subseteq ledger
    /\ Cardinality(W!inWindow(ledger)) <= MaxReboots
    /\ pc # "wait" /\ W!health(st) # "down" => undowned = {}
    /\ pc = "unwedge" \/ (pc = "judge" /\ W!health(st) = "down")
         => 0 \notin ledger \cup undowned

\* The watchdog counts as this module does.
LEMMA SameCardinality == ASSUME NEW S PROVE W!Cardinality(S) = Cardinality(S)
BY DEF W!Cardinality, Cardinality

\* Ages are finite in number.
LEMMA AgesFinite == ASSUME NEW L \in W!Ages PROVE IsFiniteSet(L)
<1>1. IsFiniteSet(0 .. RebootWindow + 1)
  BY PolicyAssumption, FS_Interval
<1> QED BY <1>1, FS_Subset DEF W!Ages

\* What is recent stays so when the ledger is pruned, and so does a new entry.
LEMMA Recent ==
  ASSUME NEW L \in W!Ages
  PROVE  /\ W!inWindow(L) \in W!Ages /\ W!inWindow(L) \subseteq 0 .. RebootWindow
         /\ W!inWindow(W!inWindow(L)) = W!inWindow(L)
         /\ W!inWindow(W!inWindow(L) \cup {0}) = W!inWindow(L) \cup {0}
<1>1. \A a \in L : a \in 0 .. RebootWindow + 1
  BY DEF W!Ages
<1>2. \A a : a \in W!inWindow(L) <=> a \in L /\ a <= RebootWindow
  BY DEF W!inWindow
<1>3. W!inWindow(L) \subseteq 0 .. RebootWindow
  BY <1>1, <1>2, PolicyAssumption
<1>4. \A a : a \in W!inWindow(W!inWindow(L)) <=> a \in W!inWindow(L) /\ a <= RebootWindow
  BY DEF W!inWindow
<1>5. \A a : a \in W!inWindow(W!inWindow(L) \cup {0})
              <=> a \in W!inWindow(L) \cup {0} /\ a <= RebootWindow
  BY DEF W!inWindow
<1>6. W!inWindow(L) \in W!Ages
  BY <1>3, PolicyAssumption DEF W!Ages
<1>7. W!inWindow(W!inWindow(L)) = W!inWindow(L)
  BY <1>2, <1>4
<1>8. W!inWindow(W!inWindow(L) \cup {0}) = W!inWindow(L) \cup {0}
  BY <1>2, <1>5, PolicyAssumption
<1> QED BY <1>3, <1>6, <1>7, <1>8

\* A round later every age is one more, and no reboot is recent that was not.
LEMMA Aging ==
  ASSUME NEW L \in W!Ages
  PROVE  /\ W!older(L) \in W!Ages
         /\ W!inWindow(W!older(L)) = {a + 1 : a \in {b \in L : b < RebootWindow}}
         /\ 0 \notin W!older(L)
         /\ Cardinality(W!inWindow(W!older(L))) <= Cardinality(W!inWindow(L))
<1> USE PolicyAssumption DEF W!Ages, W!older, W!inWindow
<1>1. W!older(L) \in W!Ages /\ 0 \notin W!older(L)
  OBVIOUS
<1>2. W!inWindow(W!older(L)) = {a + 1 : a \in {b \in L : b < RebootWindow}}
  OBVIOUS
<1> DEFINE S == W!inWindow(W!older(L))
           T == W!inWindow(L)
           f == [a \in S |-> a - 1]
<1>3. f \in Injection(S, T)
  <2>1. \A a \in S : a \in Nat /\ a - 1 \in T
    BY <1>2
  <2>2. f \in [S -> T]
    BY <2>1
  <2>3. \A a, b \in S : f[a] = f[b] => a = b
    BY <2>1
  <2> HIDE DEF S, T, f
  <2> QED BY <2>2, <2>3 DEF Injection, IsInjective
<1>4. IsFiniteSet(T)
  <2>1. T \in W!Ages
    OBVIOUS
  <2> QED BY <2>1, AgesFinite
<1>5. Cardinality(S) <= Cardinality(T)
  <2> HIDE DEF S, T, f
  <2> QED BY <1>3, <1>4, FS_Injection
<1> QED BY <1>1, <1>2, <1>5

\* A request for a reboot keeps the ledger complete and below the ceiling.
LEMMA RequestKeeps ==
  ASSUME CeilingInv, W!TryReboot, pc # "wait"
  PROVE  /\ ledger' \in W!Ages /\ undowned' \in W!Ages
         /\ W!inWindow(undowned') \subseteq ledger'
         /\ Cardinality(W!inWindow(ledger')) <= MaxReboots
         /\ W!health(st) # "down" => undowned' = {}
<1> USE PolicyAssumption DEF CeilingInv, W!Ages
<1> DEFINE T == W!inWindow(ledger)
<1>1. /\ T \in W!Ages /\ W!inWindow(T) = T /\ T \subseteq 0 .. RebootWindow
      /\ W!inWindow(T \cup {0}) = T \cup {0}
  BY Recent
<1>2. IsFiniteSet(T) /\ Cardinality(T) \in Nat
  BY <1>1, AgesFinite, FS_CardinalityType
<1>3. CASE W!allowReboot
  <2>1. /\ ledger' = T \cup {0}
        /\ undowned' = IF W!health(st) = "down" THEN undowned \cup {0} ELSE undowned
    BY <1>3 DEF W!TryReboot
  <2>2. W!inWindow(T \cup {0}) = T \cup {0}
    BY <1>1
  <2>3. Cardinality(T \cup {0}) <= MaxReboots
    <3>1. Cardinality(T) < MaxReboots
      BY <1>3, SameCardinality DEF W!allowReboot
    <3>2. Cardinality(T \cup {0}) <= Cardinality(T) + 1
      <4>1. Cardinality(T \cup {0}) =
               IF 0 \in T THEN Cardinality(T) ELSE Cardinality(T) + 1
        <5> HIDE DEF T
        <5> QED BY <1>2, FS_AddElement
      <4> HIDE DEF T
      <4> QED BY <1>2, <4>1
    <3>3. Cardinality(T \cup {0}) \in Nat
      <4> HIDE DEF T
      <4> QED BY <1>2, FS_AddElement, FS_CardinalityType
    <3> QED BY <1>2, <3>1, <3>2, <3>3
  <2>4. W!inWindow(undowned') \subseteq T \cup {0}
    BY <2>1 DEF W!inWindow
  <2>5. T \cup {0} \in W!Ages /\ undowned' \in W!Ages
    BY <1>1, <2>1
  <2>6. W!health(st) # "down" => undowned' = {}
    BY <2>1
  <2> HIDE DEF T, CeilingInv
  <2> QED BY <2>1, <2>2, <2>3, <2>4, <2>5, <2>6
<1>4. CASE ~W!allowReboot
  BY <1>1, <1>4 DEF W!TryReboot, W!inWindow
<1> QED BY <1>3, <1>4

\* Every round of the watchdog keeps it, and every reboot.
LEMMA CeilingStep == CeilingInv /\ [Next]_vars => CeilingInv'
<1> SUFFICES ASSUME CeilingInv, [Next]_vars PROVE CeilingInv'
  OBVIOUS
<1>1. CASE W!Disturb
  BY <1>1 DEF CeilingInv, W!Disturb, W!memory, W!hist, W!inWindow
<1>2. CASE W!Check
  <2>1. /\ pc' = "unwedge" /\ ledger' = W!older(ledger)
        /\ undowned' = IF W!health(st') # "down" THEN {}
                       ELSE W!inWindow(W!older(undowned))
    BY <1>2 DEF W!Check
  <2>2. ledger \in W!Ages /\ undowned \in W!Ages
    BY DEF CeilingInv
  <2>3. W!older(ledger) \in W!Ages /\ 0 \notin W!older(ledger)
    BY <2>2, Aging
  <2>4. undowned' \in W!Ages /\ 0 \notin undowned'
    BY <2>1, <2>2, Aging DEF W!Ages, W!inWindow
  <2>5. W!inWindow(undowned') \subseteq W!inWindow(W!older(ledger))
    <3>1. W!inWindow(undowned) \subseteq W!inWindow(ledger)
      BY DEF CeilingInv, W!inWindow
    <3>2. W!inWindow(W!older(undowned)) \subseteq W!inWindow(W!older(ledger))
      <4>1. \A b \in undowned : b < RebootWindow => b \in ledger
        BY <2>2, <3>1, PolicyAssumption DEF W!inWindow, W!Ages
      <4> QED BY <2>2, <4>1, Aging
    <3> QED BY <2>1, <3>2 DEF W!inWindow
  <2>6. Cardinality(W!inWindow(ledger')) <= MaxReboots
    <3>1. Cardinality(W!inWindow(W!older(ledger))) <= Cardinality(W!inWindow(ledger))
      BY <2>2, Aging
    <3>2. /\ Cardinality(W!inWindow(ledger)) \in Nat
          /\ Cardinality(W!inWindow(W!older(ledger))) \in Nat
      <4>1. W!inWindow(ledger) \in W!Ages /\ W!inWindow(W!older(ledger)) \in W!Ages
        BY <2>2, <2>3 DEF W!inWindow, W!Ages
      <4> QED BY <4>1, AgesFinite, FS_CardinalityType
    <3>3. Cardinality(W!inWindow(ledger)) <= MaxReboots
      BY DEF CeilingInv
    <3> QED BY <2>1, <3>1, <3>2, <3>3, PolicyAssumption
  <2> QED BY <2>1, <2>3, <2>4, <2>5, <2>6 DEF CeilingInv, W!inWindow
<1>3. CASE W!Unwedge
  <2>1. pc = "unwedge" /\ pc' = "judge" /\ st' = st
    BY <1>3 DEF W!Unwedge
  <2>2. CASE UNCHANGED <<ledger, undowned>>
    BY <2>1, <2>2 DEF CeilingInv, W!inWindow
  <2>3. CASE W!wedged /\ W!TryReboot
    <3>1. W!health(st) # "down"
      BY <2>3 DEF W!wedged, W!health
    <3>2. /\ ledger' \in W!Ages /\ undowned' \in W!Ages
          /\ W!inWindow(undowned') \subseteq ledger'
          /\ Cardinality(W!inWindow(ledger')) <= MaxReboots
          /\ undowned' = {}
      BY <2>1, <2>3, <3>1, RequestKeeps
    <3> QED BY <2>1, <3>1, <3>2 DEF CeilingInv, W!health
  <2> QED
    BY <1>3, <2>2, <2>3 DEF W!Unwedge, W!NotWedged, W!KeepWatching, W!Reattach,
       W!RestartKiosk
<1>4. CASE W!Judge
  <2>1. pc = "judge" /\ pc' = "wait" /\ st' = st
    BY <1>4 DEF W!Judge
  <2>2. CASE UNCHANGED <<ledger, undowned>>
    BY <2>1, <2>2 DEF CeilingInv, W!inWindow
  <2>3. CASE W!TryReboot
    BY <2>1, <2>3, RequestKeeps DEF CeilingInv
  <2>4. CASE W!ModeUp
    <3>1. ledger' = {} /\ undowned' = {}
      BY <2>1, <2>4 DEF W!ModeUp, CeilingInv
    <3>2. W!inWindow({}) = {}
      BY DEF W!inWindow
    <3> QED BY <2>1, <3>1, <3>2, FS_EmptySet, PolicyAssumption DEF CeilingInv, W!Ages
  <2> QED
    BY <1>4, <2>2, <2>3, <2>4 DEF W!Judge, W!ModeDown
<1>5. CASE W!Reboot
  BY <1>5 DEF CeilingInv, W!Reboot, W!inWindow
<1>6. CASE UNCHANGED wvars
  BY <1>6 DEF CeilingInv, wvars, W!inWindow
<1> QED
  BY <1>1, <1>2, <1>3, <1>4, <1>5, <1>6 DEF Next, W!Next, vars

\* However often the node reboots, a mode that every round finds down makes the
\* watchdog ask for at most MaxReboots reboots in any window (watchdog.go,
\* allowReboot; the ledger outlives the reboots).
THEOREM CeilingKept == Spec => []RebootCeiling
<1>1. Init => CeilingInv
  <2> SUFFICES ASSUME Init PROVE CeilingInv
    OBVIOUS
  <2>1. W!inWindow({}) = {}
    BY DEF W!inWindow
  <2> QED
    BY <2>1, FS_EmptySet, PolicyAssumption DEF Init, W!Init, CeilingInv, W!Ages
<1>2. CeilingInv => RebootCeiling
  <2> SUFFICES ASSUME CeilingInv PROVE Cardinality(W!inWindow(undowned)) <= MaxReboots
    BY SameCardinality DEF RebootCeiling, W!RebootCeiling
  <2> DEFINE U == W!inWindow(undowned)
             L == W!inWindow(ledger)
  <2>1. L \in W!Ages /\ U \in SUBSET L
    BY DEF CeilingInv, W!Ages, W!inWindow
  <2>2. Cardinality(L) <= MaxReboots
    BY DEF CeilingInv
  <2> HIDE DEF U, L
  <2>3. IsFiniteSet(L) /\ IsFiniteSet(U) /\ Cardinality(U) <= Cardinality(L)
    BY <2>1, AgesFinite, FS_Subset
  <2>4. Cardinality(L) \in Nat /\ Cardinality(U) \in Nat
    BY <2>3, FS_CardinalityType
  <2>5. Cardinality(U) <= MaxReboots
    BY <2>2, <2>3, <2>4, PolicyAssumption
  <2> QED BY <2>5 DEF U
<1> QED BY <1>1, <1>2, CeilingStep, PTL DEF Spec

-----------------------------------------------------------------------------
(* What sleeps is remembered (displaystate.go) *)

\* The calls of the display service and what they touch.
Typed ==
    /\ call = [c \in Callers |-> call[c]]
    /\ \A c \in Callers : DOMAIN call[c] = DOMAIN D!Idle /\ call[c].on \in BOOLEAN
    /\ lit = [b \in {"x", "wayland"} |-> lit[b]]
    /\ powered \in [Outputs -> {"screen", "other"}]

Powered(c) == call[c].at \in {"rotate", "record"}

\* Only the holder of screenMu powers an output and records it.  Between the
\* two the output is as the call asked, unless something else powered it, and
\* every other output that Screen powered last is as recorded.
SleepInv ==
    /\ Typed
    /\ \A c \in Callers : call[c].at = "power" \/ Powered(c) => screenMu = c
    /\ \A c \in Callers, o \in Outputs :
           Powered(c) /\ call[c].target = o /\ powered[o] = "screen"
               => (call[c].on <=> o \in lit["x"])
    /\ \A o \in Outputs :
           powered[o] = "screen" =>
               \/ o \in asleeps <=> o \notin lit["x"]
               \/ \E c \in Callers : Powered(c) /\ call[c].target = o

\* A caller is not "".
LEMMA CallersNamed == Unnamed \notin Callers
BY OutputAssumption

\* A caller that goes from one place to another, neither of them between the
\* powering and the recording, with the screens and the record left alone.
LEMMA Elsewhere ==
  ASSUME SleepInv, NEW c \in Callers, NEW local,
         call' = [call EXCEPT ![c] = local],
         DOMAIN local = DOMAIN D!Idle, local.on \in BOOLEAN,
         ~Powered(c), local.at \notin {"rotate", "record"},
         call[c].at = "power" => local.at # "power",
         local.at = "power" => screenMu = Unnamed /\ screenMu' = c,
         local.at # "power" => screenMu' = (IF call[c].at = "power" THEN Unnamed ELSE screenMu),
         UNCHANGED asleeps,
         lit' = [b \in {"x", "wayland"} |-> lit'[b]],
         powered' \in [Outputs -> {"screen", "other"}],
         \A o \in Outputs : powered'[o] = "screen" =>
             powered[o] = "screen" /\ (o \in lit'["x"] <=> o \in lit["x"])
  PROVE  SleepInv'
<1>1. \A d \in Callers : call'[d] = IF d = c THEN local ELSE call[d]
  BY DEF SleepInv, Typed
<1>2. Typed'
  BY <1>1 DEF SleepInv, Typed, D!Idle
<1>3. \A d \in Callers : Powered(d)' <=> Powered(d)
  BY <1>1 DEF Powered
<1>4. ASSUME NEW d \in Callers, call'[d].at = "power" \/ Powered(d)' PROVE screenMu' = d
  <2>1. CASE d = c
    BY <1>1, <1>3, <1>4, <2>1
  <2>2. CASE d # c
    <3>1. screenMu = d
      BY <1>1, <1>3, <1>4, <2>2 DEF SleepInv
    <3> QED BY <2>2, <3>1, CallersNamed DEF SleepInv
  <2> QED BY <2>1, <2>2
<1>5. ASSUME NEW d \in Callers, NEW o \in Outputs,
             Powered(d)', call'[d].target = o, powered'[o] = "screen"
      PROVE  call'[d].on <=> o \in lit'["x"]
  <2>1. Powered(d) /\ call'[d] = call[d] /\ powered[o] = "screen"
    BY <1>1, <1>3, <1>5
  <2> QED BY <1>5, <2>1 DEF SleepInv
<1>6. ASSUME NEW o \in Outputs, powered'[o] = "screen"
      PROVE  \/ o \in asleeps' <=> o \notin lit'["x"]
             \/ \E d \in Callers : Powered(d)' /\ call'[d].target = o
  <2>1. powered[o] = "screen" /\ (o \in lit'["x"] <=> o \in lit["x"])
    BY <1>6
  <2>2. CASE o \in asleeps <=> o \notin lit["x"]
    BY <2>1, <2>2
  <2>3. ASSUME NEW d \in Callers, Powered(d), call[d].target = o
        PROVE  Powered(d)' /\ call'[d].target = o
    BY <1>1, <1>3, <2>3
  <2> QED BY <2>1, <2>2, <2>3 DEF SleepInv
<1> QED BY <1>2, <1>4, <1>5, <1>6 DEF SleepInv

\* Where a caller is changed, and the rest of the call kept.
LEMMA Moves ==
  ASSUME Typed, NEW c \in Callers, NEW label
  PROVE  LET local == [call[c] EXCEPT !.at = label] IN
         /\ [call EXCEPT ![c].at = label] = [call EXCEPT ![c] = local]
         /\ DOMAIN local = DOMAIN D!Idle /\ local.at = label
         /\ local.on = call[c].on /\ local.target = call[c].target
BY DEF Typed, D!Idle

\* Screen powers the X output it was asked for.
LEMMA PowersOutput ==
  ASSUME SleepInv, NEW c \in Callers, D!setOutputNamed(c) PROVE SleepInv'
<1> DEFINE local == [call[c] EXCEPT !.at = IF call[c].on THEN "rotate" ELSE "record"]
           t == call[c].target
           o == IF t = Unnamed THEN First ELSE t
<1>1. /\ call[c].at = "power" /\ screenMu = c
      /\ lit' = [lit EXCEPT !["x"] = IF call[c].on THEN @ \cup {o} ELSE @ \ {o}]
      /\ powered' = [powered EXCEPT ![o] = IF t = o THEN "screen" ELSE "other"]
      /\ call' = [call EXCEPT ![c] = local]
      /\ UNCHANGED <<asleeps, screenMu>>
  BY Moves DEF D!setOutputNamed, D!Goto, D!fields, SleepInv
<1>2. /\ DOMAIN local = DOMAIN D!Idle /\ local.at \in {"rotate", "record"}
      /\ local.on = call[c].on /\ local.target = t
  BY Moves DEF SleepInv
<1> HIDE DEF local
<1>3. \A d \in Callers : call'[d] = IF d = c THEN local ELSE call[d]
  BY <1>1 DEF SleepInv, Typed
<1>4. \A d \in Callers : d # c => ~Powered(d) /\ ~Powered(d)' /\ call[d].at # "power"
  BY <1>1, <1>3 DEF SleepInv, Powered
<1>5. Powered(c)'
  BY <1>2, <1>3 DEF Powered
<1>6. Typed'
  <2>1. lit' = [b \in {"x", "wayland"} |-> lit'[b]]
    BY <1>1 DEF SleepInv, Typed
  <2>2. powered' \in [Outputs -> {"screen", "other"}]
    BY <1>1 DEF SleepInv, Typed
  <2>3. call' = [d \in Callers |-> call'[d]]
    BY <1>1 DEF SleepInv, Typed
  <2>4. \A d \in Callers : DOMAIN call'[d] = DOMAIN D!Idle /\ call'[d].on \in BOOLEAN
    BY <1>2, <1>3 DEF SleepInv, Typed
  <2>5. DOMAIN D!Idle' = DOMAIN D!Idle
    BY DEF D!Idle, D!Defaults, D!Saved
  <2> QED BY <2>1, <2>2, <2>3, <2>4, <2>5 DEF Typed
<1>7. \A p \in Outputs : p # t => (powered'[p] = "screen" => powered[p] = "screen" /\ p # o)
  BY <1>1 DEF SleepInv, Typed
<1>8. \A p \in Outputs : p # o => (p \in lit'["x"] <=> p \in lit["x"])
  BY <1>1 DEF SleepInv, Typed
<1>9. t \in Outputs /\ t = o => (call[c].on <=> t \in lit'["x"])
  BY <1>1 DEF SleepInv, Typed
<1>10. ASSUME NEW p \in Outputs, powered'[p] = "screen", p # t
       PROVE  p \in asleeps' <=> p \notin lit'["x"]
  <2>1. powered[p] = "screen" /\ p # o
    BY <1>7, <1>10
  <2>2. \A d \in Callers : ~Powered(d)
    BY <1>1, <1>4 DEF Powered
  <2> QED BY <1>1, <1>8, <2>1, <2>2 DEF SleepInv
<1>11. ASSUME NEW p \in Outputs, powered'[p] = "screen", p = t PROVE p = o
  BY <1>11, OutputAssumption
<1> HIDE DEF t, o
<1>12. \A d \in Callers : call'[d].at = "power" \/ Powered(d)' => screenMu' = d
  BY <1>1, <1>2, <1>3, <1>4
<1>13. \A d \in Callers, p \in Outputs :
          Powered(d)' /\ call'[d].target = p /\ powered'[p] = "screen"
              => (call'[d].on <=> p \in lit'["x"])
  BY <1>2, <1>3, <1>4, <1>9, <1>11
<1>14. \A p \in Outputs : powered'[p] = "screen" =>
          \/ p \in asleeps' <=> p \notin lit'["x"]
          \/ \E d \in Callers : Powered(d)' /\ call'[d].target = p
  BY <1>2, <1>3, <1>5, <1>10
<1> QED BY <1>6, <1>12, <1>13, <1>14 DEF SleepInv

\* Screen goes on to the recording: to put the rotation back, or at once when
\* the compositor powered the outputs.
LEMMA GoesToRecord ==
  ASSUME SleepInv, NEW c \in Callers, call[c].at \in {"power", "rotate"},
         call' = [call EXCEPT ![c].at = "record"],
         UNCHANGED <<asleeps, screenMu>>, lit'["x"] = lit["x"],
         lit' = [b \in {"x", "wayland"} |-> lit'[b]],
         powered' = IF call[c].at = "rotate" THEN powered
             ELSE [o \in Outputs |-> IF o = call[c].target THEN "other" ELSE powered[o]]
  PROVE  SleepInv'
<1> DEFINE local == [call[c] EXCEPT !.at = "record"]
<1>1. /\ call' = [call EXCEPT ![c] = local]
      /\ DOMAIN local = DOMAIN D!Idle /\ local.at = "record"
      /\ local.on = call[c].on /\ local.target = call[c].target
  BY Moves DEF SleepInv
<1> HIDE DEF local
<1>2. \A d \in Callers : call'[d] = IF d = c THEN local ELSE call[d]
  BY <1>1 DEF SleepInv, Typed
<1>3. screenMu = c
  BY DEF SleepInv, Powered
<1>4. \A d \in Callers : d # c => ~Powered(d) /\ ~Powered(d)' /\ call[d].at # "power"
  BY <1>2, <1>3 DEF SleepInv, Powered
<1>5. Powered(c)'
  BY <1>1, <1>2 DEF Powered
<1>6. powered' \in [Outputs -> {"screen", "other"}]
  BY DEF SleepInv, Typed
<1>7. \A o \in Outputs : powered'[o] = "screen" => powered[o] = "screen"
  BY DEF SleepInv, Typed
<1>8. \A o \in Outputs : powered'[o] = "screen" /\ o = call[c].target => Powered(c)
  BY DEF SleepInv, Typed, Powered
<1>9. Typed'
  <2>1. DOMAIN D!Idle' = DOMAIN D!Idle
    BY DEF D!Idle, D!Defaults, D!Saved
  <2>2. call' = [d \in Callers |-> call'[d]]
    BY <1>1 DEF SleepInv, Typed
  <2>3. \A d \in Callers : DOMAIN call'[d] = DOMAIN D!Idle /\ call'[d].on \in BOOLEAN
    BY <1>1, <1>2 DEF SleepInv, Typed
  <2> QED BY <1>6, <2>1, <2>2, <2>3 DEF Typed
<1>10. \A d \in Callers, o \in Outputs :
          Powered(d)' /\ call'[d].target = o /\ powered'[o] = "screen"
              => (call'[d].on <=> o \in lit'["x"])
  <2>1. \A o \in Outputs : call[c].target = o /\ powered'[o] = "screen"
           => (call[c].on <=> o \in lit["x"])
    BY <1>7, <1>8 DEF SleepInv
  <2> QED BY <1>1, <1>2, <1>4, <2>1
<1>11. ASSUME NEW o \in Outputs, powered'[o] = "screen"
       PROVE  \/ o \in asleeps' <=> o \notin lit'["x"]
              \/ \E d \in Callers : Powered(d)' /\ call'[d].target = o
  <2>1. powered[o] = "screen"
    BY <1>7, <1>11
  <2>2. CASE o \in asleeps <=> o \notin lit["x"]
    BY <2>2
  <2>3. ASSUME NEW d \in Callers, Powered(d), call[d].target = o
        PROVE  Powered(c)' /\ call'[c].target = o
    BY <1>1, <1>2, <1>4, <1>5, <2>3
  <2> QED BY <2>1, <2>2, <2>3 DEF SleepInv
<1>12. \A d \in Callers : call'[d].at = "power" \/ Powered(d)' => screenMu' = d
  BY <1>2, <1>3, <1>4
<1> QED BY <1>9, <1>10, <1>11, <1>12 DEF SleepInv

\* Screen records what it did: the output that waited for it is remembered.
LEMMA Records ==
  ASSUME SleepInv, NEW c \in Callers, D!ScreenRecord(c) PROVE SleepInv'
<1>1. /\ call[c].at = "record" /\ screenMu = c /\ screenMu' = Unnamed
      /\ asleeps' = IF call[c].on THEN asleeps \ {call[c].target}
                    ELSE asleeps \cup {call[c].target}
      /\ call' = [call EXCEPT ![c] = D!Idle]
      /\ UNCHANGED <<lit, powered>>
  BY DEF D!ScreenRecord, D!Return, D!hardware, SleepInv, Powered
<1>2. \A d \in Callers : call'[d] = IF d = c THEN D!Idle ELSE call[d]
  BY <1>1 DEF SleepInv, Typed
<1>3. D!Idle.at = "idle" /\ D!Idle.on \in BOOLEAN /\ DOMAIN D!Idle' = DOMAIN D!Idle
  BY DEF D!Idle, D!Defaults, D!Saved
<1>4. \A d \in Callers : d # c => ~Powered(d) /\ call[d].at # "power"
  BY <1>1 DEF SleepInv
<1>5. \A d \in Callers : ~Powered(d)' /\ call'[d].at # "power"
  BY <1>2, <1>3, <1>4 DEF Powered
<1>6. Typed'
  BY <1>1, <1>2, <1>3 DEF SleepInv, Typed
<1>7. ASSUME NEW o \in Outputs, powered'[o] = "screen"
      PROVE  o \in asleeps' <=> o \notin lit'["x"]
  <2>1. CASE o = call[c].target
    <3>1. call[c].on <=> o \in lit["x"]
      BY <1>1, <1>7, <2>1 DEF SleepInv, Powered
    <3> QED BY <1>1, <2>1, <3>1
  <2>2. CASE o # call[c].target
    <3>1. o \in asleeps <=> o \notin lit["x"]
      BY <1>1, <1>4, <1>7, <2>2 DEF SleepInv
    <3> QED BY <1>1, <2>2, <3>1
  <2> QED BY <2>1, <2>2
<1> QED BY <1>5, <1>6, <1>7 DEF SleepInv

\* Every call, command and restart keeps it.
LEMMA SleepStep == SleepInv /\ [Next]_vars => SleepInv'
<1> SUFFICES ASSUME SleepInv, [Next]_vars PROVE SleepInv'
  OBVIOUS
<1> DEFINE Local(l) == DOMAIN l = DOMAIN D!Idle /\ l.on \in BOOLEAN
<1>1. Typed
  BY DEF SleepInv
<1>2. D!Idle.at = "idle" /\ Local(D!Idle) /\ DOMAIN D!Idle' = DOMAIN D!Idle
  BY DEF D!Idle, D!Defaults, D!Saved
<1>3. ASSUME NEW c \in Callers, D!Screen(c) PROVE SleepInv'
  <2>1. ASSUME NEW o \in D!Names, NEW on \in BOOLEAN, NEW answers \in BOOLEAN,
               D!ScreenEnter(c, o, on, answers)
        PROVE  SleepInv'
    <3>1. PICK t, w : call' = [call EXCEPT ![c] =
             [D!Idle EXCEPT !.at = "power", !.target = t, !.on = on, !.wayland = w]]
      BY <2>1 DEF D!ScreenEnter, D!Begin
    <3> DEFINE local ==
             [D!Idle EXCEPT !.at = "power", !.target = t, !.on = on, !.wayland = w]
    <3>2. Local(local) /\ local.at = "power"
      BY DEF D!Idle
    <3>3. /\ call[c].at = "idle" /\ screenMu = Unnamed /\ screenMu' = c
          /\ UNCHANGED <<asleeps, lit, powered>>
      BY <2>1 DEF D!ScreenEnter, D!Begin, D!hardware
    <3> HIDE DEF local
    <3> QED BY <1>1, <3>1, <3>2, <3>3, Elsewhere DEF Typed, Powered, local
  <2>2. CASE D!setOutputNamed(c)
    BY <2>2, PowersOutput
  <2>3. ASSUME NEW done \in SUBSET Outputs, D!setWaylandOutput(c, done)
        PROVE  SleepInv'
    <3>1. /\ call[c].at = "power" /\ UNCHANGED asleeps
          /\ powered' = [o \in Outputs |-> IF o = call[c].target THEN "other"
                                           ELSE powered[o]]
          /\ lit' = [lit EXCEPT !["wayland"] =
                        IF call[c].on THEN @ \cup done ELSE @ \ done]
      BY <2>3 DEF D!setWaylandOutput, D!fields
    <3>2. /\ lit' = [b \in {"x", "wayland"} |-> lit'[b]] /\ lit'["x"] = lit["x"]
          /\ powered' \in [Outputs -> {"screen", "other"}]
          /\ \A o \in Outputs : powered'[o] = "screen" => powered[o] = "screen"
      BY <1>1, <3>1 DEF Typed
    <3>3. CASE call' = [call EXCEPT ![c].at = "record"] /\ UNCHANGED screenMu
      BY <3>1, <3>2, <3>3, GoesToRecord
    <3>4. CASE call' = [call EXCEPT ![c] = D!Idle] /\ screenMu' = Unnamed
      BY <1>2, <3>1, <3>2, <3>4, Elsewhere DEF Powered
    <3> QED BY <2>3, <3>3, <3>4 DEF D!setWaylandOutput, D!Goto, D!Return
  <2>4. CASE D!ScreenFails(c)
    <3>1. /\ call[c].at = "power" /\ call' = [call EXCEPT ![c] = D!Idle]
          /\ screenMu' = Unnamed /\ UNCHANGED <<asleeps, lit, powered>>
      BY <2>4 DEF D!ScreenFails, D!Return, D!hardware, D!fields
    <3> QED BY <1>1, <1>2, <3>1, Elsewhere DEF Powered, Typed
  <2>5. ASSUME NEW works \in BOOLEAN, D!ScreenRotate(c, works) PROVE SleepInv'
    <3>1. /\ call[c].at = "rotate" /\ call' = [call EXCEPT ![c].at = "record"]
          /\ UNCHANGED <<asleeps, lit, powered, screenMu>>
      BY <2>5 DEF D!ScreenRotate, D!Goto, D!fields
    <3> QED BY <1>1, <3>1, GoesToRecord DEF Typed
  <2>6. CASE D!ScreenRecord(c)
    BY <2>6, Records
  <2> QED BY <1>3, <2>1, <2>2, <2>3, <2>4, <2>5, <2>6 DEF D!Screen
<1>4. ASSUME NEW c \in Callers, D!Arrange(c) PROVE SleepInv'
  <2>1. ASSUME NEW local, call' = [call EXCEPT ![c] = local], Local(local),
               call[c].at \notin {"power", "rotate", "record"},
               local.at \notin {"power", "rotate", "record"},
               UNCHANGED <<asleeps, lit, powered, screenMu>>
        PROVE  SleepInv'
    BY <1>1, <2>1, Elsewhere DEF Powered, Typed
  <2>2. ASSUME NEW copy, call' = [call EXCEPT ![c] =
                                    [D!Idle EXCEPT !.at = "save", !.copy = copy]],
               call[c].at \notin {"power", "rotate", "record"},
               UNCHANGED <<asleeps, lit, powered, screenMu>>
        PROVE  SleepInv'
    <3> DEFINE local == [D!Idle EXCEPT !.at = "save", !.copy = copy]
    <3>1. Local(local) /\ local.at = "save"
      BY DEF D!Idle
    <3> HIDE DEF local
    <3> QED BY <2>1, <2>2, <3>1 DEF local
  <2>3. ASSUME NEW o \in D!Names, NEW deg, NEW answers \in BOOLEAN,
               D!RotateApply(c, o, deg, answers)
        PROVE  SleepInv'
    <3>1. PICK t : call' = [call EXCEPT ![c] =
             [D!Idle EXCEPT !.at = "rotated", !.target = t, !.deg = deg]]
      BY <2>3 DEF D!RotateApply, D!Begin
    <3> DEFINE local == [D!Idle EXCEPT !.at = "rotated", !.target = t, !.deg = deg]
    <3>2. Local(local) /\ local.at = "rotated"
      BY DEF D!Idle
    <3>3. call[c].at = "idle" /\ UNCHANGED <<asleeps, lit, powered, screenMu>>
      BY <2>3 DEF D!RotateApply, D!Begin
    <3> HIDE DEF local
    <3> QED BY <2>1, <3>1, <3>2, <3>3 DEF local
  <2>4. CASE D!RotateRecord(c)
    BY <2>2, <2>4 DEF D!RotateRecord, D!save, D!hardware
  <2>5. ASSUME NEW factor, D!Zoom(c, factor) PROVE SleepInv'
    BY <2>2, <2>5 DEF D!Zoom, D!save, D!hardware
  <2>6. ASSUME NEW mode, NEW p \in Outputs, D!SetLayout(c, mode, p) PROVE SleepInv'
    <3> DEFINE local == [D!Idle EXCEPT !.at = "arranged", !.target = p, !.mode = mode]
    <3>1. Local(local) /\ local.at = "arranged"
      BY DEF D!Idle
    <3>2. /\ call[c].at = "idle" /\ call' = [call EXCEPT ![c] = local]
          /\ powered' = [o \in Outputs |-> "other"]
          /\ lit' = [lit EXCEPT !["x"] = IF mode = "single" THEN {p} ELSE Outputs]
          /\ UNCHANGED <<asleeps, screenMu>>
      BY <2>6 DEF D!SetLayout, D!Begin, D!fields
    <3> HIDE DEF local
    <3>3. /\ lit' = [b \in {"x", "wayland"} |-> lit'[b]]
          /\ powered' \in [Outputs -> {"screen", "other"}]
          /\ \A o \in Outputs : powered'[o] # "screen"
      BY <1>1, <3>2 DEF Typed
    <3> QED BY <3>1, <3>2, <3>3, Elsewhere DEF Powered
  <2>7. ASSUME NEW mode, NEW p \in Outputs, NEW off,
               D!SetLayoutFails(c, mode, p, off)
        PROVE  SleepInv'
    <3>1. /\ powered' = [o \in Outputs |-> "other"]
          /\ lit' = [lit EXCEPT !["x"] = (@ \cup {p}) \ (IF mode = "single" THEN off ELSE {})]
          /\ UNCHANGED <<asleeps, screenMu, call>>
      BY <2>7 DEF D!SetLayoutFails, D!fields
    <3>2. Typed' /\ \A o \in Outputs : powered'[o] # "screen"
      BY <1>1, <1>2, <3>1 DEF Typed
    <3> QED BY <3>1, <3>2 DEF SleepInv, Powered
  <2>8. CASE D!SetLayoutRecord(c)
    BY <2>2, <2>8 DEF D!SetLayoutRecord, D!save
  <2>9. CASE D!SaveWrite(c)
    <3>1. /\ call[c].at = "save" /\ call' = [call EXCEPT ![c] = D!Idle]
          /\ UNCHANGED <<asleeps, lit, powered, screenMu>>
      BY <2>9 DEF D!SaveWrite, D!Return, D!hardware, D!fields
    <3> QED BY <1>2, <2>1, <3>1
  <2> QED
    BY <1>4, <2>3, <2>4, <2>5, <2>6, <2>7, <2>8, <2>9 DEF D!Arrange
<1>5. ASSUME UNCHANGED <<asleeps, call, screenMu, powered>>, lit'["x"] = lit["x"],
             lit' = [b \in {"x", "wayland"} |-> lit'[b]]
      PROVE  SleepInv'
  BY <1>1, <1>2, <1>5 DEF SleepInv, Typed, Powered
<1>6. CASE D!applyWaylandDisabledOutputs
  BY <1>1, <1>5, <1>6 DEF D!applyWaylandDisabledOutputs, D!fields, Typed
<1>7. ASSUME NEW b, D!SwitchBackend(b) PROVE SleepInv'
  BY <1>1, <1>5, <1>7 DEF D!SwitchBackend, D!fields, Typed
<1>8. ASSUME NEW torn \in BOOLEAN, D!Restart(torn) PROVE SleepInv'
  <2>1. /\ call' = [c \in Callers |-> D!Idle] /\ powered' = [o \in Outputs |-> "other"]
        /\ \E on : lit' = [lit EXCEPT !["x"] = on]
    BY <1>8 DEF D!Restart
  <2>2. \A c \in Callers : call'[c] = D!Idle
    BY <2>1
  <2>3. Typed' /\ \A o \in Outputs : powered'[o] # "screen"
    BY <1>1, <1>2, <2>1, <2>2 DEF Typed
  <2> QED BY <1>2, <2>2, <2>3 DEF SleepInv, Powered
<1>9. CASE UNCHANGED dvars
  BY <1>1, <1>5, <1>9 DEF dvars, Typed
<1> QED BY <1>3, <1>4, <1>6, <1>7, <1>8, <1>9 DEF Next, D!Next, vars

\* Whichever calls race, an X output that Screen powered last is recorded asleep
\* exactly when it is dark, whenever no call holds screenMu (displaystate.go,
\* Screen).
THEOREM SleepKept == Spec => []SleepIsRemembered
<1>1. Init => SleepInv
  <2> SUFFICES ASSUME Init PROVE SleepInv
    OBVIOUS
  <2>1. /\ call = [c \in Callers |-> D!Idle] /\ powered = [o \in Outputs |-> "other"]
        /\ lit = [b \in {"x", "wayland"} |-> Outputs]
    BY DEF Init, D!Init
  <2>2. \A c \in Callers : call[c] = D!Idle
    BY <2>1
  <2>3. D!Idle.at = "idle" /\ D!Idle.on \in BOOLEAN
    BY DEF D!Idle
  <2> QED BY <2>1, <2>2, <2>3 DEF SleepInv, Typed, Powered
<1>2. SleepInv => SleepIsRemembered
  <2> SUFFICES ASSUME SleepInv, screenMu = Unnamed, NEW o \in Outputs,
                      powered[o] = "screen"
               PROVE  o \in asleeps <=> o \notin lit["x"]
    BY DEF SleepIsRemembered, D!SleepIsRemembered
  <2>1. \A c \in Callers : ~Powered(c)
    BY CallersNamed DEF SleepInv
  <2> QED BY <2>1 DEF SleepInv
<1> QED BY <1>1, <1>2, SleepStep, PTL DEF Spec

-----------------------------------------------------------------------------
(* The setup page is not persisted (server.go, state.go, miracast.go) *)

\* Taking a mode out of a history leaves the others, each once.
LEMMA WithoutOne ==
  ASSUME NEW S, NEW past \in Seq(S), P!IsInjective(past), NEW m
  PROVE  /\ P!Without(past, m) \in Seq(S)
         /\ P!IsInjective(P!Without(past, m))
         /\ \A i \in DOMAIN P!Without(past, m) : P!Without(past, m)[i] # m
<1> USE DEF P!IsInjective
<1>1. CASE \A i \in DOMAIN past : past[i] # m
  BY <1>1 DEF P!Without
<1>2. CASE \E i \in DOMAIN past : past[i] = m
  <2> DEFINE i == CHOOSE j \in DOMAIN past : past[j] = m
             n == Len(past)
             rest == SubSeq(past, 1, i - 1) \o SubSeq(past, i + 1, n)
  <2>1. i \in DOMAIN past /\ past[i] = m
    BY <1>2
  <2>2. P!Without(past, m) = rest
    BY <1>2 DEF P!Without
  <2> HIDE DEF i
  <2>3. n \in Nat /\ DOMAIN past = 1 .. n /\ i \in 1 .. n
    BY <2>1
  <2> DEFINE a == SubSeq(past, 1, i - 1)
             b == SubSeq(past, i + 1, n)
  <2>4. \A j \in 1 .. n : past[j] \in S
    BY <2>3
  <2>5. a \in Seq(S) /\ Len(a) = i - 1 /\ \A j \in 1 .. i - 1 : a[j] = past[j]
    <3>1. \A j \in 1 .. i - 1 : past[j] \in S
      BY <2>3, <2>4
    <3> QED BY <2>3, <3>1, SubSeqProperties
  <2>6. b \in Seq(S) /\ Len(b) = n - i /\ \A j \in 1 .. n - i : b[j] = past[i + j]
    <3>1. \A j \in i + 1 .. n : past[j] \in S
      BY <2>3, <2>4
    <3>2. /\ b \in Seq(S) /\ Len(b) = IF i + 1 <= n THEN n - (i + 1) + 1 ELSE 0
          /\ \A j \in 1 .. n - (i + 1) + 1 : b[j] = past[(i + 1) + j - 1]
      BY <2>3, <3>1, SubSeqProperties
    <3> HIDE DEF b, n
    <3>3. /\ n - (i + 1) + 1 = n - i /\ (i + 1 > n => n - i = 0)
          /\ \A j \in 1 .. n - i : (i + 1) + j - 1 = i + j
      BY <2>3
    <3> QED BY <2>3, <3>2, <3>3
  <2> HIDE DEF a, b, n
  <2>7. /\ a \o b \in Seq(S) /\ Len(a \o b) = n - 1
        /\ \A j \in 1 .. n - 1 : (a \o b)[j] = past[IF j < i THEN j ELSE j + 1]
    <3>1. /\ a \o b \in Seq(S) /\ Len(a \o b) = Len(a) + Len(b)
          /\ \A j \in 1 .. Len(a) + Len(b) :
                 (a \o b)[j] = IF j <= Len(a) THEN a[j] ELSE b[j - Len(a)]
      BY <2>5, <2>6, ConcatProperties
    <3>2. ASSUME NEW j \in 1 .. n - 1
          PROVE  (a \o b)[j] = past[IF j < i THEN j ELSE j + 1]
      <4>1. CASE j < i
        BY <2>3, <2>5, <2>6, <3>1, <4>1
      <4>2. CASE ~(j < i)
        <5> DEFINE k == j - (i - 1)
        <5>1. k \in 1 .. n - i /\ i + k = j + 1
          BY <2>3, <4>2
        <5>2. (a \o b)[j] = b[k]
          BY <2>3, <2>5, <2>6, <3>1, <4>2
        <5> HIDE DEF k
        <5>3. b[k] = past[i + k]
          BY <2>6, <5>1
        <5>4. (IF j < i THEN j ELSE j + 1) = i + k
          BY <2>3, <4>2, <5>1
        <5> QED BY <5>2, <5>3, <5>4
      <4> QED BY <4>1, <4>2
    <3>3. Len(a \o b) = n - 1
      BY <2>3, <2>5, <2>6, <3>1
    <3> QED BY <3>1, <3>2, <3>3
  <2>8. rest = a \o b
    BY DEF a, b
  <2> HIDE DEF rest
  <2>9. DOMAIN rest = 1 .. n - 1
    BY <2>7, <2>8, LenProperties
  <2>10. \A j \in 1 .. n - 1 : rest[j] = past[IF j < i THEN j ELSE j + 1]
    BY <2>7, <2>8
  <2>11. \A j, k \in 1 .. n - 1 : rest[j] = rest[k] => j = k
    BY <2>3, <2>10
  <2>12. \A j \in 1 .. n - 1 : rest[j] # m
    BY <2>1, <2>3, <2>10
  <2> QED BY <2>2, <2>7, <2>8, <2>9, <2>11, <2>12
<1> QED BY <1>1, <1>2

\* A set of positions that is not empty has a least one.
LEMMA LeastIndex ==
  ASSUME NEW S, NEW past \in Seq(S), NEW T, T \subseteq DOMAIN past, T # {}
  PROVE  \E i \in T : \A j \in T : i <= j
<1> DEFINE R == {p \in Nat \X Nat : p[1] < p[2]}
<1>1. IsWellFoundedOn(R, Nat)
  BY NatLessThanWellFounded DEF OpToRel
<1>2. T \subseteq Nat
  BY LenProperties
<1>3. \E i \in T : \A j \in T : <<j, i>> \notin R
  <2> HIDE DEF R
  <2> QED BY <1>1, <1>2, WFMin
<1>4. \A i, j \in Nat : <<j, i>> \in R <=> j < i
  OBVIOUS
<1> HIDE DEF R
<1>5. PICK i \in T : \A j \in T : <<j, i>> \notin R
  BY <1>3
<1>6. \A j \in T : ~(j < i) /\ j \in Nat
  BY <1>2, <1>4, <1>5
<1>7. i \in Nat
  BY <1>2
<1> QED BY <1>6, <1>7

\* What was shown last goes to the front.
LEMMA PutFirst ==
  ASSUME NEW S, NEW past \in Seq(S), P!IsInjective(past), NEW m \in S
  PROVE  LET h == <<m>> \o P!Without(past, m) IN h \in Seq(S) /\ P!IsInjective(h)
<1> DEFINE w == P!Without(past, m)
           h == <<m>> \o w
<1>1. /\ w \in Seq(S) /\ P!IsInjective(w)
      /\ \A i \in DOMAIN w : w[i] # m
  BY WithoutOne
<1> HIDE DEF w
<1>2. /\ h \in Seq(S) /\ Len(h) = Len(w) + 1
      /\ \A i \in 1 .. Len(w) + 1 : h[i] = IF i = 1 THEN m ELSE w[i - 1]
  <2>1. <<m>> \in Seq(S) /\ Len(<<m>>) = 1 /\ <<m>>[1] = m
    OBVIOUS
  <2>2. Len(w) \in Nat
    BY <1>1
  <2>3. /\ h \in Seq(S) /\ Len(h) = 1 + Len(w)
        /\ \A i \in 1 .. 1 + Len(w) : h[i] = IF i <= 1 THEN <<m>>[i] ELSE w[i - 1]
    BY <1>1, <2>1, ConcatProperties
  <2> QED BY <2>1, <2>2, <2>3
<1> HIDE DEF h
<1>3. DOMAIN h = 1 .. Len(w) + 1 /\ DOMAIN w = 1 .. Len(w) /\ Len(w) \in Nat
  BY <1>1, <1>2, LenProperties
<1>4. \A i \in DOMAIN h : i # 1 => i - 1 \in DOMAIN w /\ h[i] = w[i - 1]
  BY <1>2, <1>3
<1>5. ASSUME NEW i \in DOMAIN h, NEW j \in DOMAIN h, h[i] = h[j] PROVE i = j
  <2>1. CASE i = 1 \/ j = 1
    BY <1>1, <1>2, <1>3, <1>4, <1>5, <2>1
  <2>2. CASE i # 1 /\ j # 1
    <3>1. i - 1 = j - 1
      BY <1>1, <1>4, <1>5, <2>2 DEF P!IsInjective
    <3> QED BY <1>3, <3>1
  <2> QED BY <2>1, <2>2
<1>6. P!IsInjective(h)
  BY <1>5 DEF P!IsInjective
<1> QED BY <1>2, <1>6 DEF h, w

Jobs == [at : {"idle", "switch", "switching", "read", "write", "navigate", "reload"},
         want : P!Shows \cup {Off, NoMode}, records : BOOLEAN,
         seen : P!Shows \cup {Off}]

\* A job that is about to persist a mode has not read the setup page, and the
\* guard, which does not look at what it persists, switches to another mode:
\* it takes it from the history.
ProgrammeInv ==
    /\ P!TypeOK /\ P!SetupNotPersisted
    /\ job \in [P!Goroutines -> Jobs]
    /\ \A g \in P!Goroutines :
         /\ job[g].at \in {"switch", "switching"} => job[g].want \in P!Shows \cup {Off}
         /\ job[g].at \in {"navigate", "reload"} => job[g].want \in P!Web
         /\ job[g].at = "write" => job[g].seen # Wizard
         /\ g = "guard" /\ job[g].at \in {"switch", "switching"} => job[g].want # Wizard

\* A job that may be given to a goroutine.
Fits(g, j) ==
    /\ j \in Jobs
    /\ j.at \in {"switch", "switching"} => j.want \in P!Shows \cup {Off}
    /\ j.at \in {"navigate", "reload"} => j.want \in P!Web
    /\ j.at = "write" => j.seen # Wizard
    /\ g = "guard" /\ j.at \in {"switch", "switching"} => j.want # Wizard

\* A step that gives a goroutine a job and leaves the rest typed.
LEMMA Given ==
  ASSUME ProgrammeInv, NEW g \in P!Goroutines, NEW j, Fits(g, j),
         job' = [job EXCEPT ![g] = j],
         UNCHANGED <<active, history>>,
         token' \in P!Goroutines \cup {Nobody},
         base' \in P!Shows \cup {Off}, page' \in P!Web \cup {Off},
         {parked', docEnabled', reloading', asleep', setupComplete'} \subseteq BOOLEAN,
         castTicks' \in 0 .. MaxMinutes, jobs' \in 0 .. MaxJobs,
         failures' \in 0 .. MaxFailures,
         j.at = "switching" <=> token' = g,
         token' # g => token' = (IF token = g THEN Nobody ELSE token),
         token' = g => token \in {g, Nobody}
  PROVE  ProgrammeInv'
<1>1. \A d \in P!Goroutines : job'[d] = IF d = g THEN j ELSE job[d]
  BY DEF ProgrammeInv
<1>2. job' \in [P!Goroutines -> Jobs]
  BY DEF ProgrammeInv, Fits
<1>3. \A d \in P!Goroutines : job'[d].at = "switching" <=> token' = d
  <2>1. Nobody \notin P!Goroutines
    BY GoroutineAssumption DEF P!Goroutines
  <2>2. \A d \in P!Goroutines : job[d].at = "switching" <=> token = d
    BY DEF ProgrammeInv, P!TypeOK
  <2> QED BY <1>1, <2>1, <2>2
<1>4. P!TypeOK'
  BY <1>3 DEF ProgrammeInv, P!TypeOK
<1>5. P!SetupNotPersisted'
  BY DEF ProgrammeInv, P!SetupNotPersisted
<1> QED BY <1>1, <1>2, <1>4, <1>5 DEF ProgrammeInv, Fits

\* The jobs the code gives fit.
LEMMA JobsFit ==
  ASSUME NEW g, NEW m \in P!Shows \cup {Off}, NEW r \in BOOLEAN
  PROVE  /\ Fits(g, P!NoJob)
         /\ g # "guard" \/ m # Wizard => Fits(g, P!SwitchJob(m, r))
         /\ P!NoJob.at = "idle" /\ P!SwitchJob(m, r).at = "switch"
BY DEF Fits, Jobs, P!NoJob, P!SwitchJob

\* What the step of a job does.
LEMMA RunStep ==
  ASSUME ProgrammeInv, NEW g \in P!Goroutines, P!Run(g) PROVE ProgrammeInv'
<1> USE DEF P!screen, P!owners, P!persisted, P!counters
<1>1. /\ P!TypeOK /\ P!SetupNotPersisted /\ job \in [P!Goroutines -> Jobs]
      /\ Off \in P!Shows \cup {Off} /\ TRUE \in BOOLEAN
      /\ job[g].at = "switching" <=> token = g
      /\ Nobody \notin P!Goroutines
  BY GoroutineAssumption DEF ProgrammeInv, P!TypeOK, P!Goroutines
<1>2. Fits(g, job[g])
  BY DEF ProgrammeInv, Fits
<1>3. Fits(g, P!NoJob) /\ P!NoJob.at = "idle"
  BY <1>1, JobsFit
<1>4. CASE P!SwitchRefused(g)
  BY <1>1, <1>3, <1>4, Given DEF P!SwitchRefused, P!Finish, P!Become, P!TypeOK
<1>5. CASE P!SwitchBegin(g)
  <2> DEFINE j == [job[g] EXCEPT !.at = "switching"]
  <2>1. Fits(g, j) /\ j.at = "switching"
    BY <1>1, <1>2, <1>5 DEF Fits, Jobs, P!SwitchBegin
  <2>2. job' = [job EXCEPT ![g] = j]
    BY <1>1, <1>5 DEF P!SwitchBegin, P!Goto
  <2> HIDE DEF j
  <2> QED BY <1>1, <1>5, <2>1, <2>2, Given DEF P!SwitchBegin, P!TypeOK
<1>6. CASE P!SwitchDone(g)
  <2>1. /\ job[g].at = "switching" /\ token = g /\ token' = Nobody
        /\ base' = job[g].want /\ base' \in P!Shows \cup {Off}
        /\ page' \in P!Web \cup {Off} /\ parked' \in BOOLEAN
        /\ UNCHANGED <<docEnabled, reloading, asleep, active, history, setupComplete,
                       castTicks, jobs, failures>>
    BY <1>1, <1>2, <1>6 DEF P!SwitchDone, Fits, P!TypeOK
  <2>2. ASSUME NEW j, Fits(g, j), j.at # "switching", job' = [job EXCEPT ![g] = j]
        PROVE  ProgrammeInv'
    BY <1>1, <2>1, <2>2, Given DEF P!TypeOK
  <2>3. CASE g = "guard"
    <3> DEFINE j == [job[g] EXCEPT !.at = "write", !.seen = base']
    <3>1. Fits(g, j) /\ j.at = "write"
      BY <1>1, <1>2, <2>1, <2>3 DEF Fits, Jobs
    <3>2. job' = [job EXCEPT ![g] = j]
      BY <1>1, <1>6, <2>3 DEF P!SwitchDone
    <3> HIDE DEF j
    <3> QED BY <2>2, <3>1, <3>2
  <2>4. CASE g # "guard" /\ job[g].records
    <3> DEFINE j == [job[g] EXCEPT !.at = "read"]
    <3>1. Fits(g, j) /\ j.at = "read"
      BY <1>1, <1>2 DEF Fits, Jobs
    <3>2. job' = [job EXCEPT ![g] = j]
      BY <1>1, <1>6, <2>4 DEF P!SwitchDone, P!Goto
    <3> HIDE DEF j
    <3> QED BY <2>2, <3>1, <3>2
  <2>5. CASE g # "guard" /\ ~job[g].records
    BY <1>3, <1>6, <2>2, <2>5 DEF P!SwitchDone, P!Finish, P!Become
  <2> QED BY <2>3, <2>4, <2>5
<1>7. CASE P!SwitchFails(g)
  <2>1. failures' \in 0 .. MaxFailures
    BY <1>1, <1>7, BoundAssumption DEF P!SwitchFails, P!TypeOK
  <2> QED BY <1>1, <1>3, <1>7, <2>1, Given DEF P!SwitchFails, P!Finish, P!Become, P!TypeOK
<1>8. CASE P!recordActive(g)
  <2>1. CASE base = Wizard
    BY <1>1, <1>3, <1>8, <2>1, Given DEF P!recordActive, P!Finish, P!Become, P!TypeOK
  <2>2. CASE base # Wizard
    <3> DEFINE j == [job[g] EXCEPT !.at = "write", !.seen = base]
    <3>1. Fits(g, j) /\ j.at = "write"
      BY <1>1, <1>2, <2>2 DEF Fits, Jobs, P!TypeOK
    <3>2. job' = [job EXCEPT ![g] = j] /\ job[g].at = "read"
      BY <1>1, <1>8, <2>2 DEF P!recordActive
    <3> HIDE DEF j
    <3> QED BY <1>1, <1>8, <3>1, <3>2, Given DEF P!recordActive, P!TypeOK
  <2> QED BY <2>1, <2>2
<1>9. CASE P!RecordMode(g)
  <2>1. /\ active' = job[g].seen /\ active' \in P!Shows \cup {Off} /\ active' # Wizard
        /\ job' = [job EXCEPT ![g] = P!NoJob] /\ job[g].at = "write"
        /\ castTicks' \in 0 .. MaxMinutes
        /\ UNCHANGED <<token, base, page, parked, docEnabled, reloading, asleep,
                       setupComplete, jobs, failures>>
    BY <1>1, <1>2, <1>9, BoundAssumption
       DEF P!RecordMode, P!Finish, P!Become, Fits, Jobs, P!TypeOK
  <2>2. history \in Seq(P!Shows \ {Wizard}) /\ P!IsInjective(history)
    <3>1. history \in Seq(P!Shows) /\ \A i \in 1 .. Len(history) : history[i] \in P!Shows \ {Wizard}
      BY <1>1 DEF P!TypeOK, P!SetupNotPersisted
    <3> QED BY <1>1, <3>1 DEF P!TypeOK
  <2>3. history' \in Seq(P!Shows \ {Wizard}) /\ P!IsInjective(history')
    <3>1. CASE active' = Off
      BY <1>9, <2>2, <3>1 DEF P!RecordMode
    <3>2. CASE active' # Off
      <4>1. history' = <<active'>> \o P!Without(history, active')
        BY <1>9, <3>2 DEF P!RecordMode
      <4>2. active' \in P!Shows \ {Wizard}
        BY <2>1, <3>2
      <4> QED BY <2>2, <4>1, <4>2, PutFirst
    <3> QED BY <3>1, <3>2
  <2>4. history' \in Seq(P!Shows) /\ \A i \in DOMAIN history' : history'[i] # Wizard
    BY <2>3
  <2>5. \A d \in P!Goroutines : job'[d] = IF d = g THEN P!NoJob ELSE job[d]
    BY <1>1, <2>1
  <2>6. P!TypeOK'
    BY <1>1, <1>3, <2>1, <2>3, <2>4, <2>5 DEF P!TypeOK
  <2>7. job' \in [P!Goroutines -> Jobs] /\ P!SetupNotPersisted'
    BY <1>1, <1>3, <2>1, <2>4 DEF Fits, P!SetupNotPersisted
  <2> QED BY <1>3, <2>5, <2>6, <2>7 DEF ProgrammeInv, Fits
<1>10. CASE P!NavigateIfWeb(g)
  <2>1. /\ base' \in P!Shows \cup {Off} /\ page' \in P!Web \cup {Off}
    BY <1>1, <1>2, <1>10 DEF P!NavigateIfWeb, Fits, P!TypeOK, P!Shows
  <2> QED BY <1>1, <1>3, <1>10, <2>1, Given DEF P!NavigateIfWeb, P!Finish, P!Become, P!TypeOK
<1>11. CASE P!ReloadNavigate(g)
  <2>1. page' \in P!Web \cup {Off}
    BY <1>1, <1>2, <1>11 DEF P!ReloadNavigate, Fits, P!TypeOK
  <2> QED BY <1>1, <1>3, <1>11, <2>1, Given DEF P!ReloadNavigate, P!Finish, P!Become, P!TypeOK
<1> QED
  BY <1>4, <1>5, <1>6, <1>7, <1>8, <1>9, <1>10, <1>11 DEF P!Run

\* A handler that begins a job with a goroutine that has none.
LEMMA Begins ==
  ASSUME ProgrammeInv, NEW g \in P!Goroutines, NEW j, Fits(g, j), P!Start(g, j),
         UNCHANGED <<base, page, parked, active, history, castTicks, failures>>,
         {docEnabled', reloading', asleep', setupComplete'} \subseteq BOOLEAN,
         token' = IF j.at = "switching" THEN g ELSE token,
         j.at = "switching" => token = Nobody
  PROVE  ProgrammeInv'
<1>1. /\ job' = [job EXCEPT ![g] = j] /\ job[g].at = "idle" /\ token # g
      /\ jobs' \in 0 .. MaxJobs
  BY BoundAssumption DEF P!Start, P!Become, ProgrammeInv, P!TypeOK
<1>2. Nobody \notin P!Goroutines
  BY GoroutineAssumption DEF P!Goroutines
<1> QED BY <1>1, <1>2, Given DEF ProgrammeInv, P!TypeOK

\* What a request does, and the schedule.
LEMMA HandleStep ==
  ASSUME ProgrammeInv, NEW g \in P!Goroutines, g # "guard",
         \/ P!Handle(g) \/ (g \in Requests /\ P!ReloadWeb(g))
         \/ \E on \in BOOLEAN : P!handleScreen(g, on)
         \/ g = "scheduler" /\ \E m \in Pages \cup Films : P!fireScheduled(m)
  PROVE  ProgrammeInv'
<1> USE DEF P!screen, P!owners, P!persisted
<1>1. P!TypeOK /\ Fits(g, P!NoJob) /\ P!NoJob.at = "idle" /\ Off \in P!Shows \cup {Off}
      /\ P!Web \subseteq P!Shows
  BY JobsFit DEF ProgrammeInv, P!Shows
<1>2. \A m \in P!Shows \cup {Off}, r \in BOOLEAN :
         Fits(g, P!SwitchJob(m, r)) /\ P!SwitchJob(m, r).at = "switch"
  BY JobsFit
<1>3. ASSUME NEW m \in (P!Shows \ {Doc}) \cup {Off}, P!handleMode(g, m)
      PROVE  ProgrammeInv'
  BY <1>1, <1>2, <1>3, Begins DEF P!handleMode, P!TypeOK
<1>4. ASSUME NEW m \in Pages \cup Films, P!handleURL(g, m) PROVE ProgrammeInv'
  <2>1. m \in P!Shows
    BY DEF P!Shows, P!Web
  <2> QED BY <1>1, <1>2, <1>4, <2>1, Begins DEF P!handleURL, P!TypeOK
<1>5. ASSUME NEW m \in Pages \cup Films \cup {Off, NoMode}, P!SetOutputContent(g, m)
      PROVE  ProgrammeInv'
  <2>1. CASE m = NoMode
    <3> DEFINE j == [P!NoJob EXCEPT !.at = "read", !.want = NoMode]
    <3>1. Fits(g, j) /\ j.at = "read"
      BY DEF Fits, Jobs, P!NoJob
    <3>2. P!Start(g, j)
      BY <1>5, <2>1 DEF P!SetOutputContent
    <3> HIDE DEF j
    <3> QED BY <1>1, <1>5, <2>1, <3>1, <3>2, Begins DEF P!SetOutputContent, P!TypeOK
  <2>2. CASE m # NoMode
    <3>1. m \in P!Shows \cup {Off}
      BY <2>2 DEF P!Shows, P!Web
    <3> QED BY <1>1, <1>2, <1>5, <2>2, <3>1, Begins DEF P!SetOutputContent, P!TypeOK
  <2> QED BY <2>1, <2>2
<1>6. CASE P!Standby(g)
  BY <1>1, <1>2, <1>6, Begins DEF P!Standby, P!TypeOK
<1>7. ASSUME NEW b \in BOOLEAN, P!SetDocument(g, b) PROVE ProgrammeInv'
  <2>1. CASE b
    <3> DEFINE j == [P!NoJob EXCEPT !.at = "navigate", !.want = Doc]
    <3>1. Fits(g, j) /\ j.at = "navigate"
      BY DEF Fits, Jobs, P!NoJob, P!Web, P!Shows
    <3>2. P!Start(g, j)
      BY <1>7, <2>1 DEF P!SetDocument
    <3> HIDE DEF j
    <3> QED BY <1>1, <1>7, <3>1, <3>2, Begins DEF P!SetDocument, P!TypeOK
  <2>2. CASE ~b
    BY <1>1, <1>7, <2>2, Begins DEF P!SetDocument, P!AtOnce, P!TypeOK
  <2> QED BY <2>1, <2>2
<1>8. ASSUME NEW b \in BOOLEAN, P!SetReload(g, b) PROVE ProgrammeInv'
  BY <1>1, <1>8, Begins DEF P!SetReload, P!AtOnce, P!TypeOK
<1>9. ASSUME NEW b \in BOOLEAN, P!handleScreen(g, b) PROVE ProgrammeInv'
  BY <1>1, <1>9, Begins DEF P!handleScreen, P!AtOnce, P!TypeOK
<1>10. CASE P!RestartMode(g)
  <2> DEFINE j == [P!SwitchJob(base, FALSE) EXCEPT !.at = "switching"]
  <2>1. Fits(g, j) /\ j.at = "switching"
    BY <1>1 DEF Fits, Jobs, P!SwitchJob, P!NoJob, P!TypeOK
  <2>2. P!Start(g, j)
    BY <1>10 DEF P!RestartMode
  <2> HIDE DEF j
  <2> QED BY <1>1, <1>10, <2>1, <2>2, Begins DEF P!RestartMode, P!TypeOK
<1>11. CASE P!SetupFinish(g)
  BY <1>1, <1>11, Begins DEF P!SetupFinish, P!AtOnce, P!TypeOK
<1>12. CASE g \in Requests /\ P!ReloadWeb(g)
  <2> DEFINE j == [P!NoJob EXCEPT !.at = "reload", !.want = base]
  <2>1. base \in P!Web /\ P!Start(g, j)
    BY <1>12, GoroutineAssumption DEF P!ReloadWeb
  <2>2. Fits(g, j) /\ j.at = "reload"
    BY <1>1, <2>1 DEF Fits, Jobs, P!NoJob
  <2> HIDE DEF j
  <2> QED BY <1>1, <1>12, <2>1, <2>2, Begins DEF P!ReloadWeb, P!TypeOK
<1>13. ASSUME g = "scheduler", NEW m \in Pages \cup Films, P!fireScheduled(m)
       PROVE  ProgrammeInv'
  <2>1. m \in P!Shows
    BY DEF P!Shows, P!Web
  <2> QED BY <1>1, <1>2, <1>13, <2>1, Begins DEF P!fireScheduled, P!TypeOK
<1> QED
  BY <1>3, <1>4, <1>5, <1>6, <1>7, <1>8, <1>9, <1>10, <1>11, <1>12, <1>13 DEF P!Handle

\* Every step of a request, the schedule, the timers and the node keeps it.
LEMMA ProgrammeStep == ProgrammeInv /\ [Next]_vars => ProgrammeInv'
<1> SUFFICES ASSUME ProgrammeInv, [Next]_vars PROVE ProgrammeInv'
  OBVIOUS
<1> USE DEF P!screen, P!owners, P!persisted, P!counters
<1>1. /\ P!TypeOK /\ P!SetupNotPersisted /\ job \in [P!Goroutines -> Jobs]
      /\ Requests \cup {"scheduler", "guard", "boot", "timer"} = P!Goroutines
      /\ "guard" \notin Requests /\ Nobody \notin P!Goroutines
  BY GoroutineAssumption DEF ProgrammeInv, P!Goroutines
<1>2. ASSUME NEW g \in Requests, P!Handle(g) \/ P!ReloadWeb(g) PROVE ProgrammeInv'
  BY <1>1, <1>2, HandleStep
<1>3. ASSUME NEW b \in BOOLEAN, P!handleScreen("scheduler", b) PROVE ProgrammeInv'
  BY <1>1, <1>3, HandleStep
<1>4. ASSUME NEW m \in Pages \cup Films, P!fireScheduled(m) PROVE ProgrammeInv'
  BY <1>1, <1>4, HandleStep
<1>5. CASE P!contentTick
  <2> DEFINE j == [P!NoJob EXCEPT !.at = "reload", !.want = base]
  <2>1. /\ base \in P!Web /\ job["timer"].at = "idle"
        /\ job' = [job EXCEPT !["timer"] = j] /\ token = Nobody
        /\ UNCHANGED <<token, base, page, parked, docEnabled, reloading, asleep, active,
                       history, setupComplete, castTicks, jobs, failures>>
    BY <1>5, GoroutineAssumption DEF P!contentTick, P!ReloadWeb, P!Become
  <2>2. Fits("timer", j) /\ j.at = "reload"
    BY <2>1 DEF Fits, Jobs, P!NoJob, P!Shows
  <2> HIDE DEF j
  <2> QED BY <1>1, <2>1, <2>2, Given DEF P!TypeOK
<1>6. CASE P!guardTick
  <2>1. CASE UNCHANGED job
    <3>1. castTicks' \in 0 .. MaxMinutes
      <4>1. castTicks \in 0 .. MaxMinutes /\ MaxMinutes \in Nat
        BY <1>1, BoundAssumption DEF P!TypeOK
      <4>2. \/ castTicks' = 0 \/ castTicks' = castTicks
            \/ castTicks < MaxMinutes /\ castTicks' = castTicks + 1
        BY <1>6 DEF P!guardTick
      <4> QED BY <4>1, <4>2
    <3>2. UNCHANGED <<token, base, page, parked, docEnabled, reloading, asleep, active,
                      history, setupComplete, job, jobs, failures>>
      BY <1>6, <2>1 DEF P!guardTick
    <3> QED BY <3>1, <3>2 DEF ProgrammeInv, P!TypeOK, P!SetupNotPersisted
  <2>2. CASE P!Become("guard", P!SwitchJob(P!previousMode, TRUE)) /\ UNCHANGED castTicks
    <3>1. P!previousMode \in P!Shows \cup {Off} /\ P!previousMode # Wizard
      <4> DEFINE others == {i \in DOMAIN history : history[i] # Cast}
                 first == CHOOSE i \in others : \A j \in others : i <= j
      <4>1. CASE others = {}
        BY <4>1, GoroutineAssumption DEF P!previousMode
      <4>2. CASE others # {}
        <5>1. \E i \in others : \A j \in others : i <= j
          BY <1>1, <4>2, LeastIndex DEF P!TypeOK
        <5>2. first \in DOMAIN history
          BY <5>1
        <5>3. P!previousMode = history[first]
          BY <4>2 DEF P!previousMode
        <5> HIDE DEF first
        <5> QED BY <1>1, <5>2, <5>3 DEF P!TypeOK, P!SetupNotPersisted
      <4> QED BY <4>1, <4>2
    <3> DEFINE j == P!SwitchJob(P!previousMode, TRUE)
    <3>2. Fits("guard", j) /\ j.at = "switch"
      BY <3>1, JobsFit
    <3>3. /\ job' = [job EXCEPT !["guard"] = j]
          /\ job["guard"].at = "idle" /\ token # "guard"
          /\ UNCHANGED <<token, base, page, parked, docEnabled, reloading, asleep, active,
                         history, setupComplete, castTicks, jobs, failures>>
      BY <1>1, <1>6, <2>2 DEF P!guardTick, P!Become, P!TypeOK
    <3> HIDE DEF j
    <3>4. /\ "guard" \in P!Goroutines
          /\ token' \in P!Goroutines \cup {Nobody}
          /\ base' \in P!Shows \cup {Off} /\ page' \in P!Web \cup {Off}
          /\ {parked', docEnabled', reloading', asleep', setupComplete'} \subseteq BOOLEAN
          /\ castTicks' \in 0 .. MaxMinutes /\ jobs' \in 0 .. MaxJobs
          /\ failures' \in 0 .. MaxFailures
      BY <1>1, <3>3 DEF P!TypeOK
    <3> QED BY <3>2, <3>3, <3>4, Given
  <2> QED BY <1>6, <2>1, <2>2 DEF P!guardTick
<1>7. ASSUME NEW start \in Pages \cup {Off}, P!Reboot(start) PROVE ProgrammeInv'
  <2> DEFINE initial == IF active # NoMode THEN active
                        ELSE IF ~setupComplete THEN Wizard ELSE start
  <2>1. initial \in P!Shows \cup {Off}
    BY <1>1 DEF P!TypeOK, P!Shows, P!Web
  <2>2. /\ job' = [g \in P!Goroutines |->
                     IF g = "boot" /\ initial # Off
                     THEN P!SwitchJob(initial, active = NoMode) ELSE P!NoJob]
        /\ active' = (IF initial = Off THEN Off ELSE active)
        /\ token' = Nobody /\ base' = Off /\ page' = Off /\ parked' = FALSE
        /\ asleep' = FALSE /\ castTicks' = 0 /\ jobs' \in 0 .. MaxJobs
        /\ setupComplete' \in BOOLEAN
        /\ UNCHANGED <<docEnabled, reloading, history, failures>>
    BY <1>1, <1>7, BoundAssumption DEF P!Reboot, P!TypeOK
  <2>3. \A g \in P!Goroutines : Fits(g, job'[g]) /\ job'[g].at # "switching"
    <3>1. \A g \in P!Goroutines : Fits(g, P!NoJob) /\ P!NoJob.at = "idle"
      BY <2>1, JobsFit
    <3>2. /\ Fits("boot", P!SwitchJob(initial, active = NoMode))
          /\ P!SwitchJob(initial, active = NoMode).at = "switch"
      BY <2>1, JobsFit
    <3> QED BY <2>2, <3>1, <3>2
  <2>4. job' \in [P!Goroutines -> Jobs]
    BY <2>2, <2>3 DEF Fits
  <2>5. P!TypeOK'
    <3>1. 0 \in 0 .. MaxMinutes /\ FALSE \in BOOLEAN
      BY BoundAssumption
    <3>2. active' \in P!Shows \cup {Off, NoMode}
      BY <1>1, <2>2 DEF P!TypeOK
    <3> HIDE DEF initial
    <3> QED BY <1>1, <2>2, <2>3, <3>1, <3>2 DEF P!TypeOK
  <2>6. P!SetupNotPersisted'
    BY <1>1, <2>2, GoroutineAssumption DEF P!SetupNotPersisted
  <2> HIDE DEF initial
  <2> QED BY <2>3, <2>4, <2>5, <2>6 DEF ProgrammeInv, Fits
<1>8. ASSUME NEW g \in P!Goroutines, P!Run(g) PROVE ProgrammeInv'
  BY <1>8, RunStep
<1>9. CASE UNCHANGED pvars
  BY <1>9 DEF pvars, ProgrammeInv, P!TypeOK, P!SetupNotPersisted
<1> QED
  BY <1>2, <1>3, <1>4, <1>5, <1>6, <1>7, <1>8, <1>9 DEF Next, P!Next, vars

\* The programme starts as a node does that was never provisioned.
LEMMA ProgrammeStart == Init => ProgrammeInv
<1> SUFFICES ASSUME Init PROVE ProgrammeInv
  OBVIOUS
<1>1. /\ token = Nobody /\ base = Off /\ page = Off /\ parked = FALSE
      /\ docEnabled = FALSE /\ reloading = FALSE /\ asleep = FALSE
      /\ active = NoMode /\ history = <<>> /\ setupComplete = FALSE
      /\ castTicks = 0 /\ jobs = 0 /\ failures = 0
      /\ job = [g \in P!Goroutines |-> IF g = "boot" THEN P!SwitchJob(Wizard, TRUE)
                                       ELSE P!NoJob]
  BY DEF Init, P!Init
<1>2. \A g \in P!Goroutines : Fits(g, job[g]) /\ job[g].at # "switching"
  <2>1. Wizard \in P!Shows \cup {Off}
    BY DEF P!Shows, P!Web
  <2>2. \A g : Fits(g, P!NoJob) /\ P!NoJob.at = "idle"
    BY <2>1, JobsFit
  <2>3. Fits("boot", P!SwitchJob(Wizard, TRUE)) /\ P!SwitchJob(Wizard, TRUE).at = "switch"
    BY <2>1, JobsFit
  <2> QED BY <1>1, <2>2, <2>3
<1>3. job \in [P!Goroutines -> Jobs]
  BY <1>1, <1>2 DEF Fits
<1>4. P!SetupNotPersisted
  BY <1>1, GoroutineAssumption DEF P!SetupNotPersisted
<1>5. P!TypeOK
  <2>1. 0 \in 0 .. MaxMinutes /\ 0 \in 0 .. MaxJobs /\ 0 \in 0 .. MaxFailures
    BY BoundAssumption
  <2>2. Nobody \notin P!Goroutines
    BY GoroutineAssumption DEF P!Goroutines
  <2>3. <<>> \in Seq(P!Shows) /\ P!IsInjective(<<>>)
    BY DEF P!IsInjective
  <2> QED BY <1>1, <1>2, <2>1, <2>2, <2>3 DEF P!TypeOK
<1> QED BY <1>2, <1>3, <1>4, <1>5 DEF ProgrammeInv, Fits

\* Whatever requests, timers, navigations and reboots interleave, the setup page
\* is neither the mode that is persisted nor in the history that the guard of
\* the cast goes back to (server.go, recordActive; miracast.go, previousMode).
THEOREM SetupKept == Spec => []SetupNotPersisted
<1>1. ProgrammeInv => SetupNotPersisted
  BY DEF ProgrammeInv, SetupNotPersisted
<1> QED BY <1>1, ProgrammeStart, ProgrammeStep, PTL DEF Spec

-----------------------------------------------------------------------------
(* The types of the four parts *)

\* The watchdog: no counter passes the limit at which it acts.
LEMMA WatchdogTyped == W!TypeOK /\ [Next]_vars => W!TypeOK'
<1> SUFFICES ASSUME W!TypeOK, [Next]_vars PROVE W!TypeOK'
  OBVIOUS
<1> USE DEF W!TypeOK, W!Ages
<1> USE LimitAssumption, PolicyAssumption
<1>1. CASE W!Disturb
  BY <1>1 DEF W!Disturb, W!memory, W!hist
<1>2. CASE W!Check
  <2>1. ledger' \in W!Ages
    BY <1>2, Aging DEF W!Check
  <2>2. unhealed' \in W!Ages
    <3>1. W!inWindow(W!older(unhealed)) \in W!Ages /\ {} \in W!Ages
      BY Aging DEF W!inWindow
    <3> QED BY <1>2, <3>1 DEF W!Check
  <2>3. undowned' \in W!Ages
    <3>1. W!inWindow(W!older(undowned)) \in W!Ages /\ {} \in W!Ages
      BY Aging DEF W!inWindow
    <3> QED BY <1>2, <3>1 DEF W!Check
  <2>4. kiosk' \in W!Kiosks
    BY <1>2 DEF W!Check, W!reloaded, W!Kiosks
  <2> QED BY <1>2, <2>1, <2>2, <2>3, <2>4 DEF W!Check
<1>3. ASSUME W!TryReboot
      PROVE  /\ ledger' \in W!Ages /\ unhealed' \in W!Ages /\ undowned' \in W!Ages
             /\ goingDown' \in BOOLEAN
  <2>1. /\ W!inWindow(ledger) \in W!Ages
        /\ \A L \in W!Ages : L \cup {0} \in W!Ages
    <3>1. W!inWindow(ledger) \in W!Ages
      BY Recent
    <3>2. 0 \in 0 .. RebootWindow + 1
      OBVIOUS
    <3> QED BY <3>1, <3>2
  <2>2. ledger' \in {W!inWindow(ledger), W!inWindow(ledger) \cup {0}}
    BY <1>3 DEF W!TryReboot
  <2>3. unhealed' \in {unhealed, unhealed \cup {0}}
    BY <1>3 DEF W!TryReboot
  <2>4. undowned' \in {undowned, undowned \cup {0}}
    BY <1>3 DEF W!TryReboot
  <2>5. goingDown' \in {TRUE, goingDown}
    BY <1>3 DEF W!TryReboot
  <2> QED BY <2>1, <2>2, <2>3, <2>4, <2>5
<1>9. 0 \in 0 .. WedgeRestart - 1 /\ 0 \in 0 .. DownLimit - 1
  OBVIOUS
<1>4. CASE W!Unwedge
  <2>1. /\ pc' = "judge" /\ UNCHANGED <<netUp, online, st, downStreak>>
    BY <1>4 DEF W!Unwedge
  <2>2. CASE W!NotWedged
    BY <2>1, <2>2 DEF W!NotWedged
  <2>3. CASE W!KeepWatching
    BY <2>1, <2>3 DEF W!KeepWatching
  <2>4. CASE W!Reattach
    BY <2>1, <2>4 DEF W!Reattach, W!Kiosks
  <2>5. CASE W!RestartKiosk
    <3>1. /\ kiosk' \in W!Kiosks /\ wedge' = 0 /\ wedgeRestarts' \in Nat
      BY <2>5 DEF W!RestartKiosk
    <3>2. W!TryReboot \/ UNCHANGED <<ledger, goingDown, unhealed, undowned>>
      BY <2>5 DEF W!RestartKiosk
    <3>3. /\ ledger' \in W!Ages /\ unhealed' \in W!Ages /\ undowned' \in W!Ages
          /\ goingDown' \in BOOLEAN
      BY <1>3, <3>2
    <3> QED BY <1>9, <2>1, <3>1, <3>3
  <2> QED BY <1>4, <2>2, <2>3, <2>4, <2>5 DEF W!Unwedge
<1>5. CASE W!Judge
  <2>1. pc' = "wait" /\ UNCHANGED <<netUp, kiosk, online, st, wedge, wedgeRestarts>>
    BY <1>5 DEF W!Judge, W!env
  <2>2. downStreak' \in 0 .. DownLimit - 1
    BY <1>5, <1>9 DEF W!Judge, W!ModeDown, W!ModeUp
  <2>3. \/ W!TryReboot
        \/ ledger' \in {{}, ledger} /\ UNCHANGED <<goingDown, unhealed, undowned>>
    BY <1>5 DEF W!Judge, W!ModeDown, W!ModeUp
  <2>4. /\ ledger' \in W!Ages /\ unhealed' \in W!Ages /\ undowned' \in W!Ages
        /\ goingDown' \in BOOLEAN
    BY <1>3, <2>3
  <2> QED BY <2>1, <2>2, <2>4
<1>6. CASE W!Reboot
  BY <1>6, <1>9 DEF W!Reboot, W!Kiosks
<1>7. CASE UNCHANGED wvars
  BY <1>7 DEF wvars
<1> QED BY <1>1, <1>2, <1>4, <1>5, <1>6, <1>7 DEF Next, W!Next, vars

\* The X server: its socket answers only while it runs.
LEMMA XServerTyped == X!TypeOK /\ [Next]_vars => X!TypeOK'
<1> SUFFICES ASSUME X!TypeOK, [Next]_vars PROVE X!TypeOK'
  OBVIOUS
<1> USE BoundAssumption DEF X!TypeOK, X!at, X!running, X!Children, X!Clients
<1>1. CASE X!WriteAuth
  BY <1>1 DEF X!WriteAuth
<1>5. CASE X!WriteAuthFails \/ X!NotReady
  BY <1>5 DEF X!WriteAuthFails, X!NotReady
<1>7. CASE X!Stop
  BY <1>7 DEF X!Stop
<1>8. CASE X!Accept
  BY <1>8 DEF X!Accept
<1>6. CASE X!Ready
  BY <1>6 DEF X!Ready
<1>2. ASSUME NEW c \in X!Children,
             X!LoopTop(c) \/ X!Launch(c) \/ X!LaunchFails(c) \/ X!Exit(c) \/ X!Reap(c)
      PROVE  X!TypeOK'
  <2>1. 0 \in 0 .. Delays
    OBVIOUS
  <2>2. CASE X!LoopTop(c)
    BY <1>2, <2>2 DEF X!LoopTop
  <2>3. CASE X!Launch(c)
    BY <1>2, <2>3 DEF X!Launch
  <2>4. CASE X!LaunchFails(c)
    BY <1>2, <2>4 DEF X!LaunchFails
  <2>5. CASE X!Exit(c)
    BY <1>2, <2>5 DEF X!Exit
  <2>6. CASE X!Reap(c)
    BY <1>2, <2>1, <2>6 DEF X!Reap
  <2> QED BY <1>2, <2>2, <2>3, <2>4, <2>5, <2>6
<1>3. ASSUME NEW c \in X!Children, X!Sleep(c) PROVE X!TypeOK'
  <2>1. backoff' \in [X!Children -> 0 .. Delays]
    BY <1>3 DEF X!Sleep
  <2> QED BY <1>3, <2>1 DEF X!Sleep
<1>4. CASE UNCHANGED xvars
  BY <1>4 DEF xvars
<1> QED BY <1>1, <1>2, <1>3, <1>4, <1>5, <1>6, <1>7, <1>8 DEF Next, X!Next, vars

Rotations == UNION {[s -> Degrees \cup {0}] : s \in SUBSET D!Names}
Layouts == {"single", "mirror", "extend"}
Calls == [at : {"idle", "power", "rotate", "record", "rotated", "arranged", "save"},
          target : D!Names, on : BOOLEAN, wayland : BOOLEAN,
          deg : Degrees \cup {0}, mode : Layouts, copy : D!Files]

\* The display: what a call carries, and writes, is of the right type as well.
DisplayTyped == D!TypeOK /\ call \in [Callers -> Calls]

\* Rotations are added, moved to the real primary and looked up.
LEMMA RotationFacts ==
  ASSUME NEW rot \in Rotations
  PROVE  /\ \A o \in D!Names : D!RotationOf(rot, o) \in Degrees \cup {0}
         /\ \A p \in D!Names : D!Resolved(rot, p) \in Rotations
         /\ \A o \in D!Names, deg \in Degrees \cup {0} :
               [n \in DOMAIN rot \cup {o} |-> IF n = o THEN deg ELSE rot[n]] \in Rotations
<1>1. PICK s \in SUBSET D!Names : rot \in [s -> Degrees \cup {0}]
  BY DEF Rotations
<1>2. ASSUME NEW t \in SUBSET D!Names, NEW r \in [t -> Degrees \cup {0}] PROVE r \in Rotations
  BY DEF Rotations
<1>3. ASSUME NEW o \in D!Names PROVE D!RotationOf(rot, o) \in Degrees \cup {0}
  BY <1>1 DEF D!RotationOf
<1>4. ASSUME NEW p \in D!Names PROVE D!Resolved(rot, p) \in Rotations
  <2>1. CASE Unnamed \notin DOMAIN rot
    BY <2>1 DEF D!Resolved
  <2>2. CASE Unnamed \in DOMAIN rot
    <3> DEFINE t == (DOMAIN rot \ {Unnamed}) \cup {p}
               r == [o \in t |-> IF o \in DOMAIN rot THEN rot[o] ELSE rot[Unnamed]]
    <3>1. t \in SUBSET D!Names /\ r \in [t -> Degrees \cup {0}]
      BY <1>1, <2>2
    <3>2. D!Resolved(rot, p) = r
      BY <2>2 DEF D!Resolved
    <3> HIDE DEF t, r
    <3> QED BY <1>2, <3>1, <3>2
  <2> QED BY <2>1, <2>2
<1>5. ASSUME NEW o \in D!Names, NEW deg \in Degrees \cup {0}
      PROVE  [n \in DOMAIN rot \cup {o} |-> IF n = o THEN deg ELSE rot[n]] \in Rotations
  <2> DEFINE t == DOMAIN rot \cup {o}
             r == [n \in t |-> IF n = o THEN deg ELSE rot[n]]
  <2>1. t \in SUBSET D!Names /\ r \in [t -> Degrees \cup {0}]
    BY <1>1
  <2> HIDE DEF t, r
  <2>2. r \in Rotations
    BY <1>2, <2>1
  <2> QED BY <2>2 DEF r, t
<1> QED BY <1>3, <1>4, <1>5

\* What is saved is what the fields hold.
LEMMA FilesFact ==
  /\ \A rot, lay, zm : D!Saved(rot, lay, zm) \in D!Files
        <=> rot \in Rotations /\ lay \in Layouts /\ zm \in Zooms
  /\ \A f \in D!Files : f.rotations \in Rotations /\ f.layout \in Layouts /\ f.zoom \in Zooms
BY DEF D!Saved, D!Files, Rotations, Layouts

\* The defaults of the file, and a caller without a call.
LEMMA DefaultFacts == D!Defaults \in D!Files /\ D!Idle \in Calls /\ D!Idle.at = "idle"
<1> DEFINE none == [o \in {} |-> 0]
<1>1. none \in Rotations
  <2>1. none \in [{} -> Degrees \cup {0}] /\ {} \in SUBSET D!Names
    OBVIOUS
  <2> HIDE DEF none
  <2> QED BY <2>1 DEF Rotations
<1>2. D!Defaults = D!Saved(none, "single", 1)
  BY DEF D!Defaults
<1> HIDE DEF none
<1>3. D!Defaults \in D!Files
  BY <1>1, <1>2, FilesFact, OutputAssumption DEF Layouts
<1> QED BY <1>3 DEF D!Idle, Calls, D!Names, Layouts

\* A step that keeps the types of the variables and gives one caller a call.
LEMMA CallGiven ==
  ASSUME DisplayTyped, NEW c \in Callers, NEW local \in Calls,
         call' = [call EXCEPT ![c] = local],
         backend' \in {"x", "wayland", "console"},
         lit' \in [{"x", "wayland"} -> SUBSET Outputs],
         shown' \in [Outputs -> Degrees \cup {0}],
         asleeps' \subseteq D!Names, primary' \in D!Names,
         rotations' \in Rotations, layout' \in Layouts, zoom' \in Zooms,
         file' \in D!Files, screenMu' \in Callers \cup {Unnamed},
         calls' \in 0 .. MaxCalls, powered' \in [Outputs -> {"screen", "other"}]
  PROVE  DisplayTyped'
<1>1. call' \in [Callers -> Calls]
  BY DEF DisplayTyped
<1>2. \A d \in Callers : call'[d].at \in
        {"idle", "power", "rotate", "record", "rotated", "arranged", "save"}
  BY <1>1 DEF Calls
<1>3. D!Saved(rotations', layout', zoom') \in D!Files
  BY FilesFact
<1>4. D!Saved(rotations, layout, zoom)' \in D!Files'
  BY <1>3 DEF D!Saved, D!Files, D!Names
<1> QED BY <1>1, <1>2, <1>4 DEF DisplayTyped, D!TypeOK, D!Files, D!Names

\* Every call, command and restart keeps the types.
LEMMA DisplayStep == DisplayTyped /\ [Next]_vars => DisplayTyped'
<1> SUFFICES ASSUME DisplayTyped, [Next]_vars PROVE DisplayTyped'
  OBVIOUS
<1> USE DEF D!hardware, D!fields
<1>1. /\ backend \in {"x", "wayland", "console"}
      /\ lit \in [{"x", "wayland"} -> SUBSET Outputs]
      /\ shown \in [Outputs -> Degrees \cup {0}]
      /\ asleeps \subseteq D!Names /\ primary \in D!Names
      /\ rotations \in Rotations /\ layout \in Layouts /\ zoom \in Zooms
      /\ file \in D!Files /\ screenMu \in Callers \cup {Unnamed}
      /\ calls \in 0 .. MaxCalls /\ powered \in [Outputs -> {"screen", "other"}]
      /\ call \in [Callers -> Calls]
  BY FilesFact DEF DisplayTyped, D!TypeOK
<1>2. /\ First \in D!Names /\ Outputs \subseteq D!Names /\ Unnamed \in D!Names
      /\ First \in Outputs
      /\ \A o \in D!Names : (IF o = Unnamed THEN First ELSE o) \in Outputs
  BY OutputAssumption DEF D!Names
<1>3. ASSUME NEW answers, D!refreshOutputs(answers)
      PROVE  primary' \in D!Names /\ rotations' \in Rotations
  BY <1>1, <1>2, <1>3, RotationFacts DEF D!refreshOutputs
<1>4. D!Idle \in Calls /\ D!Defaults \in D!Files
  BY DefaultFacts
<1>5. calls < MaxCalls /\ calls' = calls + 1 => calls' \in 0 .. MaxCalls
  BY <1>1, BoundAssumption
<1>6. \A c \in Callers : /\ call[c] \in Calls /\ call[c].target \in D!Names
                         /\ call[c].on \in BOOLEAN /\ call[c].mode \in Layouts
                         /\ call[c].deg \in Degrees \cup {0} /\ call[c].copy \in D!Files
  BY <1>1 DEF Calls
<1>7. \A c \in Callers : [call[c] EXCEPT !.at = "rotate"] \in Calls
                         /\ [call[c] EXCEPT !.at = "record"] \in Calls
  BY <1>6 DEF Calls
<1>10. ASSUME NEW c \in Callers, D!Screen(c) PROVE DisplayTyped'
  <2>1. ASSUME NEW o \in D!Names, NEW on \in BOOLEAN, NEW answers \in BOOLEAN,
               D!ScreenEnter(c, o, on, answers)
        PROVE  DisplayTyped'
    <3> DEFINE local == [D!Idle EXCEPT !.at = "power",
                           !.target = IF o # Unnamed THEN o ELSE primary',
                           !.on = on, !.wayland = (backend = "wayland")]
    <3>1. /\ primary' \in D!Names /\ rotations' \in Rotations
          /\ call' = [call EXCEPT ![c] = local] /\ calls' \in 0 .. MaxCalls
          /\ screenMu' = c
          /\ UNCHANGED <<backend, lit, shown, asleeps, zoom, layout, file, powered>>
      BY <1>3, <1>5, <2>1 DEF D!ScreenEnter, D!Begin
    <3>2. local \in Calls
      BY <1>4, <3>1 DEF Calls
    <3> HIDE DEF local
    <3> QED BY <1>1, <3>1, <3>2, CallGiven
  <2>2. CASE D!setOutputNamed(c)
    <3> DEFINE o == IF call[c].target = Unnamed THEN First ELSE call[c].target
               local == [call[c] EXCEPT !.at = IF call[c].on THEN "rotate" ELSE "record"]
    <3>1. o \in Outputs /\ local \in Calls
      BY <1>2, <1>6, <1>7
    <3>2. /\ lit' \in {[lit EXCEPT !["x"] = @ \cup {o}], [lit EXCEPT !["x"] = @ \ {o}]}
          /\ shown' \in {shown, [shown EXCEPT ![o] = 0]}
          /\ powered' \in {[powered EXCEPT ![o] = "screen"], [powered EXCEPT ![o] = "other"]}
          /\ call' = [call EXCEPT ![c] = local]
          /\ UNCHANGED <<backend, rotations, asleeps, zoom, primary, layout, file,
                         screenMu, calls>>
      BY <1>1, <2>2 DEF D!setOutputNamed, D!Goto
    <3> HIDE DEF o, local
    <3>3. lit' \in [{"x", "wayland"} -> SUBSET Outputs]
      BY <1>1, <3>1, <3>2
    <3>4. shown' \in [Outputs -> Degrees \cup {0}]
      BY <1>1, <3>1, <3>2
    <3>5. powered' \in [Outputs -> {"screen", "other"}]
      BY <1>1, <3>1, <3>2
    <3> QED BY <1>1, <3>1, <3>2, <3>3, <3>4, <3>5, CallGiven
  <2>3. ASSUME NEW done \in SUBSET Outputs, D!setWaylandOutput(c, done)
        PROVE  DisplayTyped'
    <3>1. /\ lit' \in [{"x", "wayland"} -> SUBSET Outputs]
          /\ powered' \in [Outputs -> {"screen", "other"}]
          /\ UNCHANGED <<backend, shown, rotations, asleeps, zoom, primary, layout, file,
                         calls>>
      BY <1>1, <2>3 DEF D!setWaylandOutput
    <3>2. PICK local \in Calls : call' = [call EXCEPT ![c] = local]
      BY <1>1, <1>4, <1>7, <2>3 DEF D!setWaylandOutput, D!Goto, D!Return
    <3>3. screenMu' \in Callers \cup {Unnamed}
      BY <1>1, <2>3 DEF D!setWaylandOutput
    <3> QED BY <1>1, <3>1, <3>2, <3>3, CallGiven
  <2>4. CASE D!ScreenFails(c)
    BY <1>1, <1>4, <2>4, CallGiven DEF D!ScreenFails, D!Return
  <2>5. ASSUME NEW works \in BOOLEAN, D!ScreenRotate(c, works) PROVE DisplayTyped'
    <3> DEFINE t == call[c].target
               o == IF t = Unnamed THEN First ELSE t
               own == D!RotationOf(rotations, t)
               deg == IF own = 0 /\ t = primary THEN D!RotationOf(rotations, Unnamed)
                      ELSE own
    <3>1. o \in Outputs /\ deg \in Degrees \cup {0}
      BY <1>1, <1>2, <1>6, RotationFacts
    <3>2. /\ shown' \in {shown, [shown EXCEPT ![o] = deg]}
          /\ call' = [call EXCEPT ![c] = [call[c] EXCEPT !.at = "record"]]
          /\ UNCHANGED <<backend, lit, rotations, asleeps, zoom, primary, layout, file,
                         screenMu, calls, powered>>
      BY <1>1, <2>5 DEF D!ScreenRotate, D!Goto
    <3> HIDE DEF t, o, own, deg
    <3>3. shown' \in [Outputs -> Degrees \cup {0}]
      BY <1>1, <3>1, <3>2
    <3> QED BY <1>1, <1>7, <3>2, <3>3, CallGiven
  <2>6. CASE D!ScreenRecord(c)
    <3>1. asleeps' \subseteq D!Names
      BY <1>1, <1>6, <2>6 DEF D!ScreenRecord
    <3> QED BY <1>1, <1>4, <2>6, <3>1, CallGiven DEF D!ScreenRecord, D!Return
  <2> QED BY <1>10, <2>1, <2>2, <2>3, <2>4, <2>5, <2>6 DEF D!Screen
<1>11. ASSUME NEW c \in Callers, D!save(c),
              rotations' \in Rotations, layout' \in Layouts, zoom' \in Zooms
       PROVE  \E local \in Calls : call' = [call EXCEPT ![c] = local]
  <2> DEFINE local == [D!Idle EXCEPT !.at = "save",
                                     !.copy = D!Saved(rotations', layout', zoom')]
  <2>1. D!Saved(rotations', layout', zoom') \in D!Files
    BY <1>11, FilesFact
  <2>2. local \in Calls
    BY <1>4, <2>1 DEF Calls
  <2>3. call' = [call EXCEPT ![c] = local]
    BY <1>11 DEF D!save
  <2> QED BY <2>2, <2>3
<1>12. ASSUME NEW c \in Callers, D!Arrange(c) PROVE DisplayTyped'
  <2>1. ASSUME NEW o \in D!Names, NEW deg \in Degrees \cup {0}, NEW answers \in BOOLEAN,
               D!RotateApply(c, o, deg, answers)
        PROVE  DisplayTyped'
    <3> DEFINE t == IF o # Unnamed THEN o ELSE primary'
               p == IF t = Unnamed THEN First ELSE t
               local == [D!Idle EXCEPT !.at = "rotated", !.target = t, !.deg = deg]
    <3>1. primary' \in D!Names /\ rotations' \in Rotations
      BY <1>3, <2>1 DEF D!RotateApply
    <3>2. t \in D!Names
      BY <3>1
    <3>3. p \in Outputs /\ local \in Calls
      BY <1>2, <1>4, <3>2 DEF Calls
    <3>4. /\ call' = [call EXCEPT ![c] = local] /\ calls' \in 0 .. MaxCalls
          /\ shown' = [shown EXCEPT ![p] = deg]
          /\ UNCHANGED <<backend, lit, asleeps, zoom, layout, file, screenMu, powered>>
      BY <1>5, <2>1 DEF D!RotateApply, D!Begin
    <3> HIDE DEF local, p, t
    <3>5. shown' \in [Outputs -> Degrees \cup {0}]
      BY <1>1, <3>3, <3>4
    <3> QED BY <1>1, <3>1, <3>3, <3>4, <3>5, CallGiven
  <2>2. CASE D!RotateRecord(c)
    <3>1. rotations' \in Rotations
      BY <1>1, <1>6, <2>2, RotationFacts DEF D!RotateRecord
    <3>2. /\ UNCHANGED <<backend, lit, shown, asleeps, zoom, primary, layout, file, screenMu,
                         calls, powered>>
          /\ D!save(c)
      BY <2>2 DEF D!RotateRecord
    <3> QED BY <1>1, <1>11, <3>1, <3>2, CallGiven
  <2>3. ASSUME NEW factor \in Zooms, D!Zoom(c, factor) PROVE DisplayTyped'
    <3>1. /\ zoom' \in Zooms /\ calls' \in 0 .. MaxCalls /\ D!save(c)
          /\ UNCHANGED <<backend, lit, shown, rotations, asleeps, primary, layout, file,
                         screenMu, powered>>
      BY <1>5, <2>3 DEF D!Zoom
    <3> QED BY <1>1, <1>11, <3>1, CallGiven
  <2>4. ASSUME NEW mode \in Layouts, NEW p \in Outputs, D!SetLayout(c, mode, p)
        PROVE  DisplayTyped'
    <3> DEFINE local == [D!Idle EXCEPT !.at = "arranged", !.target = p, !.mode = mode]
    <3>1. local \in Calls
      BY <1>2, <1>4 DEF Calls
    <3>2. /\ call' = [call EXCEPT ![c] = local] /\ calls' \in 0 .. MaxCalls
          /\ UNCHANGED <<backend, rotations, asleeps, zoom, primary, layout, file, screenMu>>
      BY <1>5, <2>4 DEF D!SetLayout, D!Begin
    <3>3. lit' \in [{"x", "wayland"} -> SUBSET Outputs]
      BY <1>1, <2>4 DEF D!SetLayout
    <3>4. shown' \in [Outputs -> Degrees \cup {0}]
      BY <1>1, <2>4 DEF D!SetLayout
    <3>5. powered' \in [Outputs -> {"screen", "other"}]
      BY <2>4 DEF D!SetLayout
    <3> HIDE DEF local
    <3> QED BY <1>1, <3>1, <3>2, <3>3, <3>4, <3>5, CallGiven
  <2>5. ASSUME NEW mode \in Layouts, NEW p \in Outputs, NEW off \in SUBSET (Outputs \ {p}),
               D!SetLayoutFails(c, mode, p, off)
        PROVE  DisplayTyped'
    <3>1. /\ calls' \in 0 .. MaxCalls
          /\ UNCHANGED <<backend, rotations, asleeps, zoom, primary, layout, file, screenMu,
                         call>>
      BY <1>5, <2>5 DEF D!SetLayoutFails
    <3>2. lit' \in [{"x", "wayland"} -> SUBSET Outputs]
      BY <1>1, <2>5 DEF D!SetLayoutFails
    <3>3. shown' \in [Outputs -> Degrees \cup {0}]
      BY <1>1, <2>5 DEF D!SetLayoutFails
    <3>4. powered' \in [Outputs -> {"screen", "other"}]
      BY <2>5 DEF D!SetLayoutFails
    <3>5. call' = [call EXCEPT ![c] = call[c]] /\ call[c] \in Calls
      BY <1>1, <3>1
    <3> QED BY <1>1, <3>1, <3>2, <3>3, <3>4, <3>5, CallGiven
  <2>6. CASE D!SetLayoutRecord(c)
    <3> DEFINE deg(o) == IF D!RotationOf(rotations, o) = 0 /\ o = call[c].target
                         THEN D!RotationOf(rotations, Unnamed)
                         ELSE D!RotationOf(rotations, o)
    <3>1. /\ primary' \in D!Names /\ layout' \in Layouts
          /\ shown' = [o \in Outputs |-> IF deg(o) # 0 THEN deg(o) ELSE shown[o]]
          /\ UNCHANGED <<backend, lit, rotations, asleeps, zoom, file, screenMu, calls,
                         powered>>
          /\ D!save(c)
      BY <1>6, <2>6 DEF D!SetLayoutRecord
    <3>2. \A o \in Outputs : deg(o) \in Degrees \cup {0}
      BY <1>1, <1>2, RotationFacts
    <3> HIDE DEF deg
    <3>3. shown' \in [Outputs -> Degrees \cup {0}]
      BY <1>1, <3>1, <3>2
    <3> QED BY <1>1, <1>11, <3>1, <3>3, CallGiven
  <2>7. CASE D!SaveWrite(c)
    BY <1>1, <1>4, <1>6, <2>7, CallGiven DEF D!SaveWrite, D!Return
  <2> QED
    BY <1>12, <2>1, <2>2, <2>3, <2>4, <2>5, <2>6, <2>7 DEF D!Arrange, Layouts
<1>13. ASSUME UNCHANGED <<shown, rotations, asleeps, zoom, primary, layout, file, screenMu,
                          call, powered>>,
              backend' \in {"x", "wayland", "console"}, calls' \in 0 .. MaxCalls,
              lit' \in [{"x", "wayland"} -> SUBSET Outputs]
       PROVE  DisplayTyped'
  BY <1>13 DEF DisplayTyped, D!TypeOK, D!Saved
<1>14. CASE D!applyWaylandDisabledOutputs
  <2>1. lit' \in [{"x", "wayland"} -> SUBSET Outputs]
    BY <1>1, <1>14 DEF D!applyWaylandDisabledOutputs
  <2> QED BY <1>1, <1>13, <1>14, <2>1 DEF D!applyWaylandDisabledOutputs
<1>15. ASSUME NEW b \in {"x", "wayland", "console"}, D!SwitchBackend(b) PROVE DisplayTyped'
  <2>1. lit' \in [{"x", "wayland"} -> SUBSET Outputs]
    BY <1>1, <1>15 DEF D!SwitchBackend
  <2> QED BY <1>1, <1>5, <1>13, <1>15, <2>1 DEF D!SwitchBackend
<1>16. ASSUME NEW torn \in BOOLEAN, D!Restart(torn) PROVE DisplayTyped'
  <2> DEFINE kept == IF torn THEN D!Defaults ELSE file
  <2>1. kept \in D!Files
    BY <1>1, <1>4
  <2>2. /\ file' = kept /\ zoom' = kept.zoom /\ layout' = kept.layout
        /\ rotations' = D!Resolved(kept.rotations, First) /\ primary' = First
        /\ lit' = [lit EXCEPT !["x"] = IF kept.layout = "single" THEN @ \cup {First}
                                       ELSE Outputs]
        /\ shown' = [o \in Outputs |-> IF D!RotationOf(rotations', o) # 0
                                       THEN rotations'[o] ELSE shown[o]]
        /\ backend' = "x" /\ asleeps' = {} /\ screenMu' = Unnamed
        /\ call' = [c \in Callers |-> D!Idle] /\ powered' = [o \in Outputs |-> "other"]
        /\ calls' \in 0 .. MaxCalls
    BY <1>5, <1>16 DEF D!Restart
  <2> HIDE DEF kept
  <2>3. rotations' \in Rotations /\ layout' \in Layouts /\ zoom' \in Zooms
    BY <1>2, <2>1, <2>2, FilesFact, RotationFacts
  <2>4. lit' \in [{"x", "wayland"} -> SUBSET Outputs]
    BY <1>1, <1>2, <2>2
  <2>5. shown' \in [Outputs -> Degrees \cup {0}]
    <3>1. \A o \in Outputs : /\ D!RotationOf(rotations', o) \in Degrees \cup {0}
                             /\ D!RotationOf(rotations', o) # 0
                                  => rotations'[o] = D!RotationOf(rotations', o)
      BY <1>2, <2>3, RotationFacts DEF D!RotationOf
    <3> QED BY <1>1, <2>2, <3>1
  <2>6. D!Saved(rotations', layout', zoom') \in D!Files
    BY <2>3, FilesFact
  <2>7. \A c \in Callers : call'[c].at = "idle"
    BY <2>2, DefaultFacts
  <2>8. call' \in [Callers -> Calls] /\ powered' \in [Outputs -> {"screen", "other"}]
    BY <1>4, <2>2
  <2> QED
    BY <1>2, <2>1, <2>2, <2>4, <2>5, <2>6, <2>7, <2>8 DEF DisplayTyped, D!TypeOK, D!Saved
<1>17. CASE UNCHANGED dvars
  BY <1>1, <1>13, <1>17 DEF dvars
<1> QED BY <1>10, <1>12, <1>14, <1>15, <1>16, <1>17 DEF Next, D!Next, vars

\* The other parts start with their types, the display with its defaults.
LEMMA PartsStart == Init => W!TypeOK /\ DisplayTyped /\ X!TypeOK
<1> SUFFICES ASSUME Init PROVE W!TypeOK /\ DisplayTyped /\ X!TypeOK
  OBVIOUS
<1>1. W!TypeOK
  <2>1. {} \in W!Ages
    BY DEF W!Ages
  <2>2. W!Init
    BY DEF Init
  <2>3. 0 \in 0 .. WedgeRestart - 1 /\ 0 \in 0 .. DownLimit - 1 /\ 0 \in Nat
    BY LimitAssumption
  <2> QED BY <2>1, <2>2, <2>3 DEF W!Init, W!TypeOK, W!Kiosks
<1>2. DisplayTyped
  <2>1. /\ backend = "x" /\ lit = [b \in {"x", "wayland"} |-> Outputs]
        /\ shown = [o \in Outputs |-> 0] /\ rotations = [o \in {} |-> 0]
        /\ asleeps = {} /\ zoom = 1 /\ primary = Unnamed /\ layout = "single"
        /\ file = D!Defaults /\ screenMu = Unnamed /\ calls = 0
        /\ call = [c \in Callers |-> D!Idle] /\ powered = [o \in Outputs |-> "other"]
    BY DEF Init, D!Init
  <2>2. call \in [Callers -> Calls] /\ \A c \in Callers : call[c].at = "idle"
    BY <2>1, DefaultFacts
  <2>3. D!Saved(rotations, layout, zoom) \in D!Files
    BY <2>1, DefaultFacts DEF D!Defaults
  <2>4. file \in D!Files
    BY <2>1, DefaultFacts
  <2> HIDE DEF D!Saved
  <2> QED BY <2>1, <2>2, <2>3, <2>4, BoundAssumption DEF DisplayTyped, D!TypeOK, D!Names
<1>3. X!TypeOK
  <2>1. X!Init
    BY DEF Init
  <2>2. 0 \in 0 .. Delays /\ 0 \in 0 .. MaxStarts
    BY BoundAssumption
  <2> QED BY <2>1, <2>2 DEF X!Init, X!TypeOK, X!running
<1> QED BY <1>1, <1>2, <1>3

\* Every part keeps its types, whatever is asked of it and whatever fails.
THEOREM NodeTyped == Spec => []WellFormed
<1> DEFINE Parts == W!TypeOK /\ DisplayTyped /\ ProgrammeInv /\ X!TypeOK
           Focus == focus \in {"watchdog", "display", "programme", "xserver"}
<1>1. Init => Focus /\ Parts
  BY PartsStart, ProgrammeStart DEF Init
<1>2. Focus /\ Parts /\ [Next]_vars => (Focus /\ Parts)'
  <2>1. Focus /\ [Next]_vars => Focus'
    BY DEF Next, vars
  <2> QED BY <2>1, WatchdogTyped, DisplayStep, ProgrammeStep, XServerTyped
<1>3. Focus /\ Parts => WellFormed
  BY DEF WellFormed, DisplayTyped, ProgrammeInv
<1> HIDE DEF Focus, Parts
<1> QED BY <1>1, <1>2, <1>3, PTL DEF Spec
===============================================================================
