------------------------------- MODULE Display -------------------------------
(***************************************************************************)
(* The display service (displaystate.go, display.go and the output watch   *)
(* of main.go): rotation, layout, zoom and sleep of the node's outputs.    *)
(* The hardware is two sets of lit outputs, the X server's and the Wayland *)
(* compositor's, because a screen powered through one is untouched in the  *)
(* other; the agent's view of it is rotations, asleeps and primary.  Calls *)
(* run on the goroutines Callers and are cut at every external command.    *)
(***************************************************************************)
EXTENDS Naturals, FiniteSets

CONSTANTS Callers,   \* goroutines that call the service (requests, scheduler)
          Outputs,   \* the connected outputs
          First,     \* the first connected output, the default of xrandr
          Listed,    \* -wayland-disable-output: outputs to hold off
          Unnamed,   \* the key "": the primary before it was enumerated
          Degrees,   \* the rotations other than 0 a user asks for
          Zooms,     \* the page zooms a user asks for, 1 is the default
          CecTv,     \* a CEC television answers on the bus
          MaxCalls   \* bound: calls made in a behaviour

VARIABLES backend,    \* what owns the screen: "x", "wayland" or "console"
          lit,        \* powered outputs under each compositor
          shown,      \* the rotation each X output really has
          rotations, asleeps, zoom, primary, layout,   \* Display's fields
          file,       \* display.json
          screenMu,   \* the caller inside Screen(), or Unnamed
          call,       \* where each caller is, and its local variables
          calls,      \* calls made so far
          powered     \* ghost: what last powered each X output, "screen" or "other"

vars == <<backend, lit, shown, rotations, asleeps, zoom, primary, layout,
          file, screenMu, call, calls, powered>>
hardware == <<backend, lit, shown>>
fields == <<rotations, asleeps, zoom, primary, layout>>

Names == Outputs \cup {Unnamed}
Saved(rot, lay, zm) == [rotations |-> rot, layout |-> lay, zoom |-> zm]
Defaults == Saved([o \in {} |-> 0], "single", 1)
Idle == [at |-> "idle", target |-> Unnamed, on |-> FALSE, wayland |-> FALSE,
         deg |-> 0, mode |-> "single", copy |-> Defaults]

\* A rotation that was never set reads as 0, as a missing key of a Go map.
RotationOf(rot, o) == IF o \in DOMAIN rot THEN rot[o] ELSE 0
\* Only the X session can be enumerated.
Enumerable == backend # "wayland"

\* The legacy key "" moves to the real primary unless that has a value already.
Resolved(rot, p) ==
    IF Unnamed \notin DOMAIN rot THEN rot
    ELSE [o \in (DOMAIN rot \ {Unnamed}) \cup {p} |->
             IF o \in DOMAIN rot THEN rot[o] ELSE rot[Unnamed]]
refreshOutputs(answers) ==
    IF primary = Unnamed /\ Enumerable /\ answers
    THEN primary' = First /\ rotations' = Resolved(rotations, First)
    ELSE UNCHANGED <<primary, rotations>>

Asleep == primary \in asleeps \/ Unnamed \in asleeps

Begin(c, local) ==
    /\ call[c].at = "idle" /\ calls < MaxCalls
    /\ calls' = calls + 1
    /\ call' = [call EXCEPT ![c] = local]
Goto(c, label) == call' = [call EXCEPT ![c].at = label]
Return(c) == call' = [call EXCEPT ![c] = Idle]

Init ==
    /\ backend = "x"
    /\ lit = [b \in {"x", "wayland"} |-> Outputs]
    /\ shown = [o \in Outputs |-> 0]
    /\ rotations = [o \in {} |-> 0] /\ asleeps = {} /\ zoom = 1
    /\ primary = Unnamed /\ layout = "single"
    /\ file = Defaults
    /\ screenMu = Unnamed
    /\ call = [c \in Callers |-> Idle] /\ calls = 0
    /\ powered = [o \in Outputs |-> "other"]

----------------------------------------------------------------------------
(* Screen(output, on).                                                     *)

\* Mutation: two requests power an output at the same time.
ScreenEnterUnlocked(c, o, on, answers) ==
    /\ screenMu' = c
    /\ refreshOutputs(answers)
    /\ LET t == IF o # Unnamed THEN o ELSE primary' IN
       Begin(c, [Idle EXCEPT !.at = "power", !.target = t, !.on = on,
                             !.wayland = (backend = "wayland")])
    /\ UNCHANGED <<hardware, asleeps, zoom, layout, file, powered>>

ScreenEnter(c, o, on, answers) ==
    /\ screenMu = Unnamed
    /\ screenMu' = c
    /\ refreshOutputs(answers)
    /\ LET t == IF o # Unnamed THEN o ELSE primary' IN
       Begin(c, [Idle EXCEPT !.at = "power", !.target = t, !.on = on,
                             !.wayland = (backend = "wayland")])
    /\ UNCHANGED <<hardware, asleeps, zoom, layout, file, powered>>

\* CEC is only tried for the primary.
CecCarries(c) == CecTv /\ call[c].target \in {Unnamed, primary}

\* setOutputNamed and setOutput: one xrandr command; --auto resets the rotation.
setOutputNamed(c) ==
    /\ call[c].at = "power" /\ ~call[c].wayland
    /\ LET t == call[c].target
           o == IF t = Unnamed THEN First ELSE t
       IN /\ IF call[c].on
             THEN /\ lit' = [lit EXCEPT !["x"] = @ \cup {o}]
                  /\ shown' = [shown EXCEPT ![o] = 0]
             ELSE lit' = [lit EXCEPT !["x"] = @ \ {o}] /\ UNCHANGED shown
          /\ powered' = [powered EXCEPT ![o] = IF t = o THEN "screen" ELSE "other"]
    /\ Goto(c, IF call[c].on THEN "rotate" ELSE "record")
    /\ UNCHANGED <<backend, fields, file, screenMu, calls>>

\* The outputs are powered one by one up to a failure, which a television
\* that can sleep by CEC makes harmless.
setWaylandOutput(c, done) ==
    /\ call[c].at = "power" /\ call[c].wayland
    /\ lit' = [lit EXCEPT !["wayland"] =
                  IF call[c].on THEN @ \cup done ELSE @ \ done]
    /\ powered' = [o \in Outputs |-> IF o = call[c].target THEN "other" ELSE powered[o]]
    /\ IF done = Outputs \/ CecCarries(c)
       THEN Goto(c, "record") /\ UNCHANGED screenMu
       ELSE Return(c) /\ screenMu' = Unnamed
    /\ UNCHANGED <<backend, shown, fields, file, calls>>

ScreenFails(c) ==
    /\ call[c].at = "power" /\ ~call[c].wayland
    /\ Return(c) /\ screenMu' = Unnamed
    /\ UNCHANGED <<hardware, fields, file, calls, powered>>

\* A wake puts the persisted rotation back; its failure is ignored.
ScreenRotate(c, works) ==
    /\ call[c].at = "rotate"
    /\ LET t == call[c].target
           o == IF t = Unnamed THEN First ELSE t
           own == RotationOf(rotations, t)
           deg == IF own = 0 /\ t = primary THEN RotationOf(rotations, Unnamed) ELSE own
       IN shown' = IF works /\ deg # 0 THEN [shown EXCEPT ![o] = deg] ELSE shown
    /\ Goto(c, "record")
    /\ UNCHANGED <<backend, lit, fields, file, screenMu, calls, powered>>

ScreenRecord(c) ==
    /\ call[c].at = "record"
    /\ asleeps' = IF call[c].on THEN asleeps \ {call[c].target}
                  ELSE asleeps \cup {call[c].target}
    /\ screenMu' = Unnamed
    /\ Return(c)
    /\ UNCHANGED <<hardware, rotations, zoom, primary, layout, file, calls, powered>>

----------------------------------------------------------------------------
(* Rotate, Zoom and SetLayout change the fields and then save() them: a    *)
(* copy is taken under the lock and written without one.                   *)

save(c) == call' = [call EXCEPT ![c] =
    [Idle EXCEPT !.at = "save", !.copy = Saved(rotations', layout', zoom')]]

RotateApply(c, o, deg, answers) ==
    /\ backend = "x"
    /\ refreshOutputs(answers)
    /\ LET t == IF o # Unnamed THEN o ELSE primary' IN
       /\ shown' = [shown EXCEPT ![IF t = Unnamed THEN First ELSE t] = deg]
       /\ Begin(c, [Idle EXCEPT !.at = "rotated", !.target = t, !.deg = deg])
    /\ UNCHANGED <<backend, lit, asleeps, zoom, layout, file, screenMu, powered>>

RotateRecord(c) ==
    /\ call[c].at = "rotated"
    /\ rotations' = [o \in DOMAIN rotations \cup {call[c].target} |->
                        IF o = call[c].target THEN call[c].deg ELSE rotations[o]]
    /\ UNCHANGED <<hardware, asleeps, zoom, primary, layout, file, screenMu, calls, powered>>
    /\ save(c)

\* The supervisor's SetZoom succeeded; when it refuses nothing changes.
Zoom(c, factor) ==
    /\ call[c].at = "idle" /\ calls < MaxCalls
    /\ calls' = calls + 1
    /\ zoom' = factor
    /\ UNCHANGED <<hardware, rotations, asleeps, primary, layout, file, screenMu, powered>>
    /\ save(c)

\* The outputs a layout's xrandr commands light and turn off; only a layout
\* of at least two outputs mirrors or extends.
SetLayout(c, mode, p) ==
    /\ backend = "x"
    /\ mode \in {"mirror", "extend"} => Cardinality(Outputs) >= 2
    /\ lit' = [lit EXCEPT !["x"] = IF mode = "single" THEN {p} ELSE Outputs]
    /\ shown' = [o \in Outputs |-> IF o \in lit'["x"] THEN 0 ELSE shown[o]]
    /\ powered' = [o \in Outputs |-> "other"]
    /\ Begin(c, [Idle EXCEPT !.at = "arranged", !.target = p, !.mode = mode])
    /\ UNCHANGED <<backend, fields, file, screenMu>>

\* xrandr fails after some of the commands: nothing is recorded.
SetLayoutFails(c, mode, p, off) ==
    /\ backend = "x"
    /\ call[c].at = "idle" /\ calls < MaxCalls
    /\ calls' = calls + 1
    /\ lit' = [lit EXCEPT !["x"] = (@ \cup {p}) \ (IF mode = "single" THEN off ELSE {})]
    /\ shown' = [shown EXCEPT ![p] = 0]
    /\ powered' = [o \in Outputs |-> "other"]
    /\ UNCHANGED <<backend, fields, file, screenMu, call>>

SetLayoutRecord(c) ==
    /\ call[c].at = "arranged"
    /\ primary' = call[c].target /\ layout' = call[c].mode
    /\ LET deg(o) == IF RotationOf(rotations, o) = 0 /\ o = call[c].target
                     THEN RotationOf(rotations, Unnamed) ELSE RotationOf(rotations, o)
       IN shown' = [o \in Outputs |-> IF deg(o) # 0 THEN deg(o) ELSE shown[o]]
    /\ UNCHANGED <<backend, lit, rotations, asleeps, zoom, file, screenMu, calls, powered>>
    /\ save(c)

SaveWrite(c) ==
    /\ call[c].at = "save"
    /\ file' = call[c].copy
    /\ Return(c)
    /\ UNCHANGED <<hardware, fields, screenMu, calls, powered>>

----------------------------------------------------------------------------
(* The output watch of the Wayland kiosk, and the node around the agent.   *)

\* Mutation: it keeps two other outputs, where one is enough.
waylandOutputsSpare == IF Cardinality(lit["wayland"] \ Listed) > 1
                       THEN lit["wayland"] \cap Listed ELSE {}

\* Listed outputs are only turned off while another one holds the kiosk.
waylandOutputsToDisable == IF lit["wayland"] \ Listed # {}
                           THEN lit["wayland"] \cap Listed ELSE {}

applyWaylandDisabledOutputs ==
    /\ backend = "wayland" /\ waylandOutputsToDisable # {}
    /\ lit' = [lit EXCEPT !["wayland"] = @ \ waylandOutputsToDisable]
    /\ UNCHANGED <<backend, shown, fields, file, screenMu, call, calls, powered>>

\* A mode switch: the Wayland compositor starts with every output enabled.
SwitchBackend(b) ==
    /\ b # backend /\ calls < MaxCalls
    /\ calls' = calls + 1
    /\ backend' = b
    /\ lit' = IF b = "wayland" THEN [lit EXCEPT !["wayland"] = Outputs] ELSE lit
    /\ UNCHANGED <<shown, fields, file, screenMu, call, powered>>

\* The agent stops and starts: load() reads what was saved, EnsurePreferredMode
\* lights the first output, ApplyLayoutAtBoot and ApplyRotationAtBoot do the
\* rest.  A save cut short leaves a file that does not parse: the defaults.
Restart(torn) ==
    /\ calls < MaxCalls /\ calls' = calls + 1
    /\ torn => \E c \in Callers : call[c].at = "save"
    /\ LET kept == IF torn THEN Defaults ELSE file IN
       /\ file' = kept
       /\ zoom' = kept.zoom /\ layout' = kept.layout
       /\ rotations' = Resolved(kept.rotations, First)
       /\ primary' = First
       /\ lit' = [lit EXCEPT !["x"] = IF kept.layout = "single" THEN @ \cup {First}
                                      ELSE Outputs]
       /\ shown' = [o \in Outputs |->
                       IF RotationOf(rotations', o) # 0 THEN rotations'[o] ELSE shown[o]]
    /\ backend' = "x" /\ asleeps' = {}
    /\ screenMu' = Unnamed /\ call' = [c \in Callers |-> Idle]
    /\ powered' = [o \in Outputs |-> "other"]

Screen(c) ==
    \/ \E o \in Names, on, answers \in BOOLEAN : ScreenEnter(c, o, on, answers)
    \/ setOutputNamed(c)
    \/ \E done \in SUBSET Outputs : setWaylandOutput(c, done)
    \/ ScreenFails(c)
    \/ \E works \in BOOLEAN : ScreenRotate(c, works)
    \/ ScreenRecord(c)

Arrange(c) ==
    \/ \E o \in Names, deg \in Degrees \cup {0}, answers \in BOOLEAN :
          RotateApply(c, o, deg, answers)
    \/ RotateRecord(c)
    \/ \E factor \in Zooms : Zoom(c, factor)
    \/ \E mode \in {"single", "mirror", "extend"}, p \in Outputs :
          \/ SetLayout(c, mode, p)
          \/ \E off \in SUBSET (Outputs \ {p}) : SetLayoutFails(c, mode, p, off)
    \/ SetLayoutRecord(c)
    \/ SaveWrite(c)

Next ==
    \/ \E c \in Callers : Screen(c) \/ Arrange(c)
    \/ applyWaylandDisabledOutputs
    \/ \E b \in {"x", "wayland", "console"} : SwitchBackend(b)
    \/ \E torn \in BOOLEAN : Restart(torn)

Spec == Init /\ [][Next]_vars
FairSpec == Spec /\ WF_vars(applyWaylandDisabledOutputs)

----------------------------------------------------------------------------
(* Properties.                                                             *)

Files == [rotations : UNION {[s -> Degrees \cup {0}] : s \in SUBSET Names},
          layout : {"single", "mirror", "extend"}, zoom : Zooms]

\* Every variable keeps its type.
TypeOK ==
    /\ backend \in {"x", "wayland", "console"}
    /\ lit \in [{"x", "wayland"} -> SUBSET Outputs]
    /\ shown \in [Outputs -> Degrees \cup {0}]
    /\ asleeps \subseteq Names /\ primary \in Names
    /\ Saved(rotations, layout, zoom) \in Files
    /\ file \in Files
    /\ screenMu \in Callers \cup {Unnamed}
    /\ \A c \in Callers : call[c].at \in
          {"idle", "power", "rotate", "record", "rotated", "arranged", "save"}
    /\ calls \in 0 .. MaxCalls
    /\ powered \in [Outputs -> {"screen", "other"}]

\* Two Screen calls that race (a request and the scheduler) leave the record
\* and the output agreeing: an X output that Screen was the last to power is
\* recorded asleep exactly when it is dark (screenMu in Screen).
SleepIsRemembered ==
    screenMu = Unnamed =>
        \A o \in Outputs : powered[o] = "screen" => (o \in asleeps <=> o \notin lit["x"])

\* The outputs the operator listed do not stay on beside another output of
\* the Wayland kiosk: whatever relit them, the watch turns them off again.
PanelHeldOff ==
    []<>(backend # "wayland" \/ lit["wayland"] \cap Listed = {}
                             \/ lit["wayland"] \subseteq Listed)
=============================================================================
