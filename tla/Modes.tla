------------------------------- MODULE Modes -------------------------------
(***************************************************************************)
(* The unit the supervisor arbitrates (agent/modes.go): what kind of       *)
(* content, on which display path, with which parameters.  The parameters  *)
(* are one abstract value, NoParam when the request carries none.          *)
(***************************************************************************)

NoParam == "no-params"

Types == {"web", "app", "airplay", "media", "moonlight", "steamlink",
          "miracast", "off"}

Displays == {"compositor", "wayland", "console", "kms"}

\* The Go zero value Mode{}: "there was no compositor base".
ZeroMode == [type |-> "", display |-> "", param |-> NoParam]

OffMode == [type |-> "off", display |-> "compositor", param |-> NoParam]

WebKiosk(url) == [type |-> "web", display |-> "compositor", param |-> url]

-----------------------------------------------------------------------------
isWayland(m) == m.type = "web" /\ m.display = "wayland"

isWaylandPrimary(m) == m.display = "wayland"

foreground(m) == m.display \in {"console", "kms"}

retiresWhenDone(m) == m.type \in {"app", "media"}

usesChrome(m) == m.type = "web" /\ m.display # "kms"

isCogKiosk(m) == m.type = "web" /\ m.display = "kms"

\* Display paths a type supports.
supports(type) ==
    CASE type = "web" -> {"compositor", "wayland", "kms"}
      [] type = "app" -> Displays
      [] type \in {"airplay", "media"} -> {"compositor", "kms"}
      [] type \in {"moonlight", "steamlink", "miracast"} -> {"compositor"}
      [] type = "off" -> {"compositor", "console"}

\* Types whose request is rejected without parameters (a URL, an argv, a
\* file); the syntax of the parameter itself is abstracted.
needsParam(type) == type \in {"web", "app", "media"}

validate(m) == /\ m.type \in Types
               /\ m.display \in supports(m.type)
               /\ needsParam(m.type) => m.param # NoParam

\* Switching from a to b needs no child restart.
equivalent(a, b) ==
    /\ a.type = b.type
    /\ a.display = b.display
    /\ a.type \in {"steamlink", "miracast", "off"} \/ a.param = b.param
=============================================================================
