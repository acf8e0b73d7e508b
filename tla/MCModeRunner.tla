--------------------------- MODULE MCModeRunner ---------------------------
(***************************************************************************)
(* Small instances of ModeRunner: one mode of each restart policy.         *)
(***************************************************************************)
EXTENDS ModeRunner, TLC

CONSTANTS p1, p2, s1, s2

MCPids == {p1, p2}
MCStoppers == {s1, s2}

Htop    == [type |-> "app", display |-> "console", param |-> "htop"]
Film    == [type |-> "media", display |-> "kms", param |-> "film"]

\* Retires on any exit; retires on a clean exit; never retires.
MCModes == {Htop, Film, WebKiosk("url")}
=============================================================================
