--------------------------------- MODULE Tls ---------------------------------
(***************************************************************************)
(* Self-signed HTTPS (agent/tls.go, type TLSManager).                      *)
(*                                                                         *)
(* Enable, Disable and Regenerate hold mu from their first to their last   *)
(* step, disk and all; the goroutine of a listener that died and the       *)
(* handshakes take mu for one step.  So an operation under mu is one       *)
(* action, except where a crash in the middle can be told: the two renames *)
(* of a new pair, and the flag that is saved last.  A certificate and its  *)
(* key are the number of the pair they belong to; 0 is none.  Which names  *)
(* the certificate covers is left out.                                     *)
(***************************************************************************)
EXTENDS Naturals

CONSTANTS
    Servers,      \* http.Server values, reused when they are gone
    None,
    MaxPairs      \* bound: pairs that are generated

VARIABLES
    mu,           \* the operation that holds it, or "free"
    step,         \* where that operation is
    enabled, cert, srv,       \* fields of TLSManager
    keyFile, certFile, flag,  \* key.pem, cert.pem, tls.json
    pairs,        \* pairs generated so far
    expired,      \* pairs that the clock has overtaken
    server,       \* each server: none, serving, failed
    up            \* the process runs

files  == <<keyFile, certFile, flag>>
fields == <<enabled, cert, srv>>
vars   == <<mu, step, fields, files, pairs, expired, server, up>>

Init ==
    /\ mu = "free" /\ step = "out" /\ enabled = FALSE /\ cert = 0 /\ srv = None
    /\ keyFile = 0 /\ certFile = 0 /\ flag = FALSE
    /\ pairs = 0 /\ expired = {} /\ server = [s \in Servers |-> "none"]
    /\ up = TRUE

(* Requests *)

\* Regenerate generates at once; Enable if there is no certificate that serves.
Begin(request) ==
    /\ up /\ mu = "free" /\ mu' = request
    /\ step' = CASE request = "enable"     -> "ensure"
                 [] request = "regenerate" -> "generate"
                 [] request = "disable"    -> "close"
    /\ UNCHANGED <<fields, files, pairs, expired, server, up>>

leave == mu' = "free" /\ step' = "out"

\* ensureCertLocked: what is cached, or a pair on disk that is not expired.
\* A loaded pair is cached before its expiry is looked at.
EnsureCert ==
    /\ step = "ensure"
    /\ IF cert # 0 THEN step' = "listen" /\ UNCHANGED cert
       ELSE IF certFile # 0 /\ keyFile = certFile
       THEN /\ cert' = certFile
            /\ step' = IF certFile \in expired THEN "generate" ELSE "listen"
       ELSE step' = "generate" /\ UNCHANGED cert
    /\ UNCHANGED <<mu, enabled, srv, files, pairs, expired, server, up>>

\* writeSelfSignedCert, up to its renames
WritePair ==
    /\ step = "generate" /\ pairs < MaxPairs
    /\ pairs' = pairs + 1 /\ step' = "rename"
    /\ UNCHANGED <<mu, fields, files, expired, server, up>>

GenerateFails ==
    /\ step \in {"generate", "rename", "renameCert"} /\ leave
    /\ UNCHANGED <<fields, files, pairs, expired, server, up>>

RenameKey ==
    /\ step = "rename" /\ step' = "renameCert" /\ keyFile' = pairs
    /\ UNCHANGED <<mu, fields, certFile, flag, pairs, expired, server, up>>

\* The new pair is loaded, and every new handshake gets it.
RenameCert ==
    /\ step = "renameCert" /\ certFile' = pairs /\ cert' = pairs
    /\ IF mu = "enable" THEN step' = "listen" /\ UNCHANGED mu ELSE leave
    /\ UNCHANGED <<enabled, srv, keyFile, flag, pairs, expired, server, up>>

bound == \E s \in Servers : server[s] = "serving"

Listen ==
    /\ step = "listen" /\ srv = None /\ ~bound
    /\ \E s \in Servers :
           /\ server[s] = "none"
           /\ server' = [server EXCEPT ![s] = "serving"] /\ srv' = s
    /\ enabled' = TRUE /\ step' = "save"
    /\ UNCHANGED <<mu, cert, files, pairs, expired, up>>

\* Already serving, or the address is taken.
NoListen ==
    /\ step = "listen" /\ leave
    /\ UNCHANGED <<fields, files, pairs, expired, server, up>>

\* Disable; the goroutine of a closed server ends by itself.
Close ==
    /\ step = "close" /\ step' = "save"
    /\ server' = [s \in Servers |-> IF s = srv /\ server[s] = "serving" THEN "none"
                                    ELSE server[s]]
    /\ srv' = None /\ enabled' = FALSE
    /\ UNCHANGED <<mu, cert, files, pairs, expired, up>>

SaveFlag ==
    /\ step = "save" /\ leave
    /\ flag' \in {flag, enabled}
    /\ UNCHANGED <<fields, keyFile, certFile, pairs, expired, server, up>>

(* The listener *)

ListenerDies(s) ==
    /\ server[s] = "serving" /\ server' = [server EXCEPT ![s] = "failed"]
    /\ UNCHANGED <<mu, step, fields, files, pairs, expired, up>>

\* Its goroutine, under mu; another server may have been started since.
ListenerGone(s) ==
    /\ server[s] = "failed" /\ mu = "free"
    /\ server' = [server EXCEPT ![s] = "none"]
    /\ IF srv = s THEN srv' = None /\ enabled' = FALSE ELSE UNCHANGED <<srv, enabled>>
    /\ UNCHANGED <<mu, step, cert, files, pairs, expired, up>>

(* The node *)

\* The clock of a node without one is set.
Expire ==
    /\ certFile # 0 /\ expired' = expired \cup {certFile}
    /\ UNCHANGED <<mu, step, fields, files, pairs, server, up>>

Crash ==
    /\ up /\ up' = FALSE /\ leave
    /\ srv' = None /\ server' = [s \in Servers |-> "none"]
    /\ cert' = 0 /\ enabled' = FALSE
    /\ UNCHANGED <<files, pairs, expired>>

\* loadFlag, tryLoadCert, and StartIfEnabled
Start ==
    /\ ~up /\ up' = TRUE
    /\ enabled' = flag
    /\ cert' = IF keyFile = certFile THEN certFile ELSE 0
    /\ IF flag THEN mu' = "enable" /\ step' = "ensure" ELSE UNCHANGED <<mu, step>>
    /\ UNCHANGED <<srv, files, pairs, expired, server>>

Next ==
    \/ \E request \in {"enable", "regenerate", "disable"} : Begin(request)
    \/ EnsureCert \/ WritePair \/ GenerateFails \/ RenameKey \/ RenameCert
    \/ Listen \/ NoListen \/ Close \/ SaveFlag
    \/ \E s \in Servers : ListenerDies(s) \/ ListenerGone(s)
    \/ Expire \/ Crash \/ Start

Spec == Init /\ [][Next]_vars

-----------------------------------------------------------------------------
TypeOK ==
    /\ mu \in {"free", "enable", "regenerate", "disable"}
    /\ (mu = "free") = (step = "out")
    /\ {enabled, flag, up} \subseteq BOOLEAN /\ srv \in Servers \cup {None}
    /\ {cert, keyFile, certFile} \cup expired \subseteq 0 .. pairs
    /\ server \in [Servers -> {"none", "serving", "failed"}]

\* The address is bound by the server that the manager knows, or by none: a
\* listener that died late does not make it forget the next one (which would
\* show HTTPS as off and make every later Enable fail on the address).
ListenerKnown == \A s \in Servers : server[s] = "serving" => srv = s /\ enabled

\* "The live listener keeps serving the existing valid cert instead of going
\* dark": whoever connects gets a certificate, also while a new pair is made,
\* when that fails, and after a restart that found half of a pair.
AlwaysACert == bound => cert # 0
=============================================================================
