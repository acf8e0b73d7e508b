------------------------------ MODULE WifiScan ------------------------------
(***************************************************************************)
(* The list of networks that GET /api/wifi answers (agent/net.go:          *)
(* WifiStatus and parseWifiScan).                                          *)
(*                                                                         *)
(* The rows of an nmcli scan are folded into a list, one row a step: an    *)
(* access point a row, several of them with one SSID, some hidden.  Then   *)
(* the saved networks that were not seen are added and the list is sorted. *)
(* Splitting a row into its fields is left out; a security label is a      *)
(* value, "" for an open network.                                          *)
(***************************************************************************)
EXTENDS Integers, Sequences, SequencesExt, FiniteSets, FiniteSetsExt, Ranking

CONSTANTS
    SSIDs,        \* names, as numbers: the last tie of the order
    Signals,      \* atoiSafe of the third field
    Labels,       \* of normalizeSecurity and securityFromKeyMgmt
    MaxRows       \* bound: rows of a scan

VARIABLES
    saved,        \* savedWifiSec(): SSID -> label
    rows,         \* the rows so far
    networks, active,
    done

vars == <<saved, rows, networks, active, done>>

Hidden == 0       \* the SSID of a hidden row; also: no active network

Rows == [active : BOOLEAN, ssid : SSIDs \cup {Hidden}, signal : Signals,
         security : Labels]

Init ==
    /\ saved \in UNION {[names -> Labels] : names \in SUBSET SSIDs}
    /\ rows = <<>> /\ networks = <<>> /\ active = Hidden /\ done = FALSE

network(ssid, signal, security, isActive, isSaved) ==
    [ssid |-> ssid, signal |-> signal, security |-> security,
     active |-> isActive, saved |-> isSaved]

\* seen[r.ssid]: where the list has it
index(r) == {i \in DOMAIN networks : networks[i].ssid = r.ssid}

\* Mutation: the signal of the last access point instead of the best one.
mergedLast(n, r) == [n EXCEPT !.signal = r.signal, !.active = @ \/ r.active]

\* A row of a network that is listed raises its signal, or makes it active.
merged(n, r) == [n EXCEPT !.signal = IF r.signal > @ THEN r.signal ELSE @,
                          !.active = @ \/ r.active]

Scan(r) ==
    /\ ~done /\ Len(rows) < MaxRows
    /\ rows' = Append(rows, r)
    /\ IF r.ssid = Hidden THEN UNCHANGED <<networks, active>>
       ELSE /\ active' = IF r.active THEN r.ssid ELSE active
            /\ networks' =
                 IF index(r) # {}
                 THEN [i \in DOMAIN networks |->
                         IF i \in index(r) THEN merged(networks[i], r) ELSE networks[i]]
                 ELSE Append(networks, network(r.ssid, r.signal, r.security,
                                               r.active, r.ssid \in DOMAIN saved))
    /\ UNCHANGED <<saved, done>>

lessNetwork(a, b) ==
    IF a.active # b.active THEN a.active
    ELSE IF a.saved # b.saved THEN a.saved
    ELSE IF a.signal # b.signal THEN a.signal > b.signal
    ELSE a.ssid < b.ssid

sortNetworks(ns) == Arranged(ns, {p \in ns \X ns : lessNetwork(p[1], p[2])})

Finish ==
    /\ ~done /\ done' = TRUE
    /\ networks' =
         sortNetworks(ToSet(networks) \cup
             {network(s, 0, saved[s], FALSE, TRUE) :
                  s \in {x \in DOMAIN saved : index([ssid |-> x]) = {}}})
    /\ UNCHANGED <<saved, rows, active>>

Next == Finish \/ \E r \in Rows : Scan(r)

Spec == Init /\ [][Next]_vars

-----------------------------------------------------------------------------
TypeOK ==
    /\ rows \in Seq(Rows) /\ Len(rows) <= MaxRows /\ done \in BOOLEAN
    /\ active \in SSIDs \cup {Hidden}
    /\ \A i \in DOMAIN networks :
         networks[i] \in [ssid : SSIDs, signal : Signals \cup {0},
                          security : Labels, active : BOOLEAN, saved : BOOLEAN]

\* What the rows, and the saved networks, say of one network.
seen  == {rows[i].ssid : i \in DOMAIN rows} \ {Hidden}
of(s) == {rows[i] : i \in {j \in DOMAIN rows : rows[j].ssid = s}}
summary(n) ==
    /\ n.saved = (n.ssid \in DOMAIN saved)
    /\ n.active = \E r \in of(n.ssid) : r.active
    /\ n.signal = Max({r.signal : r \in of(n.ssid)} \cup {0})
    /\ n.ssid \notin seen => n.security = saved[n.ssid]

\* The answer says of each SSID that was seen or saved, once, what the rows
\* say together: the best signal, whether one of its access points is the
\* connected one, whether it can be forgotten, and never "open" for a saved
\* network that is out of range.  The connected one, if any, comes first.
ScanIsSummary ==
    done =>
      /\ {networks[i].ssid : i \in DOMAIN networks} = seen \cup DOMAIN saved
      /\ Len(networks) = Cardinality(seen \cup DOMAIN saved)
      /\ active # Hidden => networks[1].active
      /\ \A i \in DOMAIN networks :
           /\ summary(networks[i])
           /\ \A j \in DOMAIN networks :
                i < j => lessNetwork(networks[i], networks[j])
=============================================================================
