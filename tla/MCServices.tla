------------------------------ MODULE MCServices ------------------------------
(***************************************************************************)
(* A small instance of each service of the node.                           *)
(***************************************************************************)
EXTENDS Services, Sequences, TLC

-----------------------------------------------------------------------------
(* Two weekdays of four slots; a day with a tie and a disorder, exceptions *)
(* with and without entries, the window alone, over midnight, and with     *)
(* entries at its edge, and a schedule that is refused.                    *)

entry(at, action) == [at |-> at, action |-> action]
week(on, day0, day1, exceptions, window) ==
    [enabled |-> on, days |-> 0 :> day0 @@ 1 :> day1,
     exceptions |-> exceptions, nightly |-> window]

NoNight == [enabled |-> FALSE, sleep |-> BadTime, wake |-> BadTime]
Night   == [enabled |-> TRUE, sleep |-> 3, wake |-> 1]

Lobby  == week(TRUE, <<entry(2, "b"), entry(0, "a"), entry(2, "c")>>, <<>>, <<>>,
               NoNight)
Mixed  == week(TRUE, <<entry(1, "a")>>, <<entry(2, "b"), entry(3, "a")>>,
               <<[date |-> 2, entries |-> <<>>],
                 [date |-> 3, entries |-> <<entry(1, "c")>>]>>, Night)
Nights == week(FALSE, <<entry(1, "a")>>, <<>>, <<>>, Night)
Sparse == week(TRUE, <<entry(3, "a")>>, <<>>, <<[date |-> 2, entries |-> <<>>]>>,
               NoNight)
Broken == week(TRUE, <<entry(BadTime, "a")>>, <<>>, <<>>, NoNight)

Empty     == week(FALSE, <<>>, <<>>, <<>>, NoNight)
Scribbled == week(TRUE, <<entry(BadTime, "a"), entry(3, "b"), entry(1, "a"),
                          entry(0, "c"), entry(2, NoAction)>>, <<>>,
                  <<[date |-> BadTime, entries |-> <<>>]>>,
                  [enabled |-> TRUE, sleep |-> 1, wake |-> 1])

TheSchedules == {Lobby, Mixed, Nights, Sparse, Broken}
TheScheduleFiles == {[schedule |-> Scribbled, nightlyLoaded |-> TRUE],
                     [schedule |-> Empty, nightlyLoaded |-> FALSE]}

(* Three actions at most; files with a doubled slug and a missing id.      *)

film == [show |-> <<>>, run |-> "film"]
action(id, slug, name, playlist) ==
    [id |-> id, slug |-> slug, index |-> 7, name |-> name, mode |-> film,
     playlist |-> playlist]

FourIds == {<<"h1">>, <<"h2">>, <<"h3">>, <<"h4">>}
TypedSlugs == {<<"a">>, <<"a", 2>>}
OneMode == {film}
TheActionFiles == {<<>>, <<action(<<"h1">>, <<>>, "a", "p"),
                           action(NoId, <<"a">>, "b", NoPlaylist),
                           action(<<"h3">>, <<"a", 2>>, "a", NoPlaylist),
                           action(<<"h4">>, <<"b">>, "a", NoPlaylist)>>}
TheCustoms == <<"a", "b", "a">>

(* Three shows and off. *)

show(label) == [off |-> FALSE, label |-> label]
TheShows == {show("a"), show("b"), show("c"), [off |-> TRUE, label |-> "off"]}

(* A library item, a web item whose id and duration were given, an item of *)
(* no kind, one of no source; an item twice; more items than are kept.     *)

source(type, name) == [type |-> type, name |-> name]
item(kind, src, id, seconds) ==
    [kind |-> kind, src |-> src, id |-> id, seconds |-> seconds]
picture == item("image", source("library", "a"), NoItem, 0)
clip    == item("video", source("url", "b"), <<"own", source("url", "b")>>, -1)
unknown == item("other", source("library", "a"), NoItem, 0)
nowhere == item("image", source("none", "a"), NoItem, 0)

TheLists == {[items |-> <<picture, unknown, clip, nowhere, picture>>, interval |-> 5],
             [items |-> <<>>, interval |-> 0],
             [items |-> <<nowhere, clip>>, interval |-> 0]}
TheListFiles == {NoList, [items |-> <<nowhere, clip, picture, picture>>,
                          interval |-> 0]}

(* Two folders and a file in each. *)

ThePaths == {<<"d">>, <<"d", "a">>, <<"e">>, <<"e", "a">>}

-----------------------------------------------------------------------------
\* Keys are interchangeable: one of them is the option, or in the file without one.
SomeKey == CHOOSE k \in Keys : TRUE

\* A part that is not in focus starts in one of its initial states only, the page
\* with a zoom that a navigation resets.
MCInit ==
    /\ Init
    /\ focus # "scheduler" => schedule.nightly = Night
    /\ focus # "actions"   => ~fileSeen
    /\ focus # "playlist"  => listFile = NoList
    /\ focus # "key"       => agentKey = Blank /\ keyOption = Blank
    /\ keyOption \in {Blank, SomeKey}
    /\ keyOption = Blank => agentKey \in {Blank, SomeKey}
    /\ focus # "scan"      => DOMAIN saved = {}
    /\ focus # "join"      => \A s \in SSIDs : kept[s] = {}
    /\ focus # "tailscale" => ~serveFile /\ ~staged /\ ~backend.joined
    /\ zoom = 2

\* Clients are interchangeable.
Symmetry == Permutations(Holders)

MCSpec == MCInit /\ [][Next]_vars
=============================================================================
