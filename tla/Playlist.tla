------------------------------- MODULE Playlist -------------------------------
(***************************************************************************)
(* The media playlist (agent/playlist.go, type Playlist) and its handler:  *)
(* a submission is cleaned, replaces the list under mu, and is saved under *)
(* saveMu from what the list is by then; with "play" the kiosk is pointed  *)
(* at the player, which fetches the list.  The agent may be killed at any  *)
(* point, and playlist.json may have been edited by hand.                  *)
(***************************************************************************)
EXTENDS Integers, Sequences, Ranking

CONSTANTS
    Requests,      \* POST /api/playlist-media
    Submissions,   \* what they bring: [items, interval]
    Files,         \* contents playlist.json may have at the first start
    MaxItems,      \* maxPlaylistItems
    Interval,      \* the default interval, 8 seconds
    MaxPosts,      \* bound: posts in a behaviour
    NoId, NoOne, NoList

VARIABLES
    list,      \* the list in memory
    file,      \* playlist.json, or NoList
    saver,     \* the holder of saveMu
    snap,      \* each request: the list that it writes
    pc,        \* idle, save, write, play
    playing,   \* the kiosk was pointed at the player
    posts,
    stale      \* history: the last save that ended failed

vars == <<list, file, saver, snap, pc, playing, posts, stale>>

-----------------------------------------------------------------------------
(* An item is [kind, src, id, seconds]; a source is relative to the        *)
(* library, an http(s) URL, or neither.                                    *)

playlistKinds == {"image", "video", "audio", "doc"}
histID(i)     == <<i.kind, i.src>>
playable(i)   == i.kind \in playlistKinds /\ i.src.type \in {"library", "url"}

sanitized(i) == [i EXCEPT !.id = IF @ = NoId THEN histID(i) ELSE @,
                          !.seconds = IF @ < 0 THEN 0 ELSE @]

sanitizeItems(items) ==
    LET kept == Kept(items, {n \in DOMAIN items : playable(items[n])}) IN
    [n \in 1..(IF Len(kept) < MaxItems THEN Len(kept) ELSE MaxItems) |->
        sanitized(kept[n])]

clean(c) == [items    |-> sanitizeItems(c.items),
             interval |-> IF c.interval < 1 THEN Interval ELSE c.interval]

Fresh == [items |-> <<>>, interval |-> Interval]
load(f) == IF f = NoList THEN Fresh ELSE clean(f)

NewPlaylist ==
    /\ file \in Files /\ list = load(file)
    /\ saver = NoOne /\ snap = [r \in Requests |-> NoList]
    /\ pc = [r \in Requests |-> "idle"]
    /\ playing = FALSE /\ posts = 0 /\ stale = (file # list)

at(r, from, to) == pc[r] = from /\ pc' = [pc EXCEPT ![r] = to]

Set(r, c) ==
    /\ posts < MaxPosts /\ posts' = posts + 1
    /\ at(r, "idle", "save") /\ list' = clean(c)
    /\ UNCHANGED <<file, saver, snap, playing, stale>>

\* save: under saveMu, the list of this moment ...
Snapshot(r) ==
    /\ saver = NoOne /\ saver' = r
    /\ at(r, "save", "write") /\ snap' = [snap EXCEPT ![r] = list]
    /\ UNCHANGED <<list, file, playing, posts, stale>>

ended(r) == saver' = NoOne /\ snap' = [snap EXCEPT ![r] = NoList]

\* ... is written beside playlist.json and renamed over it.
save(r) ==
    /\ at(r, "write", "play") /\ file' = snap[r] /\ ended(r) /\ stale' = FALSE
    /\ UNCHANGED <<list, playing, posts>>

SaveFails(r) ==
    /\ at(r, "write", "play") /\ ended(r) /\ stale' = TRUE
    /\ UNCHANGED <<list, file, playing, posts>>

\* With "play", unless the list is empty by now.
handlePlaylistMedia(r, play) ==
    /\ at(r, "play", "idle")
    /\ playing' = (playing \/ (play /\ list.items # <<>>))
    /\ UNCHANGED <<list, file, saver, snap, posts, stale>>

Restart ==
    /\ list' = load(file) /\ stale' = (file # list')
    /\ saver' = NoOne /\ snap' = [r \in Requests |-> NoList]
    /\ pc' = [r \in Requests |-> "idle"]
    /\ UNCHANGED <<file, playing, posts>>

Next ==
    \/ Restart
    \/ \E r \in Requests :
           \/ \E c \in Submissions : Set(r, c)
           \/ Snapshot(r) \/ save(r) \/ SaveFails(r)
           \/ \E play \in BOOLEAN : handlePlaylistMedia(r, play)

Spec == NewPlaylist /\ [][Next]_vars

-----------------------------------------------------------------------------
TypeOK ==
    /\ Len(list.items) <= MaxItems /\ list.interval \in Nat \ {0}
    /\ \A n \in DOMAIN list.items :
           LET i == list.items[n] IN playable(i) /\ i.id # NoId /\ i.seconds \in Nat
    /\ saver \in Requests \cup {NoOne} /\ playing \in BOOLEAN
    /\ pc \in [Requests -> {"idle", "save", "write", "play"}]

\* When nobody saves, playlist.json holds the list, in whatever order requests
\* changed and saved it, unless the last write failed (save).
PlaylistSettles ==
    (\A r \in Requests : pc[r] \in {"idle", "play"}) /\ ~stale => file = list
=============================================================================
