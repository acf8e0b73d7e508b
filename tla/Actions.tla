------------------------------ MODULE Actions -------------------------------
(***************************************************************************)
(* The saved actions (agent/actions.go): an ordered list, kept in          *)
(* actions.json, of modes and playlists that are fired by their slug.      *)
(*                                                                         *)
(* A slug is a sequence: <<"a">> is "a", <<"a", 2>> is "a-2", <<>> is "".  *)
(* An id is a hash of the time: some unused element of Ids.  A playlist    *)
(* action carries items, and its mode is the player for its own slug.      *)
(* Every operation is one critical section of mu followed by save(), which *)
(* is PersistedState's.                                                    *)
(***************************************************************************)
EXTENDS Integers, Sequences, FiniteSets, FiniteSetsExt, Ranking

CONSTANTS
    Ids,          \* action ids, more than MaxActions
    Names,        \* names; slugify(name) is <<name>>
    Typed,        \* slugs that operators type in
    Modes,        \* modes that validate() accepts: [show |-> NoSlug, run |-> _]
    Playlists,    \* item lists that survive sanitizeItems()
    MaxActions,   \* maxActions
    MaxIndex,     \* bound: an index grows with every deletion and addition
    MaxKeys,      \* bound: keys in an order that is submitted
    Files,        \* what actions.json may hold at first
    Customs,      \* the names of the legacy custom modes, in order
    NoId, NoPlaylist

VARIABLES
    items, fileSeen,
    file          \* actions.json: <<>>, or <<what it holds>>

vars == <<items, fileSeen, file>>

NoSlug == <<>>
NoFile == <<>>

slugs(list) == {list[i].slug : i \in DOMAIN list}
ids(list)   == {list[i].id : i \in DOMAIN list}

ShowMode(slug) == [show |-> slug, run |-> "web"]

uniqueSlug(slug, taken) ==
    IF slug \notin taken THEN slug
    ELSE LET free(n) == Append(slug, n) \notin taken
         IN Append(slug, Min({n \in 2 .. Cardinality(taken) + 2 : free(n)}))

\* The slug an action asks for: its own, or that of its name.
wanted(a) == IF a.slug # NoSlug THEN a.slug ELSE <<a.name>>

modeOf(a, slug) == IF a.playlist # NoPlaylist THEN ShowMode(slug) ELSE a.mode

freshId(used) == CHOOSE i \in Ids : i \notin used

(* normalizeActions: a file, which people edit, made into a list. *)

normalized(in, i, before) ==
    LET a == in[i]
        slug == uniqueSlug(wanted(a), slugs(before))
    IN [a EXCEPT !.slug = slug, !.index = i - 1, !.mode = modeOf(a, slug),
                 !.id = IF @ = NoId THEN freshId(ids(before) \cup ids(in)) ELSE @]

normalizeActions(in) ==
    LET n == IF Len(in) > MaxActions THEN MaxActions ELSE Len(in)
        out[k \in 0 .. n] ==
            IF k = 0 THEN <<>>
            ELSE Append(out[k - 1], normalized(in, k, out[k - 1]))
    IN out[n]

(* Upsert: in place when the id is known, else at the end. *)

\* Mutation: an action of the same slug is the same action.
placeBySlug(list, in) ==
    {i \in DOMAIN list : list[i].id = in.id \/ list[i].slug = wanted(in)}

place(list, in) == {i \in DOMAIN list : in.id # NoId /\ list[i].id = in.id}

taken(list, in) == {list[i].slug : i \in DOMAIN list \ place(list, in)}

\* What Upsert answers with an error.
refused(list, in) ==
    \/ in.slug # NoSlug /\ in.slug \in taken(list, in)
    \/ place(list, in) = {} /\ Len(list) >= MaxActions

\* Mutation: one past the number of actions.
nextIndexByLength(list) == Len(list)

\* One past the highest index: deletions leave gaps.
nextIndex(list) == IF list = <<>> THEN 0
                   ELSE Max({list[i].index : i \in DOMAIN list}) + 1

upserted(list, in) ==
    LET slug == uniqueSlug(wanted(in), taken(list, in))
        new  == [in EXCEPT !.slug = slug, !.mode = modeOf(in, slug)]
    IN IF place(list, in) # {}
       THEN LET i == CHOOSE p \in place(list, in) : TRUE
            IN [list EXCEPT ![i] = [new EXCEPT !.index = list[i].index]]
       ELSE Append(list, [new EXCEPT !.id = freshId(ids(list)),
                                     !.index = nextIndex(list)])

Store(list) == items' = list /\ file' = <<list>>

Upsert(in) ==
    /\ ~refused(items, in)
    /\ nextIndex(items) <= MaxIndex
    /\ Store(upserted(items, in))
    /\ UNCHANGED fileSeen

Delete(key) ==
    LET others == Kept(items, {i \in DOMAIN items : key \notin {items[i].slug, items[i].id}})
    IN /\ others # items
       /\ Store(others)
       /\ UNCHANGED fileSeen

\* Listed actions take the positions of the list, the others follow.
position(order, a) ==
    LET at(key) == {i \in DOMAIN order : order[i] = key}
    IN IF at(a.slug) # {} THEN Max(at(a.slug)) ELSE
       IF at(a.id) # {} THEN Max(at(a.id)) ELSE 0

Reorder(order) ==
    LET pos(i) == position(order, items[i])
        rank(i) == IF pos(i) > 0 THEN pos(i)
                   ELSE Len(order) + Cardinality({j \in 1 .. i : pos(j) = 0})
        first(i, j) == rank(i) < rank(j) \/ (rank(i) = rank(j) /\ i < j)
        places == (DOMAIN items) \X (DOMAIN items)
        sorted == Arranged(DOMAIN items, {p \in places : first(p[1], p[2])})
    IN /\ Store([i \in DOMAIN items |->
                     [items[sorted[i]] EXCEPT !.index = i - 1]])
       /\ UNCHANGED fileSeen

\* load(), and Seed() from the legacy custom modes on the first run.
migrated(name) == [id |-> NoId, slug |-> <<name>>, index |-> 0, name |-> name,
                   mode |-> [show |-> NoSlug, run |-> name],
                   playlist |-> NoPlaylist]

seeded ==
    LET list[k \in 0 .. Len(Customs)] ==
            IF k = 0 THEN <<>>
            ELSE IF refused(list[k - 1], migrated(Customs[k])) THEN list[k - 1]
            ELSE upserted(list[k - 1], migrated(Customs[k]))
    IN list[Len(Customs)]

loaded(f) == IF f = NoFile THEN seeded ELSE normalizeActions(f[1])
migratedFile(f) == IF f = NoFile /\ seeded # <<>> THEN <<seeded>> ELSE f

Init ==
    \E f \in {<<list>> : list \in Files} \cup {NoFile} :
        /\ items = loaded(f)
        /\ fileSeen = (f # NoFile)
        /\ file = migratedFile(f)

Restart ==
    /\ items' = loaded(file)
    /\ fileSeen' = (file # NoFile)
    /\ file' = migratedFile(file)

Submitted ==
    [id : Ids \cup {NoId}, slug : Typed \cup {NoSlug},
     index : {0}, name : Names, mode : Modes,
     playlist : Playlists \cup {NoPlaylist}]

\* An order names actions by slug or id, some of them maybe twice.
Orders == UNION {[1 .. n -> slugs(items) \cup ids(items)] : n \in 0 .. MaxKeys}

Next ==
    \/ \E in \in Submitted : Upsert(in)
    \/ \E key \in slugs(items) \cup ids(items) : Delete(key)
    \/ \E order \in Orders : Reorder(order)
    \/ Restart

Spec == Init /\ [][Next]_vars

-----------------------------------------------------------------------------
TypeOK ==
    /\ Len(items) <= MaxActions /\ fileSeen \in BOOLEAN
    /\ \A i \in DOMAIN items : items[i].id \in Ids /\ items[i].index \in Nat

\* A slug names one action and an id one action, so that firing, deleting and
\* renaming hit what the operator meant.
Keyed ==
    \A i, j \in DOMAIN items :
        i # j => items[i].slug # items[j].slug /\ items[i].id # items[j].id

\* The slice is in display order, strictly, whatever was deleted and added: the
\* file holds the slice and load() renumbers by position, so List() is the
\* same after a restart.
OrderedSlice ==
    \A i, j \in DOMAIN items : i < j => items[i].index < items[j].index

\* A playlist action plays its own items: the player is given its slug, and
\* PlaylistInfo of that slug finds this action, after renames and repairs too.
PlaysItsOwn ==
    \A i \in DOMAIN items :
        items[i].playlist # NoPlaylist =>
            \A j \in DOMAIN items :
                items[i].mode = ShowMode(items[j].slug) <=> i = j

\* An action that is not edited or deleted keeps its id, its slug and what it
\* does, whatever happens to the others, and across restarts.
OthersUntouched ==
    [][\A i \in DOMAIN items :
           \/ \E j \in DOMAIN items' :
                  [items'[j] EXCEPT !.index = 0] = [items[i] EXCEPT !.index = 0]
           \/ \E in \in Submitted : in.id = items[i].id /\ Upsert(in)
           \/ Delete(items[i].slug)]_vars
=============================================================================
