------------------------------- MODULE Library -------------------------------
(***************************************************************************)
(* The media library (agent/library.go, type Library, and its handlers): a *)
(* tree of files and folders that requests upload to, move and delete,     *)
(* with no lock.  An upload is streamed into <name>.uploading beside its   *)
(* target and renamed when it is complete; the agent may be killed before. *)
(*                                                                         *)
(* An open file is its inode, whatever becomes of its name: an upload goes *)
(* on writing there.  Content is who wrote each chunk.  Names that are not *)
(* safe, requests that name an .uploading file, symbolic links, sizes and  *)
(* the listing are left out.                                               *)
(***************************************************************************)
EXTENDS Integers, Sequences, SequencesExt

CONSTANTS
    Uploaders,   \* requests
    Paths,       \* sequences of names, with their parents
    Inodes,      \* files, reused when nothing refers to them
    Chunks,      \* of an upload
    MaxCalls,    \* bound: requests in a behaviour
    Dir, Absent, Nobody

VARIABLES
    tree,      \* each path: Dir, an inode or Absent
    partial,   \* each path: the inode of <path>.uploading, or Absent
    content,   \* each inode: the writer of each chunk
    open,      \* each uploader: its target, its inode, the next chunk
    moving,    \* the checked rename: from and to, or none
    calls,
    crowded    \* history: two uploads wrote one file, or one renamed another's

vars == <<tree, partial, content, open, moving, calls, crowded>>

Closed == [path |-> <<>>, inode |-> Absent, next |-> 1]
uploading(u) == open[u].inode # Absent
blank == [k \in 1..Chunks |-> Nobody]

NewLibrary ==
    /\ tree = [p \in Paths |-> Absent] /\ partial = [p \in Paths |-> Absent]
    /\ content = [i \in Inodes |-> blank]
    /\ open = [u \in Uploaders |-> Closed] /\ moving = <<>>
    /\ calls = 0 /\ crowded = FALSE

\* dirAbs: the folder a path is in; the root is there.
dirAbs(p) == Front(p) \in {<<>>} \cup {q \in Paths : tree[q] = Dir}
below(p)  == {q \in Paths : IsStrictPrefix(p, q)}
empty(p)  == \A q \in below(p) : tree[q] = Absent /\ partial[q] = Absent

free == {i \in Inodes : /\ \A p \in Paths : i \notin {tree[p], partial[p]}
                        /\ \A u \in Uploaders : open[u].inode # i}
fresh == CHOOSE i \in free : TRUE

opened(u, p, i) ==
    /\ open' = [open EXCEPT ![u] = [path |-> p, inode |-> i, next |-> 1]]
    /\ content' = [content EXCEPT ![i] = blank]
    /\ crowded' = (crowded \/ \E o \in Uploaders \ {u} : open[o].inode = i)

(* SaveFile *)

\* The partial file is created, or the one that is there truncated.
Create(u, p) ==
    /\ ~uploading(u) /\ dirAbs(p)
    /\ partial[p] = Absent => free # {}
    /\ LET i == IF partial[p] = Absent THEN fresh ELSE partial[p] IN
           opened(u, p, i) /\ partial' = [partial EXCEPT ![p] = i]
    /\ UNCHANGED <<tree, moving>>

Copy(u) ==
    /\ uploading(u) /\ open[u].next <= Chunks
    /\ content' = [content EXCEPT ![open[u].inode][open[u].next] = u]
    /\ open' = [open EXCEPT ![u].next = @ + 1]
    /\ UNCHANGED <<tree, partial, moving, calls, crowded>>

closes(u) ==
    /\ open' = [open EXCEPT ![u] = Closed]
    /\ partial' = [partial EXCEPT ![open[u].path] = Absent]

\* A broken stream, a full disk, a file over the limit: the partial is removed.
CopyFails(u) ==
    /\ uploading(u) /\ closes(u)
    /\ UNCHANGED <<tree, content, moving, calls, crowded>>

\* The partial, whosever it is by now, is renamed over the target.  Where there
\* is none, or a folder has the name, the upload fails.
SaveFile(u) ==
    LET p == open[u].path IN
    /\ uploading(u) /\ open[u].next > Chunks /\ closes(u)
    /\ tree' = IF partial[p] = Absent \/ tree[p] = Dir THEN tree
               ELSE [tree EXCEPT ![p] = partial[p]]
    /\ crowded' = (crowded \/ partial[p] \notin {Absent, open[u].inode})
    /\ UNCHANGED <<content, moving, calls>>

(* Folders, moves and deletions *)

Mkdir(p) ==
    /\ dirAbs(p) /\ tree[p] = Absent
    /\ tree' = [tree EXCEPT ![p] = Dir]
    /\ UNCHANGED <<partial, content, open, moving, crowded>>

\* Rename: the source is there and the target is not ...
Rename(p, q) ==
    /\ moving = <<>> /\ tree[p] # Absent /\ tree[q] = Absent
    /\ moving' = <<p, q>>
    /\ UNCHANGED <<tree, partial, content, open, crowded>>

\* ... when it looked.  A file replaces a file, a folder an empty folder, and a
\* folder takes along what is below it.
movable(p, q) ==
    /\ tree[p] # Absent /\ dirAbs(q) /\ q \notin below(p)
    /\ IF tree[p] = Dir THEN tree[q] \in {Dir, Absent} /\ empty(q)
                        ELSE tree[q] # Dir

moved(f, p, q, X) ==
    [x \in Paths |->
        CASE x \in X /\ IsPrefix(q, x) -> f[p \o SubSeq(x, Len(q) + 1, Len(x))]
          [] x \in X /\ IsPrefix(p, x) -> Absent
          [] OTHER -> f[x]]

MoveItem ==
    LET p == moving[1]
        q == moving[2]
    IN /\ moving # <<>> /\ moving' = <<>>
       /\ IF movable(p, q)
          THEN /\ tree' = moved(tree, p, q, {p, q} \cup below(p) \cup below(q))
               /\ partial' = moved(partial, p, q, below(p) \cup below(q))
          ELSE UNCHANGED <<tree, partial>>
       /\ UNCHANGED <<content, open, calls, crowded>>

\* A folder that is not empty goes only with what is below it.
Delete(p, recurse) ==
    /\ tree[p] # Absent
    /\ tree[p] = Dir => recurse \/ empty(p)
    /\ tree' = [x \in Paths |-> IF x \in {p} \cup below(p) THEN Absent ELSE tree[x]]
    /\ partial' = [x \in Paths |-> IF x \in below(p) THEN Absent ELSE partial[x]]
    /\ UNCHANGED <<content, open, moving, crowded>>

\* The partial files stay; nothing looks for them at the start.
Crash ==
    /\ open' = [u \in Uploaders |-> Closed] /\ moving' = <<>>
    /\ UNCHANGED <<tree, partial, content, calls, crowded>>

(* The requests: one part of an upload, or one operation. *)

call == calls < MaxCalls /\ calls' = calls + 1

handleLibraryUpload(u, p)       == call /\ Create(u, p)
handleLibraryMkdir(p)           == call /\ Mkdir(p)
handleLibraryRename(p, q)       == call /\ Rename(p, q)
handleLibraryDelete(p, recurse) == call /\ Delete(p, recurse)

Next ==
    \/ MoveItem \/ Crash
    \/ \E u \in Uploaders :
           \/ \E p \in Paths : handleLibraryUpload(u, p)
           \/ Copy(u) \/ CopyFails(u) \/ SaveFile(u)
    \/ \E p \in Paths :
           \/ handleLibraryMkdir(p)
           \/ \E recurse \in BOOLEAN : handleLibraryDelete(p, recurse)
           \/ \E q \in Paths : Len(p) = Len(q) /\ handleLibraryRename(p, q)

Spec == NewLibrary /\ [][Next]_vars

-----------------------------------------------------------------------------
TypeOK ==
    /\ tree \in [Paths -> Inodes \cup {Dir, Absent}]
    /\ partial \in [Paths -> Inodes \cup {Absent}]
    /\ content \in [Inodes -> [1..Chunks -> Uploaders \cup {Nobody}]]
    /\ calls \in 0..MaxCalls
    /\ \A p \in Paths : tree[p] # Absent => dirAbs(p)

\* A name in the library holds one whole upload, through failures, crashes and
\* moved folders, unless two uploads wrote one file, or an upload whose folder
\* was moved or removed found the partial of another under its name (SaveFile).
FilesAreWhole ==
    crowded \/ \A p \in Paths :
        \/ tree[p] \in {Dir, Absent}
        \/ \E u \in Uploaders : \A k \in 1..Chunks : content[tree[p]][k] = u
=============================================================================
