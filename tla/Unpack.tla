------------------------------- MODULE Unpack -------------------------------
(***************************************************************************)
(* image-rs's unpacking of a layer's tar archive into a directory that     *)
(* overlayfs will stack: the entries one by one, whiteouts converted to    *)
(* the form of overlayfs, owners, modes and times restored.                *)
(*                                                                         *)
(* A path is a sequence of names.  A directory tree maps the paths below   *)
(* the destination to nodes; of a node's attributes the model keeps        *)
(* whether they are the archive header's.                                  *)
(***************************************************************************)
EXTENDS Integers, Sequences, FiniteSets

CONSTANT Failed    \* the result of a call that fails

Parent(path) == SubSeq(path, 1, Len(path) - 1)
FileName(path) == path[Len(path)]
Ancestors(path) == {SubSeq(path, 1, n) : n \in 1..(Len(path) - 1)}

Opaque == ".wh..wh..opq"
\* The names with the whiteout prefix, and what follows it.
Stripped == [name \in {".wh.a", ".wh.d", Opaque} |->
                CASE name = ".wh.a" -> "a" [] name = ".wh.d" -> "d" [] name = Opaque -> ".wh..opq"]
IsWhiteout(name) == name \in DOMAIN Stripped

\* The path that a whiteout at path hides.
Target(path) == Append(Parent(path), Stripped[FileName(path)])

\* A node: owner, mode and times are the header's, or not yet.
Node(kind, restored) == [kind |-> kind, opaque |-> FALSE, mtime |-> restored, perms |-> restored]

\* Whether a file can be created at path: its parent is a directory.
InDirectory(tree, path) == Len(path) = 1 \/ (Parent(path) \in DOMAIN tree
                                             /\ tree[Parent(path)].kind = "dir")

\* A new name in a directory changes the directory's mtime.
Put(tree, path, node) ==
    [p \in DOMAIN tree \cup {path} |->
        IF p = path THEN node
        ELSE IF p = Parent(path) /\ path \notin DOMAIN tree
             THEN [tree[p] EXCEPT !.mtime = FALSE] ELSE tree[p]]

-----------------------------------------------------------------------------
(* tokio_tar's unpack_in: missing parents are created, those that are there *)
(* have to be directories, a file replaces what is not a directory, and a   *)
(* directory may be there already.                                          *)

\* Each parent that is missing, from the top.
Parents(tree, path) ==
    LET missing == Ancestors(path) \ DOMAIN tree
    IN [p \in DOMAIN tree \cup missing |->
            IF p \in missing THEN Node("dir", FALSE) ELSE tree[p]]

UnpackIn(tree, e) ==
    LET t == Parents(tree, e.path)
        there == e.path \in DOMAIN t
    IN IF \E q \in Ancestors(e.path) : t[q].kind # "dir" THEN Failed
       ELSE IF e.kind = "dir"
            THEN IF ~there THEN Put(t, e.path, Node("dir", TRUE))
                 ELSE IF t[e.path].kind = "dir" THEN t ELSE Failed
            ELSE IF there /\ t[e.path].kind = "dir" THEN Failed
                 ELSE Put(t, e.path, Node(e.kind, TRUE))

-----------------------------------------------------------------------------
(* unpack.rs.                                                               *)

\* set_perms_ownerships: chown, which clears the SUID bits and changes the
\* times, then chmod.  Only the mode is the header's afterwards.
SetPermsOwnerships(tree, path) == [tree EXCEPT ![path].perms = TRUE, ![path].mtime = FALSE]

\* An opaque marker becomes an attribute of the directory that holds it; a
\* whiteout becomes a character device, whose parent must be there and whose
\* name must be free.
WhiteoutOnly(tree, path) ==
    LET target == Target(path)
    IN IF target \in DOMAIN tree \/ ~InDirectory(tree, target) THEN Failed
       ELSE SetPermsOwnerships(Put(tree, target, Node("whiteout", FALSE)), target)
ConvertWhiteout(tree, path) ==
    IF FileName(path) = Opaque
    THEN IF Len(path) = 1 THEN tree
         ELSE IF Parent(path) \in DOMAIN tree
              THEN [tree EXCEPT ![Parent(path)].opaque = TRUE] ELSE Failed
    ELSE LET target == Target(path)
         IN IF target \in DOMAIN tree \/ ~InDirectory(tree, target) THEN Failed
            ELSE SetPermsOwnerships(Put(tree, target, Node("whiteout", FALSE)), target)

\* One entry.  Its owner and mode are set again, and the mtime of what is
\* neither a directory nor a link.  To set a file's owner it is opened for
\* writing, which for a FIFO waits for a reader.
IsConverted(e, xattrs) == xattrs /\ IsWhiteout(FileName(e.path))
UnpackEntry(tree, e, xattrs) ==
    IF IsConverted(e, xattrs) THEN ConvertWhiteout(tree, e.path)
    ELSE LET t == UnpackIn(tree, e)
         IN IF t = Failed \/ e.kind = "link" THEN t
            ELSE IF e.kind = "dir" THEN SetPermsOwnerships(t, e.path)
                 ELSE [SetPermsOwnerships(t, e.path) EXCEPT ![e.path].mtime = TRUE]

OpenBlocks(e) == e.kind = "fifo"

\* The tree after each of an archive's first entries.
TreeAfter(tar, xattrs) ==
    LET tree[n \in 0..Len(tar)] ==
            IF n = 0 THEN <<>>
            ELSE IF tree[n - 1] = Failed THEN Failed ELSE UnpackEntry(tree[n - 1], tar[n], xattrs)
    IN tree

\* After the last entry the times of the archive's directories are restored.
SetTimesAtOnce(tree, dirs) == tree
SetDirTimes(tree, dirs) == [p \in DOMAIN tree |->
                                IF p \in dirs THEN [tree[p] EXCEPT !.mtime = TRUE] ELSE tree[p]]

-----------------------------------------------------------------------------
(* What the directory is for.                                               *)

\* overlayfs: what is seen of a lower tree through an unpacked layer.
SeenThrough(upper, p) ==
    /\ \A q \in Ancestors(p) \cup {p} : q \in DOMAIN upper => upper[q].kind = "dir"
    /\ \A q \in Ancestors(p) : q \in DOMAIN upper => ~upper[q].opaque

Overlay(lower, upper) ==
    {<<p, "upper">> : p \in {q \in DOMAIN upper : upper[q].kind # "whiteout"}}
        \cup {<<p, "lower">> : p \in {q \in lower : q \notin DOMAIN upper /\ SeenThrough(upper, q)}}

\* The image specification: what a layer, as a changeset, makes of the tree
\* below it.  A whiteout hides a path of the layers below and all under it, an
\* opaque marker what is under its directory, and a file what was a directory;
\* nothing of the same layer is hidden.
Plain(entries) == {e \in entries : ~IsWhiteout(FileName(e.path))}
Added(entries) == UNION {Ancestors(e.path) \cup {e.path} : e \in Plain(entries)}
Removed(entries) == {Target(e.path) : e \in {x \in entries \ Plain(entries) : FileName(x.path) # Opaque}}
NoDirs(entries) == {e.path : e \in {x \in Plain(entries) : x.kind # "dir"}}
Emptied(entries) == {Parent(e.path) : e \in {x \in entries : FileName(x.path) = Opaque}}
Changeset(lower, tar) ==
    LET entries == {tar[i] : i \in DOMAIN tar}
        Hidden(p) == \/ (Ancestors(p) \cup {p}) \cap (Removed(entries) \cup NoDirs(entries)) # {}
                     \/ (Ancestors(p) \cup {<<>>}) \cap Emptied(entries) # {}
    IN {<<p, "upper">> : p \in Added(entries)}
           \cup {<<p, "lower">> : p \in {q \in lower : q \notin Added(entries) /\ ~Hidden(q)}}

\* overlayfs does not ask whether a layer's own root is opaque.
MarksRoot(tar) == \E i \in DOMAIN tar : tar[i].path = <<Opaque>>
=============================================================================
