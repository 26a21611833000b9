------------------------------- MODULE Paths -------------------------------
(***************************************************************************)
(* How a file is named: the checks of core/PathUtil.cpp, the keys of the    *)
(* local database ("<root id>:<path>", "file:<name>") and the path that     *)
(* travels with an upload (SyncEngine.cpp).                                 *)
(*                                                                         *)
(* A path is the sequence of its names; "" first means that it starts with  *)
(* a slash.  Backslashes have become slashes.                               *)
(***************************************************************************)
EXTENDS Naturals, Sequences, SequencesExt

CONSTANTS
    Drives,      \* names whose second character is a colon
    Illegal,     \* names with a character Windows does not allow
    Dotted,      \* names that end in a dot or a space
    Reserved,    \* device names, with any extension
    Lower(_)     \* towlower

LowerPath(path) == [k \in DOMAIN path |-> Lower(path[k])]
SameFile(p, q) == LowerPath(p) = LowerPath(q)

-----------------------------------------------------------------------------
(* PathUtil.  A refused path is <<>>.                                      *)

hasIllegalChars(segs) == ToSet(segs) \cap Illegal # {} \/ Last(segs) \in Dotted
hasReservedName(segs) == ToSet(LowerPath(segs)) \cap Reserved # {}

Escaped == [ok |-> FALSE, segs |-> <<>>]

\* Mutant: ".." at the root is dropped.
SegmentClamped(walk, seg) ==
    IF ~walk.ok \/ seg \in {"", "."} THEN walk
    ELSE IF seg # ".." THEN [walk EXCEPT !.segs = Append(@, seg)]
    ELSE IF walk.segs = <<>> THEN walk
    ELSE [walk EXCEPT !.segs = Front(@)]

\* One name of the path: nothing, up, or down; up from the root is refused.
Segment(walk, seg) ==
    IF ~walk.ok \/ seg \in {"", "."} THEN walk
    ELSE IF seg # ".." THEN [walk EXCEPT !.segs = Append(@, seg)]
    ELSE IF walk.segs = <<>> THEN Escaped
    ELSE [walk EXCEPT !.segs = Front(@)]

normalizeRelative(in) ==
    LET walk == FoldLeft(Segment, [ok |-> TRUE, segs |-> <<>>], in)
    IN IF \/ in = <<>> \/ in[1] = "" \/ in[1] \in Drives
          \/ ~walk.ok \/ walk.segs = <<>>
          \/ hasIllegalChars(walk.segs) \/ hasReservedName(walk.segs)
       THEN <<>> ELSE walk.segs

isInsideRoot(root, path) == IsPrefix(LowerPath(root), LowerPath(path))

joinInsideRoot(root, rel) ==
    LET norm == normalizeRelative(rel)
    IN IF norm = <<>> \/ ~isInsideRoot(root, root \o norm) THEN <<>> ELSE root \o norm

-----------------------------------------------------------------------------
(* SyncEngine's path mapping.  roots: the folders, [id, path] in the order  *)
(* they are read; files: the paths of the files added one by one.           *)

NoKey == [root |-> "", path |-> <<>>]

locateInRoots(roots, files, abs) ==
    LET holding == {k \in DOMAIN roots : isInsideRoot(roots[k].path, abs)}
        same == {k \in DOMAIN files : SameFile(files[k], abs)}
        root == roots[Min(holding)]
        norm == normalizeRelative(SubSeq(abs, Len(root.path) + 1, Len(abs)))
    IN IF holding # {} THEN (IF norm = <<>> THEN NoKey ELSE [root |-> root.id, path |-> norm])
       ELSE IF same # {} THEN [root |-> "file", path |-> <<Last(files[Min(same)])>>]
       ELSE NoKey

\* Mutant: a file added by itself is taken from the first folder.
absPathForRelFolder(roots, files, key) ==
    LET root == {k \in DOMAIN roots : roots[k].id = key.root \/ key.root = "file"}
        file == {k \in DOMAIN files : <<Last(files[k])>> = key.path}
    IN IF root # {} THEN joinInsideRoot(roots[Min(root)].path, key.path)
       ELSE IF key.root = "file" /\ file # {} THEN files[Min(file)] ELSE <<>>

absPathForRel(roots, files, key) ==
    LET root == {k \in DOMAIN roots : roots[k].id = key.root}
        file == {k \in DOMAIN files : <<Last(files[k])>> = key.path}
    IN IF root # {} THEN joinInsideRoot(roots[Min(root)].path, key.path)
       ELSE IF key.root = "file" /\ file # {} THEN files[Min(file)] ELSE <<>>

\* applyRemoteFile: the row a download is for.  known: the keys of the rows, in the order
\* the database returns them, so any with the path may come first; else the first folder.
targetKeys(roots, known, norm) ==
    LET same == {key \in known : key.path = norm}
    IN IF same # {} THEN same
       ELSE IF roots # <<>> THEN {[root |-> roots[1].id, path |-> norm]} ELSE {}

\* buildFilePayload's relative_path is the key of the row, prefix and all.
metadataPath(key) == <<key.root \o ":" \o key.path[1]>> \o Tail(key.path)
=============================================================================
