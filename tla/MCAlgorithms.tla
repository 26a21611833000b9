---------------------------- MODULE MCAlgorithms ----------------------------
(***************************************************************************)
(* The pure algorithms of plugin/src/core on small inputs: a state is an    *)
(* input of one of them, and the invariants compare what the code makes of  *)
(* it with what it is meant to be.                                          *)
(***************************************************************************)
EXTENDS Integers, Sequences, SequencesExt

VARIABLE input

UpTo(n, S) == UNION {[1..k -> S] : k \in 0..n}

-----------------------------------------------------------------------------
(* Three-way merge.                                                        *)
M == INSTANCE Merge

Text(lines, eol, closed) ==
    [k \in DOMAIN lines |-> [line |-> lines[k],
                             end |-> IF k = Len(lines) /\ ~closed THEN "none" ELSE eol]]
LongTexts == {Text(lines, "lf", TRUE) : lines \in UpTo(3, {1, 2, 3})}
ShortTexts == {Text(lines, eol, closed) :
                  lines \in UpTo(2, {1, 2}), eol \in {"lf", "crlf"}, closed \in BOOLEAN}

PickMerge(Texts) ==
    \E b, l, r \in Texts : input' = [kind |-> "merge", base |-> b, local |-> l, remote |-> r]

Merged == M!merge(input.base, input.local, input.remote)

\* Merge.h:6 "never discards content silently": a clean merge keeps every line that one
\* side inserted and every line neither deleted, invents none, and never picks a side
\* where both changed the same place differently.
MergeExplained ==
    input.kind = "merge" /\ Merged.clean =>
       M!Explained(M!Lines(input.base), M!Lines(input.local), M!Lines(input.remote),
                   M!Lines(Merged.merged), "none")

\* Two devices that merge the same edits, each taking its own for the local ones, get the
\* same text to the line ends, or both a conflict with the same hunks.
MergeSymmetric ==
    input.kind = "merge" =>
       LET other == M!merge(input.base, input.remote, input.local) IN
       /\ Merged.clean = other.clean
       /\ Merged.merged = other.merged
       /\ Len(Merged.hunks) = Len(other.hunks)
       /\ \A k \in DOMAIN Merged.hunks :
             /\ Merged.hunks[k].local = other.hunks[k].remote
             /\ Merged.hunks[k].local # Merged.hunks[k].remote

-----------------------------------------------------------------------------
(* Ignore rules.                                                           *)
I == INSTANCE IgnoreRules

PickGlob ==
    \E pat \in UpTo(4, {"a", "*", "?", "/"}) : \E str \in UpTo(4, {"a", "b", "/"}) :
       input' = [kind |-> "glob", pat |-> pat, str |-> str]

\* What globMatch accepts, the pattern means, and a pattern of letters, slashes and single
\* stars matches all it means: going back to the last star only is enough for them.
GlobExact ==
    input.kind = "glob" =>
       LET matched == I!globMatch(input.pat, input.str)
           meant == I!Glob(input.pat, input.str)
       IN /\ matched => meant
          /\ \/ Contains(input.pat, "?") \/ \E k \in DOMAIN input.pat : I!Stars(input.pat, k) = 2
             \/ meant => matched

PickRules ==
    \E line1, line2 \in UpTo(3, {"a", "*", "/", "!"}) :
    \E dir \in {<<"a">>, <<"b">>, <<"a", "/", "b">>} : \E leaf \in {<<"a">>, <<"b">>} :
       input' = [kind |-> "rules", dir |-> dir, file |-> dir \o <<"/">> \o leaf,
                 rules |-> SelectSeq(<<I!parse(line1), I!parse(line2)>>,
                                     LAMBDA rule : rule # I!NoRule)]

\* IgnoreRules.cpp:74 "node_modules/ ignores node_modules/src/index.js too": what lies in
\* an ignored directory is ignored, unless a rule takes that very file back.
DirectoryCoversContents ==
    input.kind = "rules" /\ I!ignored(input.rules, input.dir, TRUE) =>
       \/ I!ignored(input.rules, input.file, FALSE)
       \/ \E k \in DOMAIN input.rules :
             /\ input.rules[k].negate
             /\ I!matchRule(input.rules[k], input.file, FALSE)
             /\ ~I!matchRule(input.rules[k], input.dir, TRUE)

-----------------------------------------------------------------------------
(* Paths and keys.                                                         *)

Names == {"x", "X", "a"}
LowerName(name) == IF name = "X" THEN "x" ELSE IF name = "CON" THEN "con" ELSE name
P == INSTANCE Paths WITH
        Drives <- {"c:"}, Dotted <- {"a."}, Reserved <- {"con"}, Lower <- LowerName,
        Illegal <- {"c:"} \cup {r \o ":" \o n : r \in {"r1", "r2", "file"}, n \in Names}

PickPath ==
    \E path \in UpTo(4, {"", ".", "..", "x", "X", "c:", "a.", "CON"}) :
       input' = [kind |-> "path", path |-> path]

\* Where the names of a path lead, one after the other.
Resolve(path) ==
    LET step(at, name) == IF name \in {"", "."} \/ (name = ".." /\ at = <<>>) THEN at
                          ELSE IF name = ".." THEN Front(at) ELSE Append(at, name)
    IN FoldLeft(step, <<>>, path)

\* A path that is let through leads, below any folder, where it says and nowhere else,
\* with names Windows takes, and normalising it again changes nothing.
NormalizedInside ==
    input.kind = "path" =>
       LET norm == P!normalizeRelative(input.path)
           root == <<"d", "a">>
       IN norm # <<>> =>
             /\ P!normalizeRelative(norm) = norm
             /\ P!joinInsideRoot(root, input.path) = root \o norm
             /\ Resolve(root \o input.path) = root \o norm

Folders == {<<"d">>, <<"d", "a">>, <<"e">>}
SingleFiles == {<<"f", "x">>, <<"g", "X">>, <<"g", "x">>}
PickFile ==
    \E paths \in UpTo(2, Folders) : \E files \in UpTo(2, SingleFiles) :
    \E abs \in SingleFiles \cup {f \o rel : f \in Folders, rel \in UpTo(2, Names) \ {<<>>}} :
       input' = [kind |-> "file", abs |-> abs, files |-> files,
                 roots |-> [k \in DOMAIN paths |-> [id |-> <<"r1", "r2">>[k], path |-> paths[k]]]]

\* Two files added one by one have the same key if they have the same name.
DistinctNames ==
    \A j, k \in DOMAIN input.files :
       j # k => LowerName(Last(input.files[j])) # LowerName(Last(input.files[k]))
Nested ==
    \E j, k \in DOMAIN input.roots :
       j # k /\ P!isInsideRoot(input.roots[j].path, input.roots[k].path)

Key == P!locateInRoots(input.roots, input.files, input.abs)
Abs(key) == P!absPathForRel(input.roots, input.files, key)

\* The key under which a file is queued and recorded leads back to the file, wherever the
\* folders lie.  A download is written where the watcher, which sees the write, finds the
\* row again: else it would be uploaded as another file.  Files added one by one that have
\* the same name break both, folders inside folders the second.
KeysNameFiles ==
    input.kind = "file" /\ Key # P!NoKey /\ DistinctNames =>
       /\ P!SameFile(Abs(Key), input.abs)
       /\ Nested \/ \A known \in {{}, {Key}} :
             \A key \in P!targetKeys(input.roots, known, Key.path) :
                Abs(key) # <<>> => P!locateInRoots(input.roots, input.files, Abs(key)) = key

\* SyncEngine.cpp:1104 "metadata path is the plain relative path": the path an upload
\* carries passes the check of the computers that download it.
UploadedPathsAccepted ==
    input.kind = "file" /\ Key # P!NoKey => P!normalizeRelative(P!metadataPath(Key)) # <<>>

-----------------------------------------------------------------------------
(* Version vectors.                                                        *)
V == INSTANCE VersionVector

Vectors == UNION {[D -> 0..2] : D \in SUBSET {"d", "e"}}
PickVectors == \E v, o \in Vectors : input' = [kind |-> "vectors", v |-> v, o |-> o]

\* dominates, bump and merge of VersionVector.cpp keep the order of the counts: see
\* VersionVector's Ordered, which VersionVectorProofs proves for all vectors.
VectorsOrdered ==
    input.kind = "vectors" => \A w \in Vectors : V!Ordered(input.v, input.o, w, "d")

-----------------------------------------------------------------------------
(* Base64 and codes that are typed.                                        *)
C == INSTANCE Codes

PickBytes == \E data \in UpTo(5, {0, 1, 128, 255}) : input' = [kind |-> "bytes", data |-> data]

\* How people type what they are shown.
Lowercase(text) ==
    [k \in DOMAIN text |-> IF text[k] \in C!Letters THEN C!Lowered(text[k]) ELSE text[k]]
Undashed(text) == SelectSeq(text, LAMBDA c : c # C!Dash)
Typed(text) == {text, Lowercase(text), Undashed(text), <<C!Dash>> \o Lowercase(Undashed(text))}

PickCode(kind, length, values) ==
    \E place \in {1, 4, 5, length} : \E value \in values : \E rest \in {0, 12, 30} :
       input' = [kind |-> kind, code |-> [k \in 1..length |-> IF k = place THEN value ELSE rest]]

\* What is written down comes back.  A secret survives base64url at every length, with the
\* accumulator's high bits overflowing.  A recovery key can be typed in again exactly if
\* none of its 20 bytes is 31 modulo 32: the alphabet has 31 characters, and the place
\* behind it holds the end of the string.  KeySetup.h:18 "the computer that types the code
\* and the computer that shows it derive the same wrapping key": however a pairing code is
\* typed it becomes the one that was shown, and with a character of no alphabet none.
CodesReadBack ==
    CASE input.kind = "bytes" -> C!base64UrlDecode(C!base64UrlEncode(input.data)) = input.data
      [] input.kind = "recovery" ->
            LET text == C!generateRecoveryKey(input.code) IN
            \A typed \in Typed(C!Shown(text)) :
               (C!normalizeRecoveryKey(typed) = text) <=>
                  (\A k \in DOMAIN input.code : input.code[k] % 32 # 31)
      [] input.kind = "pairing" ->
            LET shown == C!Grouped(input.code) IN
            \A typed \in Typed(shown) :
               C!normalizePairingCode(typed) = IF Contains(input.code, C!Other) THEN <<>> ELSE shown
      [] OTHER -> TRUE

-----------------------------------------------------------------------------
Init == input = [kind |-> "none"]
Next ==
    /\ input.kind = "none"
    /\ \/ PickMerge(LongTexts) \/ PickMerge(ShortTexts)
       \/ PickGlob \/ PickRules \/ PickPath \/ PickFile \/ PickVectors \/ PickBytes
       \/ PickCode("recovery", 20, {0, 11, 22, 30, 31, 32, 62, 63, 255})
       \/ PickCode("pairing", 8, {0, 11, 22, 30, C!Other})
Spec == Init /\ [][Next]_input
=============================================================================
