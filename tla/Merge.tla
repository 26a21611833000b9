------------------------------- MODULE Merge -------------------------------
(***************************************************************************)
(* The three-way merge of core/Merge.cpp.  A text is a sequence of lines,   *)
(* each with its end: "lf", "crlf" or, for the last line only, "none".      *)
(*                                                                         *)
(* diffLines and the sweep are written by what their loops compute: the     *)
(* matched pairs of lines, the edits between them, the regions in which     *)
(* edits of the two sides touch.                                            *)
(***************************************************************************)
EXTENDS Integers, Sequences, SequencesExt

\* splitLines: the lines, and the end that prevails; CRLF if there is none.
Lines(text) == [k \in DOMAIN text |-> text[k].line]
Ends(text, eol) == {k \in DOMAIN text : text[k].end = eol}
Eol(text) == IF Cardinality(Ends(text, "crlf")) >= Cardinality(Ends(text, "lf"))
             THEN "crlf" ELSE "lf"

\* The table of diffLines: the length of the longest common subsequence from i and j on.
Lcs(from, to) ==
    LET at[i \in 1..Len(from) + 1, j \in 1..Len(to) + 1] ==
          IF i > Len(from) \/ j > Len(to) THEN 0
          ELSE IF from[i] = to[j] THEN at[i + 1, j + 1] + 1
          ELSE Max({at[i + 1, j], at[i, j + 1]})
    IN at

\* The lines its backtracking walk takes for unchanged; a deletion goes first.
Matched(from, to) ==
    LET at == Lcs(from, to)
        walk[i \in 1..Len(from) + 1, j \in 1..Len(to) + 1] ==
          IF i > Len(from) \/ j > Len(to) THEN {}
          ELSE IF from[i] = to[j] THEN {<<i, j>>} \cup walk[i + 1, j + 1]
          ELSE IF at[i + 1, j] >= at[i, j + 1] THEN walk[i + 1, j]
          ELSE walk[i, j + 1]
    IN walk[1, 1]

\* An edit replaces the lines from start up to, not including, end.
diffLines(from, to) ==
    LET matched == Matched(from, to) \cup {<<0, 0>>}
        next(p) == CHOOSE q \in matched \cup {<<Len(from) + 1, Len(to) + 1>>} :
                      /\ q[1] > p[1]
                      /\ \A r \in matched : r[1] > p[1] => r[1] >= q[1]
    IN {[start |-> p[1] + 1, end |-> next(p)[1], lines |-> SubSeq(to, p[2] + 1, next(p)[2] - 1)] :
           p \in {p \in matched : next(p) # <<p[1] + 1, p[2] + 1>>}}

\* The end of the region that starts with the first of edits.
RECURSIVE RegionEnd(_, _)
RegionEnd(edits, end) ==
    LET grown == Max({end} \cup {e.end : e \in {e \in edits : e.start <= end}})
    IN IF grown = end THEN end ELSE RegionEnd(edits, grown)

First(edits) == CHOOSE e \in edits : \A f \in edits : e.start <= f.start

\* build: base from start up to end with the edits made.
RECURSIVE Build(_, _, _, _)
Build(base, edits, start, end) ==
    IF edits = {} THEN SubSeq(base, start, end - 1)
    ELSE LET e == First(edits) IN
         SubSeq(base, start, e.start - 1) \o e.lines \o Build(base, edits \ {e}, e.end, end)

\* Mutant: the local side wins where both changed a region.
ChosenLocal(l, r, onlyL, onlyR) ==
    IF l = r \/ ~onlyR THEN [lines |-> l, hunks |-> <<>>] ELSE [lines |-> r, hunks |-> <<>>]

\* One region: the side that changed it, or both if they agree; a conflict otherwise.
Chosen(l, r, onlyL, onlyR) ==
    IF l = r \/ onlyL THEN [lines |-> l, hunks |-> <<>>]
    ELSE IF onlyR THEN [lines |-> r, hunks |-> <<>>]
    ELSE [lines |-> <<>>, hunks |-> <<[local |-> l, remote |-> r]>>]

\* The sweep over base from pos on.
RECURSIVE Sweep(_, _, _, _)
Sweep(base, pos, editsL, editsR) ==
    IF editsL \cup editsR = {}
    THEN [lines |-> SubSeq(base, pos, Len(base)), hunks |-> <<>>]
    ELSE LET start == First(editsL \cup editsR).start
             end == RegionEnd(editsL \cup editsR, start)
             inL == {e \in editsL : e.start <= end}
             inR == {e \in editsR : e.start <= end}
             here == Chosen(Build(base, inL, start, end), Build(base, inR, start, end),
                            inR = {}, inL = {})
             rest == Sweep(base, end, editsL \ inL, editsR \ inR)
         IN [lines |-> SubSeq(base, pos, start - 1) \o here.lines \o rest.lines,
             hunks |-> here.hunks \o rest.hunks]

WithEol(lines, eol) == [k \in DOMAIN lines |-> [line |-> lines[k], end |-> eol]]

\* Mutant: joined with the line ends of the remote text.
JoinRemote(base, local, remote, lines) == WithEol(lines, Eol(remote))

Join(base, local, remote, lines) == WithEol(lines, Eol(base))

\* ThreeWayMerge::merge.  The budget kMaxAutoMergeCells is out of these bounds.
merge(base, local, remote) ==
    IF local = remote \/ remote = base THEN [clean |-> TRUE, merged |-> local, hunks |-> <<>>]
    ELSE IF local = base THEN [clean |-> TRUE, merged |-> remote, hunks |-> <<>>]
    ELSE LET b == Lines(base)
             sweep == Sweep(b, 1, diffLines(b, Lines(local)), diffLines(b, Lines(remote)))
         IN [clean |-> sweep.hunks = <<>>,
             merged |-> IF sweep.hunks = <<>> THEN Join(base, local, remote, sweep.lines) ELSE <<>>,
             hunks |-> sweep.hunks]

-----------------------------------------------------------------------------
(* What a merge may be, line by line.                                      *)

\* m comes from b by the changes of l and r: a line is kept by both sides, inserted or
\* deleted by one of them or by both alike, and between the changes of one side and
\* those of the other there is a kept line.
RECURSIVE Explained(_, _, _, _, _)
Explained(b, l, r, m, side) ==
    LET head(s) == IF s = <<>> THEN 0 ELSE s[1]
        mine(who) == side \in {"none", who}
    IN \/ b = <<>> /\ l = <<>> /\ r = <<>> /\ m = <<>>
       \/ /\ b # <<>> /\ b[1] = head(l) /\ b[1] = head(r) /\ b[1] = head(m)
          /\ Explained(Tail(b), Tail(l), Tail(r), Tail(m), "none")
       \/ /\ mine("l")
          /\ \/ b # <<>> /\ b[1] = head(r) /\ Explained(Tail(b), l, Tail(r), m, "l")
             \/ l # <<>> /\ l[1] = head(m) /\ Explained(b, Tail(l), r, Tail(m), "l")
       \/ /\ mine("r")
          /\ \/ b # <<>> /\ b[1] = head(l) /\ Explained(Tail(b), Tail(l), r, m, "r")
             \/ r # <<>> /\ r[1] = head(m) /\ Explained(b, l, Tail(r), Tail(m), "r")
       \/ /\ mine("both")
          /\ \/ b # <<>> /\ Explained(Tail(b), l, r, m, "both")
             \/ /\ l # <<>> /\ l[1] = head(r) /\ l[1] = head(m)
                /\ Explained(b, Tail(l), Tail(r), Tail(m), "both")
=============================================================================
