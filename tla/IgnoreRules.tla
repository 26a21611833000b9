---------------------------- MODULE IgnoreRules ----------------------------
(***************************************************************************)
(* .npsyncignore: core/IgnoreRules.cpp.  A pattern, a line and a path are   *)
(* sequences of characters, already lower-case and with "/" between names.  *)
(***************************************************************************)
EXTENDS Integers, Sequences, SequencesExt

From(s, k) == SubSeq(s, k, Len(s))
StartsWith(s, t) == IsPrefix(t, s)

\* parse, for one line: a rule, or none for an empty line and a comment.
NoRule == [negate |-> FALSE, dirOnly |-> FALSE, anchored |-> FALSE, pattern |-> <<>>]
parse(line) ==
    LET negate == StartsWith(line, <<"!">>)
        body == IF negate THEN From(line, 2) ELSE line
        dirOnly == IsSuffix(<<"/">>, body)
        dir == IF dirOnly THEN Front(body) ELSE body
        anchored == StartsWith(dir, <<"/">>)
        pattern == IF anchored THEN From(dir, 2) ELSE dir
    IN IF line = <<>> \/ StartsWith(line, <<"#">>) \/ pattern = <<>> THEN NoRule
       ELSE [negate |-> negate, dirOnly |-> dirOnly, anchored |-> anchored, pattern |-> pattern]

\* Where the matcher stands: p and s are the next characters of pattern and string; star
\* the last star met, starS where it stops matching, double whether it is two.
Stars(pat, p) == IF StartsWith(From(pat, p), <<"*", "*">>) THEN 2
                 ELSE IF StartsWith(From(pat, p), <<"*">>) THEN 1 ELSE 0
\* The place behind "*", "**" or "**/".
Behind(pat, p) ==
    IF Stars(pat, p) = 2 /\ StartsWith(From(pat, p + 2), <<"/">>) THEN p + 3
    ELSE p + Stars(pat, p)

\* Mutant: a star matches at least one character.
RECURSIVE globLoopNonempty(_, _, _, _, _, _)
globLoopNonempty(pat, str, p, s, star, starS) ==
    IF s > Len(str) THEN \A k \in p..Len(pat) : pat[k] = "*"
    ELSE IF p <= Len(pat) /\ pat[p] \in {"?", str[s]}
    THEN globLoopNonempty(pat, str, p + 1, s + 1, star, starS)
    ELSE IF p <= Len(pat) /\ Stars(pat, p) > 0
    THEN globLoopNonempty(pat, str, Behind(pat, p), s + 1, p, s + 1)
    ELSE /\ star # 0
         /\ Stars(pat, star) = 2 \/ str[starS] # "/"
         /\ globLoopNonempty(pat, str, Behind(pat, star), starS + 1, star, starS + 1)

\* The loop of globMatch: a character matches, a star is met, or the last star is
\* given one more character; a single star gets no slash.
RECURSIVE globLoop(_, _, _, _, _, _)
globLoop(pat, str, p, s, star, starS) ==
    IF s > Len(str) THEN \A k \in p..Len(pat) : pat[k] = "*"
    ELSE IF p <= Len(pat) /\ pat[p] \in {"?", str[s]}
    THEN globLoop(pat, str, p + 1, s + 1, star, starS)
    ELSE IF p <= Len(pat) /\ Stars(pat, p) > 0
    THEN globLoop(pat, str, Behind(pat, p), s, p, s)
    ELSE /\ star # 0
         /\ Stars(pat, star) = 2 \/ str[starS] # "/"
         /\ globLoop(pat, str, Behind(pat, star), starS + 1, star, starS + 1)

globMatch(pat, str) == globLoop(pat, str, 1, 1, 0, 0)

\* Mutant: only the path itself is tried.
candidatesFileOnly(path) == {path}

\* The path and every directory above it.
candidates(path) ==
    {path} \cup {SubSeq(path, 1, k - 1) : k \in {k \in DOMAIN path : path[k] = "/"}}

basename(path) ==
    From(path, 1 + Max({0} \cup {k \in DOMAIN path : path[k] = "/"}))

matchRule(rule, path, isDir) ==
    \E cand \in candidates(path) :
       /\ rule.dirOnly => cand # path \/ isDir
       /\ globMatch(rule.pattern,
                    IF rule.anchored \/ Contains(rule.pattern, "/") THEN cand ELSE basename(cand))

\* The last rule that matches decides.
ignored(rules, path, isDir) ==
    LET matching == {k \in DOMAIN rules : matchRule(rules[k], path, isDir)}
    IN matching # {} /\ ~rules[Max(matching)].negate

-----------------------------------------------------------------------------
\* What the characters of a pattern stand for: "?" one character, "*" a run without a
\* slash, "**" and "**/" any run.
RECURSIVE Glob(_, _)
Glob(pat, str) ==
    IF pat = <<>> THEN str = <<>>
    ELSE IF Stars(pat, 1) = 0
    THEN str # <<>> /\ pat[1] \in {"?", str[1]} /\ Glob(Tail(pat), Tail(str))
    ELSE \E k \in 1..Len(str) + 1 :
            /\ Stars(pat, 1) = 2 \/ \A i \in 1..k - 1 : str[i] # "/"
            /\ Glob(From(pat, Behind(pat, 1)), From(str, k))
=============================================================================
