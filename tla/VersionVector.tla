--------------------------- MODULE VersionVector ---------------------------
(***************************************************************************)
(* The version vectors of core/VersionVector.cpp: functions from some       *)
(* devices to counters; a device without an entry counts as 0.              *)
(***************************************************************************)
EXTENDS Naturals

get(v, device) == IF device \in DOMAIN v THEN v[device] ELSE 0

bump(v, device) ==
    [d \in DOMAIN v \cup {device} |-> IF d = device THEN get(v, d) + 1 ELSE v[d]]

merge(v, o) ==
    [d \in DOMAIN v \cup DOMAIN o |-> IF get(v, d) > get(o, d) THEN get(v, d) ELSE get(o, d)]

\* Mutant: devices only the other vector knows are not looked at.
dominatesOwnOnly(v, o) ==
    /\ \A d \in DOMAIN v : v[d] >= get(o, d)
    /\ \E d \in DOMAIN v : v[d] > get(o, d)

dominates(v, o) ==
    /\ \A d \in DOMAIN v : v[d] >= get(o, d)
    /\ \A d \in DOMAIN o : o[d] > 0 => d \in DOMAIN v
    /\ \E d \in DOMAIN v : v[d] > get(o, d)

concurrent(v, o) == ~dominates(v, o) /\ ~dominates(o, v) /\ v # o

-----------------------------------------------------------------------------
\* What the two orders mean: every count of o is among those of v.
Covers(v, o) == \A d \in DOMAIN v \cup DOMAIN o : get(v, d) >= get(o, d)

\* One vector dominates another if it counts everything the other counts and more, with
\* and without entries of 0; an edit makes a vector that dominates the one before; the
\* merged vector is the least that covers both.
Ordered(v, o, w, device) ==
    /\ dominates(v, o) <=> Covers(v, o) /\ ~Covers(o, v)
    /\ dominates(bump(v, device), v)
    /\ Covers(merge(v, o), v) /\ Covers(merge(v, o), o)
    /\ Covers(w, v) /\ Covers(w, o) => Covers(w, merge(v, o))
=============================================================================
