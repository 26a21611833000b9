------------------------- MODULE VersionVectorProofs -------------------------
(***************************************************************************)
(* What the comparison of version vectors means, for any devices and any    *)
(* counters: the three loops of dominates compute the strict part of an     *)
(* order in which merge is the least upper bound and an edit goes up.       *)
(***************************************************************************)
EXTENDS VersionVector, TLAPS

IsVector(v) == v \in [DOMAIN v -> Nat]

\* A count is a number, with or without an entry.
LEMMA GetNat ==
    ASSUME NEW v, IsVector(v), NEW d
    PROVE  get(v, d) \in Nat
  BY DEF IsVector, get

\* Covering is a matter of all devices: one without an entry counts as 0.
LEMMA CoversAll ==
    ASSUME NEW v, NEW o, IsVector(v), IsVector(o)
    PROVE  Covers(v, o) <=> \A d : get(v, d) >= get(o, d)
  <1>1. ASSUME Covers(v, o), NEW d PROVE get(v, d) >= get(o, d)
    <2>1. CASE d \in DOMAIN v \cup DOMAIN o
      BY <1>1, <2>1 DEF Covers
    <2>2. CASE d \notin DOMAIN v \cup DOMAIN o
      BY <2>2 DEF get
    <2> QED BY <2>1, <2>2
  <1> QED BY <1>1 DEF Covers

\* VersionVector::dominates, which looks at the entries of both sides in turn, holds
\* exactly if one vector counts everything the other does and more: entries of 0 and
\* missing entries make no difference.
THEOREM DominatesIsStrictOrder ==
    ASSUME NEW v, NEW o, IsVector(v), IsVector(o)
    PROVE  dominates(v, o) <=> Covers(v, o) /\ ~Covers(o, v)
  <1>0. \A d : get(v, d) \in Nat /\ get(o, d) \in Nat
    BY GetNat
  <1>1. ASSUME dominates(v, o) PROVE Covers(v, o) /\ ~Covers(o, v)
    <2>1. ASSUME NEW d \in DOMAIN v \cup DOMAIN o PROVE get(v, d) >= get(o, d)
      <3>1. CASE d \in DOMAIN v
        BY <1>1, <3>1 DEF dominates, get
      <3>2. CASE d \notin DOMAIN v
        <4>1. get(v, d) = 0 /\ d \in DOMAIN o /\ get(o, d) = o[d] /\ o[d] \in Nat
          BY <2>1, <3>2 DEF get, IsVector
        <4>2. ~(o[d] > 0)
          BY <1>1, <3>2, <4>1 DEF dominates
        <4> QED BY <4>1, <4>2
      <3> QED BY <3>1, <3>2
    <2>2. PICK d \in DOMAIN v : v[d] > get(o, d)
      BY <1>1 DEF dominates
    <2>3. ~(get(o, d) >= get(v, d))
      <3>1. get(v, d) = v[d] /\ get(v, d) \in Nat /\ get(o, d) \in Nat
        BY <1>0 DEF get
      <3> QED BY <2>2, <3>1
    <2>4. ~Covers(o, v)
      BY <2>3 DEF Covers
    <2> QED BY <2>1, <2>4 DEF Covers
  <1>2. ASSUME Covers(v, o), ~Covers(o, v) PROVE dominates(v, o)
    <2>1. \A d \in DOMAIN v : v[d] >= get(o, d)
      BY <1>2 DEF Covers, get
    <2>2. ASSUME NEW d \in DOMAIN o, o[d] > 0 PROVE d \in DOMAIN v
      <3>1. get(v, d) >= get(o, d) /\ get(o, d) = o[d] /\ o[d] \in Nat
        BY <1>2 DEF Covers, get, IsVector
      <3>2. get(v, d) > 0
        BY <1>0, <2>2, <3>1
      <3> QED BY <3>2 DEF get
    <2>3. PICK d \in DOMAIN o \cup DOMAIN v : ~(get(o, d) >= get(v, d))
      BY <1>2 DEF Covers
    <2>4. get(v, d) > get(o, d) /\ get(v, d) > 0
      BY <1>0, <2>3
    <2>5. d \in DOMAIN v /\ v[d] > get(o, d)
      BY <2>4 DEF get
    <2> QED BY <2>1, <2>2, <2>5 DEF dominates
  <1> QED BY <1>1, <1>2

\* Two vectors are never each newer than the other, and newer is transitive: no chain of
\* uploads leads back to where it began.
THEOREM DominatesOrdered ==
    ASSUME NEW v, NEW o, NEW w, IsVector(v), IsVector(o), IsVector(w)
    PROVE  /\ ~(dominates(v, o) /\ dominates(o, v))
           /\ dominates(v, o) /\ dominates(o, w) => dominates(v, w)
  <1>0. \A d : get(v, d) \in Nat /\ get(o, d) \in Nat /\ get(w, d) \in Nat
    BY GetNat
  <1>1. ~(dominates(v, o) /\ dominates(o, v))
    BY DominatesIsStrictOrder
  <1>2. ASSUME dominates(v, o), dominates(o, w) PROVE dominates(v, w)
    <2>1. Covers(v, o) /\ ~Covers(o, v) /\ Covers(o, w)
      BY <1>2, DominatesIsStrictOrder
    <2>2. \A d : get(v, d) >= get(o, d) /\ get(o, d) >= get(w, d)
      BY <2>1, CoversAll
    <2>3. Covers(v, w)
      <3>1. \A d : get(v, d) >= get(w, d)
        BY <1>0, <2>2
      <3> QED BY <3>1, CoversAll
    <2>4. ~Covers(w, v)
      <3> SUFFICES ASSUME Covers(w, v) PROVE FALSE
        OBVIOUS
      <3>1. \A d : get(w, d) >= get(v, d)
        BY CoversAll
      <3>2. \A d : get(o, d) >= get(v, d)
        BY <1>0, <2>2, <3>1
      <3> QED BY <2>1, <3>2, CoversAll
    <2> QED BY <2>3, <2>4, DominatesIsStrictOrder
  <1> QED BY <1>1, <1>2

\* An edit makes a vector that is newer than the one before.
THEOREM BumpDominates ==
    ASSUME NEW v, IsVector(v), NEW device
    PROVE  IsVector(bump(v, device)) /\ dominates(bump(v, device), v)
  <1> DEFINE b == bump(v, device)
  <1>0. \A d : get(v, d) \in Nat
    BY GetNat
  <1>1. DOMAIN b = DOMAIN v \cup {device}
    BY DEF bump
  <1>2. \A d \in DOMAIN b : b[d] = IF d = device THEN get(v, d) + 1 ELSE v[d]
    BY DEF bump
  <1>3. \A d \in DOMAIN b : b[d] \in Nat /\ b[d] >= get(v, d)
    BY <1>0, <1>1, <1>2 DEF get
  <1>4. b[device] > get(v, device) /\ device \in DOMAIN b
    BY <1>0, <1>1, <1>2
  <1>5. IsVector(b)
    <2>1. b = [d \in DOMAIN b |-> b[d]]
      BY DEF bump
    <2> HIDE DEF b
    <2> QED BY <1>3, <2>1 DEF IsVector
  <1> HIDE DEF b
  <1>6. dominates(b, v)
    BY <1>1, <1>3, <1>4 DEF dominates
  <1> QED BY <1>5, <1>6 DEF b

\* The merged vector covers both sides, and everything that covers both covers it.
THEOREM MergeIsLeast ==
    ASSUME NEW v, NEW o, IsVector(v), IsVector(o)
    PROVE  /\ IsVector(merge(v, o)) /\ Covers(merge(v, o), v) /\ Covers(merge(v, o), o)
           /\ \A w : IsVector(w) /\ Covers(w, v) /\ Covers(w, o) => Covers(w, merge(v, o))
  <1> DEFINE m == merge(v, o)
  <1>0. \A d : get(v, d) \in Nat /\ get(o, d) \in Nat
    BY GetNat
  <1>1. /\ DOMAIN m = DOMAIN v \cup DOMAIN o /\ m = [d \in DOMAIN m |-> m[d]]
        /\ \A d \in DOMAIN m : m[d] = IF get(v, d) > get(o, d) THEN get(v, d) ELSE get(o, d)
    BY DEF merge
  <1> HIDE DEF m
  <1>2. IsVector(m)
    BY <1>0, <1>1 DEF IsVector
  <1>3. \A d : get(m, d) = IF get(v, d) > get(o, d) THEN get(v, d) ELSE get(o, d)
    BY <1>0, <1>1 DEF get
  <1>4. \A d : get(m, d) >= get(v, d) /\ get(m, d) >= get(o, d)
    BY <1>0, <1>3
  <1>5. Covers(m, v) /\ Covers(m, o)
    BY <1>4 DEF Covers
  <1>6. ASSUME NEW w, IsVector(w), Covers(w, v), Covers(w, o) PROVE Covers(w, m)
    <2>1. \A d : get(w, d) >= get(v, d) /\ get(w, d) >= get(o, d)
      BY <1>6, CoversAll
    <2>2. \A d : get(w, d) >= get(m, d)
      BY <1>3, <2>1
    <2> QED BY <2>2 DEF Covers
  <1> QED BY <1>2, <1>5, <1>6 DEF m

\* What run Algorithms checks on small vectors (VectorsOrdered) holds of all of them: the
\* comparison, the edit and the merge of VersionVector.cpp fit together.
THEOREM VectorsAreOrdered ==
    ASSUME NEW v, NEW o, NEW w, IsVector(v), IsVector(o), IsVector(w), NEW device
    PROVE  Ordered(v, o, w, device)
  BY DominatesIsStrictOrder, BumpDominates, MergeIsLeast DEF Ordered
=============================================================================
