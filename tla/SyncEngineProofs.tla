-------------------------- MODULE SyncEngineProofs --------------------------
(***************************************************************************)
(* Proofs about SyncEngine, for any edits, file ids and bounds: every      *)
(* variable keeps its type, no edit disappears, and the row claims nothing *)
(* that the server does not have.                                          *)
(***************************************************************************)
EXTENDS SyncEngine, FiniteSetTheorems, SequenceTheorems, WellFoundedInduction, TLAPS

WorkerPlaces == {"idle", "next", "read", "row", "send", "save", "delete", "forget", "fetch",
                 "merge", "write", "put", "saveMerged", "copy"}
DownloadPlaces == {"idle", "row", "compare", "write", "save"}
DialogPlaces == {"idle", "put", "save", "rename", "write", "saveRemote"}

MaybeText == Texts \cup {Nothing}
Thread(places) ==
    [pc : places, todo : Seq(PendingOp), id : Ids \cup {NoId}, text : MaybeText,
     got : MaybeText, st : Row, base : Nat, ver : Nat, copy : Copies]

StoreTyped ==
    /\ file \in [Ids -> Seq(MaybeText)]
    /\ idem \subseteq [base : Nat, text : Texts, ver : Nat \ {0}]
    /\ news \subseteq {i \in Ids : file[i] # <<>>}

DataTyped ==
    /\ row \in Row /\ conflicts \subseteq ConflictState
    /\ disk \in MaybeText /\ shadow \in MaybeText
    /\ copy \in [Copies -> MaybeText] /\ backups \subseteq Texts
    /\ events \in Seq({"modified", "deleted"})
    /\ used \subseteq Edits /\ mishaps \subseteq Mishaps

\* No two operations have the same kind, or the same id.
Distinct(q) ==
    \A i, j \in DOMAIN q : i # j => q[i].kind # q[j].kind /\ q[i].id # q[j].id

QueueTyped == ops \in Seq(PendingOp) /\ Distinct(ops)

\* What a thread holds at its places: the worker has an operation at hand.
WorkerTyped ==
    /\ w \in Thread(WorkerPlaces)
    /\ Busy(w) => w.todo # <<>>
    /\ w.pc \notin {"idle", "next", "read", "delete", "forget"} => w.text \in Texts
    /\ w.pc \in {"send", "save", "fetch", "merge", "write", "put", "saveMerged", "copy"} => w.id \in Ids
    /\ w.pc \in {"merge", "write", "put", "saveMerged"} => w.got \in Texts

\* t is version v of file i.
IsVersion(i, v, t) == i \in Ids /\ v \in 1..Len(file[i]) /\ file[i][v] = t

DownloadTyped ==
    /\ d \in Thread(DownloadPlaces)
    /\ d.pc # "idle" => IsVersion(d.id, d.ver, d.got)

DialogTyped ==
    /\ u \in Thread(DialogPlaces)
    /\ u.pc # "idle" => u.id \in Ids
    /\ u.pc \in {"put", "save"} => u.text \in Texts
    /\ u.pc \in {"rename", "write", "saveRemote"} => u.got \in Texts /\ IsVersion(u.id, u.ver, u.got)

TypeInv ==
    StoreTyped /\ DataTyped /\ QueueTyped /\ WorkerTyped /\ DownloadTyped /\ DialogTyped

-----------------------------------------------------------------------------
\* Where an edit is kept; the conflict copies are never the only place.
Kept == Text(disk) \cup Stored \cup InTexts(backups) \cup discarded \cup trampled

\* A text that counts as synchronized is on the server, and a merged text drops no edit
\* that is not.
ShadowSafe == Text(shadow) \subseteq Stored
KeysSafe == \A k \in idem : k.text \subseteq Stored
WorkerSafe ==
    /\ w.pc = "save" => w.text \subseteq Stored
    /\ w.pc = "saveMerged" => w.got \subseteq Stored
    /\ w.pc = "write" => w.text \ w.got \subseteq Stored
DialogSafe == u.pc = "save" => u.text \subseteq Stored

EditInv == used \subseteq Kept /\ ShadowSafe /\ KeysSafe /\ WorkerSafe /\ DialogSafe

-----------------------------------------------------------------------------
Apart == {"replay", "twin", "overlap"}

\* One thread at a time is at the file.
OneBusy ==
    /\ Busy(w) => ~Busy(d) /\ ~Busy(u)
    /\ Busy(d) => ~Busy(u)

\* The device has to do with one file id for the path.
OneId == \A i, j \in Known \ {NoId} : i = j

RowHolds ==
    row.id # NoId /\ row.version # 0 =>
       /\ row.version <= Len(file[row.id])
       /\ row.deleted \/ file[row.id][row.version] = row.hash

WorkerHolds ==
    /\ w.pc = "send" => row.id = w.id \/ (row.id = NoId /\ file[w.id] = <<>>)
    /\ w.pc \in {"fetch", "merge", "write", "put", "saveMerged", "copy"} => w.id = row.id
    /\ w.pc = "save" =>
          /\ Known \subseteq {NoId, w.id} /\ (Live(w.id) \/ w.id \in Known)
          /\ IsVersion(w.id, w.ver, w.text)
    /\ w.pc = "saveMerged" => IsVersion(w.id, w.ver, w.got)

\* The rows that were read are rows of the file.
DownloadHolds == d.pc \in {"compare", "write", "save"} => d.st.id \in {NoId, d.id}
DialogHolds ==
    /\ u.pc \in {"put", "save"} => u.st.id \in {NoId, u.id}
    /\ u.pc = "save" => IsVersion(u.id, u.ver, u.text)

Holds == OneBusy /\ OneId /\ RowHolds /\ WorkerHolds /\ DownloadHolds /\ DialogHolds

Calm == mishaps \cap Apart = {}
RowInv == Calm => Holds

-----------------------------------------------------------------------------
(* Choosing numbers.                                                       *)

\* A set of natural numbers that is not empty has a least element.
LEMMA Least ==
    ASSUME NEW S, S \subseteq Nat, S # {}
    PROVE  \E n \in S : \A m \in S : n <= m
  <1>1. PICK n \in S : \A m \in S : ~ (<<m, n>> \in OpToRel(<, Nat))
    BY NatLessThanWellFounded, WFMin
  <1>2. \A m \in S : m < n => <<m, n>> \in OpToRel(<, Nat)
    BY DEF OpToRel
  <1>3. \A m \in S : ~ (m < n)
    BY <1>1, <1>2, Zenon
  <1> QED BY <1>3

\* The id for a new file is one that is not in use.
LEMMA NewIdUnused ==
    ASSUME Unused # {}
    PROVE  NewId \in Unused
  <1>1. Unused \subseteq Nat
    BY EngineAssumption DEF Unused
  <1> QED BY <1>1, Least DEF NewId

\* The ids of the operations of a queue are a finite set.
LEMMA QueueIds ==
    ASSUME NEW q \in Seq(PendingOp)
    PROVE  IsFiniteSet(IdsOf(q)) /\ IdsOf(q) \subseteq Nat
  <1>1. IsFiniteSet(DOMAIN q)
    <2>1. DOMAIN q = 1..Len(q) /\ Len(q) \in Nat
      OBVIOUS
    <2> QED BY <2>1, FS_Interval
  <1>2. IdsOf(q) = {q[i].id : i \in DOMAIN q}
    BY DEF IdsOf
  <1>3. IsFiniteSet(IdsOf(q))
    <2> DEFINE f == [i \in DOMAIN q |-> q[i].id]
    <2>1. f \in Surjection(DOMAIN q, IdsOf(q))
      BY <1>2 DEF Surjection
    <2> HIDE DEF f
    <2> QED BY <1>1, <2>1, FS_Surjection
  <1>4. \A i \in DOMAIN q : q[i].id \in Nat
    <2>1. \A i \in DOMAIN q : q[i] \in PendingOp
      OBVIOUS
    <2> QED BY <2>1 DEF PendingOp
  <1> QED BY <1>2, <1>3, <1>4

\* The id for a new operation is one that no operation has.
LEMMA LeastIsNew ==
    ASSUME NEW S, IsFiniteSet(S), S \subseteq Nat
    PROVE  LeastNotIn(S) \in Nat /\ LeastNotIn(S) \notin S
  <1> DEFINE n == Cardinality(S)
  <1> DEFINE T == {m \in 1..(n + 1) : m \notin S}
  <1>1. n \in Nat
    BY FS_CardinalityType
  <1>2. T # {}
    <2> SUFFICES ASSUME T = {} PROVE FALSE
      OBVIOUS
    <2>1. 1..(n + 1) \subseteq S
      OBVIOUS
    <2>2. Cardinality(1..(n + 1)) = n + 1
      BY <1>1, FS_Interval
    <2>3. Cardinality(1..(n + 1)) <= n
      BY <2>1, FS_Subset
    <2> QED BY <1>1, <2>2, <2>3
  <1>3. T \subseteq Nat
    BY <1>1
  <1>4. PICK m \in T : \A k \in T : m <= k
    BY <1>2, <1>3, Least
  <1>5. m \in 1..(n + 1) /\ m \notin S /\ \A k \in 1..(m - 1) : k \in S
    BY <1>1, <1>4
  <1> HIDE DEF T
  <1>6. LeastNotIn(S) \in 1..(n + 1) /\ LeastNotIn(S) \notin S
    BY <1>5 DEF LeastNotIn
  <1> QED BY <1>1, <1>6

-----------------------------------------------------------------------------
(* The queue.                                                              *)

\* A queue from which one operation is taken: those that are left were there before, and
\* if the one with that kind or id was taken, none with it is left.
LEMMA WithoutOne ==
    ASSUME NEW q \in Seq(PendingOp), Distinct(q), NEW places \in SUBSET (DOMAIN q),
           \A i, j \in places : i = j
    PROVE  /\ Without(q, places) \in Seq(PendingOp) /\ Distinct(Without(q, places))
           /\ \A i \in DOMAIN Without(q, places) :
                 \E j \in (DOMAIN q) \ places : Without(q, places)[i] = q[j]
  <1> DEFINE r == Without(q, places)
  <1>1. CASE places = {}
    BY <1>1 DEF Without
  <1>2. CASE places # {}
    <2> DEFINE p == CHOOSE p \in places : TRUE
    <2> DEFINE at(i) == IF i < p THEN i ELSE i + 1
    <2>1. p \in places /\ p \in 1..Len(q) /\ Len(q) \in Nat \ {0}
      BY <1>2
    <2>2. r = [i \in 1..(Len(q) - 1) |-> IF i < p THEN q[i] ELSE q[i + 1]]
      BY <1>2 DEF Without
    <2> HIDE DEF r, p
    <2>3. \A i \in 1..(Len(q) - 1) :
             at(i) \in 1..Len(q) /\ at(i) # p /\ r[i] = q[at(i)] /\ r[i] \in PendingOp
      BY <2>1, <2>2
    <2>4. \A i, j \in 1..(Len(q) - 1) : i # j => at(i) # at(j)
      BY <2>1
    <2> HIDE DEF at
    <2>5. r \in [1..(Len(q) - 1) -> PendingOp]
      BY <2>2, <2>3
    <2>6. r \in Seq(PendingOp) /\ DOMAIN r = 1..(Len(q) - 1)
      BY <2>1, <2>5
    <2>7. Distinct(r)
      BY <2>3, <2>4, <2>6, SMTT(30) DEF Distinct
    <2>8. \A i \in DOMAIN r : at(i) \in (DOMAIN q) \ places /\ r[i] = q[at(i)]
      BY <2>1, <2>3, <2>6
    <2> QED BY <2>6, <2>7, <2>8 DEF r
  <1> QED BY <1>1, <1>2

\* A queue has one operation of a kind at most, two in all.
LEMMA QueueShort ==
    ASSUME QueueTyped
    PROVE  Len(ops) <= 2
  <1> SUFFICES ASSUME Len(ops) >= 3 PROVE FALSE
    BY DEF QueueTyped
  <1>1. 1 \in DOMAIN ops /\ 2 \in DOMAIN ops /\ 3 \in DOMAIN ops
    BY DEF QueueTyped
  <1>2. ops[1] \in PendingOp /\ ops[2] \in PendingOp /\ ops[3] \in PendingOp
    BY <1>1 DEF QueueTyped
  <1> QED BY <1>1, <1>2 DEF QueueTyped, Distinct, PendingOp

\* enqueueOp keeps the queue in order, and concerns no mishap but "unseen".
LEMMA Enqueued ==
    ASSUME QueueTyped, w.todo \in Seq(PendingOp), mishaps \subseteq Mishaps,
           NEW kind \in {"upload", "delete"}, NEW now, enqueueOp(kind, now)
    PROVE  QueueTyped' /\ mishaps' \subseteq Mishaps /\ mishaps' \cap Apart = mishaps \cap Apart
  <1> DEFINE places == {i \in DOMAIN ops : ops[i].kind = kind}
  <1> DEFINE others == Without(ops, places)
  <1> DEFINE n == NewOpId(others)
  <1> DEFINE o == [id |-> n, kind |-> kind, retries |-> 0]
  <1>1. /\ places \in SUBSET (DOMAIN ops) /\ \A i, j \in places : i = j
        /\ \A i \in (DOMAIN ops) \ places : ops[i].kind # kind
    BY DEF QueueTyped, Distinct
  <1> HIDE DEF places
  <1>2. /\ others \in Seq(PendingOp) /\ Distinct(others)
        /\ \A i \in DOMAIN others : \E j \in (DOMAIN ops) \ places : others[i] = ops[j]
    BY <1>1, WithoutOne DEF QueueTyped
  <1>3. ops' = Append(others, o)
    BY DEF enqueueOp, places
  <1>4. \A i \in DOMAIN others : others[i].kind # kind
    BY <1>1, <1>2
  <1> HIDE DEF others
  <1>5. n \in Nat /\ n \notin IdsOf(others)
    <2> DEFINE S == IdsOf(others) \cup IdsOf(w.todo)
    <2>1. IsFiniteSet(S) /\ S \subseteq Nat
      BY <1>2, QueueIds, FS_Union
    <2>2. LeastNotIn(S) \in Nat /\ LeastNotIn(S) \notin S
      BY <2>1, LeastIsNew
    <2> QED BY <2>2 DEF NewOpId
  <1> HIDE DEF n
  <1>6. \A i \in DOMAIN others : others[i].id # n
    BY <1>5 DEF IdsOf
  <1>7. o \in PendingOp /\ o.id = n /\ o.kind = kind
    BY <1>5 DEF PendingOp
  <1> HIDE DEF o
  <1>8. ops' \in Seq(PendingOp)
    BY <1>2, <1>3, <1>7
  <1>9. Distinct(ops')
    <2> SUFFICES ASSUME NEW i \in DOMAIN ops', NEW j \in DOMAIN ops', i # j
                 PROVE  ops'[i].kind # ops'[j].kind /\ ops'[i].id # ops'[j].id
      BY DEF Distinct
    <2>1. DOMAIN others = 1..Len(others) /\ Len(others) \in Nat
          /\ DOMAIN ops' = 1..(Len(others) + 1)
      BY <1>2, <1>3, <1>7
    <2>2. \A k \in 1..(Len(others) + 1) :
             ops'[k] = IF k = Len(others) + 1 THEN o ELSE others[k]
      BY <1>2, <1>3, <1>7
    <2>3. CASE i \in DOMAIN others /\ j \in DOMAIN others
      <3>1. ops'[i] = others[i] /\ ops'[j] = others[j]
        BY <2>1, <2>2, <2>3
      <3> QED BY <1>2, <2>3, <3>1 DEF Distinct
    <2>4. CASE i \notin DOMAIN others
      <3>1. ops'[i] = o /\ j \in DOMAIN others /\ ops'[j] = others[j]
        BY <2>1, <2>2, <2>4
      <3> QED BY <1>4, <1>6, <1>7, <3>1
    <2>5. CASE j \notin DOMAIN others
      <3>1. ops'[j] = o /\ i \in DOMAIN others /\ ops'[i] = others[i]
        BY <2>1, <2>2, <2>5
      <3> QED BY <1>4, <1>6, <1>7, <3>1
    <2> QED BY <2>3, <2>4, <2>5
  <1>10. mishaps' = mishaps \ {"unseen"} \/ mishaps' = mishaps \cup {"unseen"}
    BY DEF enqueueOp
  <1> QED BY <1>8, <1>9, <1>10 DEF QueueTyped, Mishaps, Apart

\* removeOp keeps the queue in order.
LEMMA OpRemoved ==
    ASSUME QueueTyped, removeOp
    PROVE  QueueTyped'
  <1> DEFINE places == {i \in DOMAIN ops : ops[i].id = Head(w.todo).id}
  <1>1. places \in SUBSET (DOMAIN ops) /\ \A i, j \in places : i = j
    BY DEF QueueTyped, Distinct
  <1>2. ops' = Without(ops, places)
    BY DEF removeOp
  <1> HIDE DEF places
  <1> QED BY <1>1, <1>2, WithoutOne DEF QueueTyped

\* opFailed keeps the queue in order, and concerns no mishap but "dropped".
LEMMA OpCounted ==
    ASSUME QueueTyped, mishaps \subseteq Mishaps, opFailed
    PROVE  QueueTyped' /\ mishaps' \subseteq Mishaps /\ mishaps' \cap Apart = mishaps \cap Apart
  <1>1. CASE Head(w.todo).retries > MaxRetries
    BY <1>1, OpRemoved DEF opFailed, Mishaps, Apart
  <1>2. CASE ~(Head(w.todo).retries > MaxRetries)
    <2> DEFINE h == Head(w.todo).id
    <2>1. ops' = [i \in DOMAIN ops |-> IF ops[i].id = h
                     THEN [ops[i] EXCEPT !.retries = @ + 1] ELSE ops[i]]
      BY <1>2 DEF opFailed
    <2> HIDE DEF h
    <2>2. \A i \in DOMAIN ops : /\ ops'[i] \in PendingOp
                                /\ ops'[i].id = ops[i].id /\ ops'[i].kind = ops[i].kind
      <3> SUFFICES ASSUME NEW i \in DOMAIN ops
                   PROVE  /\ ops'[i] \in PendingOp
                          /\ ops'[i].id = ops[i].id /\ ops'[i].kind = ops[i].kind
        OBVIOUS
      <3>1. ops[i] \in PendingOp
        BY DEF QueueTyped
      <3> QED BY <2>1, <3>1 DEF PendingOp
    <2>3. DOMAIN ops' = 1..Len(ops) /\ Len(ops) \in Nat
      BY <2>1 DEF QueueTyped
    <2>4. ops' \in [1..Len(ops) -> PendingOp]
      BY <2>1, <2>2, <2>3
    <2>5. ops' \in Seq(PendingOp)
      BY <2>3, <2>4
    <2>6. Distinct(ops')
      BY <2>1, <2>2 DEF Distinct, QueueTyped
    <2> QED BY <1>2, <2>5, <2>6 DEF QueueTyped, opFailed
  <1> QED BY <1>1, <1>2

-----------------------------------------------------------------------------
(* The server.                                                             *)

\* No version is ever taken away or changed.
Grows ==
    /\ file' \in [Ids -> Seq(MaybeText)]
    /\ \A i \in Ids : /\ Len(file[i]) <= Len(file'[i])
                      /\ \A v \in 1..Len(file[i]) : file'[i][v] = file[i][v]

\* A version is appended to a file.
LEMMA AppendGrows ==
    ASSUME file \in [Ids -> Seq(MaybeText)], NEW i \in Ids, NEW t \in MaybeText,
           file' = [file EXCEPT ![i] = Append(@, t)]
    PROVE  /\ Grows /\ Len(file'[i]) = Len(file[i]) + 1 /\ file'[i][Len(file[i]) + 1] = t
           /\ \A j \in Ids \ {i} : file'[j] = file[j]
  <1>1. file[i] \in Seq(MaybeText)
    OBVIOUS
  <1> DEFINE s == Append(file[i], t)
  <1>2. /\ s \in Seq(MaybeText) /\ Len(s) = Len(file[i]) + 1 /\ s[Len(file[i]) + 1] = t
        /\ \A v \in 1..Len(file[i]) : s[v] = file[i][v]
    BY <1>1
  <1>3. file' = [file EXCEPT ![i] = s]
    OBVIOUS
  <1> HIDE DEF s
  <1>4. file'[i] = s /\ \A j \in Ids \ {i} : file'[j] = file[j]
    BY <1>3
  <1>5. \A j \in Ids : Len(file[j]) \in Nat
    OBVIOUS
  <1>6. file' \in [Ids -> Seq(MaybeText)]
    BY <1>2, <1>3
  <1> QED BY <1>2, <1>4, <1>5, <1>6 DEF Grows

\* Nothing happens to the files.
LEMMA SameGrows ==
    ASSUME file \in [Ids -> Seq(MaybeText)], UNCHANGED file
    PROVE  Grows
  BY DEF Grows

\* A version stays the version it is.
LEMMA VersionStays ==
    ASSUME file \in [Ids -> Seq(MaybeText)], Grows, NEW i, NEW v, NEW t, IsVersion(i, v, t)
    PROVE  i \in Ids /\ v \in 1..Len(file'[i]) /\ file'[i][v] = t
  <1>1. Len(file[i]) \in Nat /\ Len(file'[i]) \in Nat
    BY DEF IsVersion, Grows
  <1> QED BY <1>1 DEF Grows, IsVersion

\* What is stored stays stored.
LEMMA StoredStays ==
    ASSUME file \in [Ids -> Seq(MaybeText)], Grows
    PROVE  Stored \subseteq Stored'
  <1> SUFFICES ASSUME NEW e \in Stored PROVE e \in Stored'
    OBVIOUS
  <1>1. PICK i \in Ids : \E v \in DOMAIN file[i] : e \in Text(file[i][v])
    BY DEF Stored, InTexts
  <1>2. PICK v \in DOMAIN file[i] : e \in Text(file[i][v])
    BY <1>1
  <1>3. v \in DOMAIN file'[i] /\ file'[i][v] = file[i][v]
    <2>1. DOMAIN file[i] = 1..Len(file[i]) /\ DOMAIN file'[i] = 1..Len(file'[i])
          /\ Len(file[i]) \in Nat /\ Len(file'[i]) \in Nat
      BY DEF Grows
    <2> QED BY <2>1 DEF Grows
  <1> QED BY <1>2, <1>3 DEF Stored, InTexts, Text

\* The edits of a version are stored.
LEMMA VersionStored ==
    ASSUME file \in [Ids -> Seq(MaybeText)], NEW i, NEW v, NEW t, IsVersion(i, v, t)
    PROVE  Text(t) \subseteq Stored
  <1>1. i \in Ids /\ v \in DOMAIN file[i] /\ file[i][v] = t
    BY DEF IsVersion
  <1> QED BY <1>1 DEF Stored, InTexts

\* The newest version of a file that has one.
LEMMA CurrentIsVersion ==
    ASSUME file \in [Ids -> Seq(MaybeText)], NEW i \in Ids, file[i] # <<>>
    PROVE  IsVersion(i, Len(file[i]), Current(i)) /\ Current(i) \in MaybeText
  <1>1. file[i] \in Seq(MaybeText)
    OBVIOUS
  <1>2. Len(file[i]) \in 1..Len(file[i])
    BY <1>1
  <1> QED BY <1>1, <1>2 DEF IsVersion, Current

\* The four answers to an upload.
Answer(a, i, base, text) ==
    \/ a.code = "refused" /\ a.ver = 0 /\ a.file = file /\ a.idem = idem
    \/ /\ a.code = "conflict" /\ a.ver = Len(file[i]) /\ a.file = file /\ a.idem = idem
       /\ file[i] # <<>>
    \/ /\ a.code = "replay" /\ a.file = file /\ a.idem = idem
       /\ \E k \in idem : k.text = text /\ k.ver = a.ver
    \/ /\ a.code = "ok" /\ a.ver = Len(file[i]) + 1 /\ base = Len(file[i])
       /\ a.file = [file EXCEPT ![i] = Append(@, text)]
       /\ a.idem = idem \cup {[base |-> base, text |-> text, ver |-> a.ver]}

\* There are no others.
LEMMA UploadAnswer ==
    ASSUME StoreTyped, NEW i \in Ids, NEW base \in Nat, NEW text \in Texts
    PROVE  Answer(Upload(i, base, text), i, base, text)
  <1> USE DEF Answer
  <1> DEFINE hits == {k \in idem : k.base = base /\ k.text = text}
  <1>1. CASE ~TimeAccepted
    BY <1>1 DEF Upload
  <1>2. CASE TimeAccepted /\ hits # {}
    <2>1. (CHOOSE k \in hits : TRUE) \in hits
      BY <1>2
    <2> QED BY <1>2, <2>1 DEF Upload
  <1>3. CASE TimeAccepted /\ hits = {} /\ (base = 0) # (file[i] = <<>>)
    BY <1>3 DEF Upload
  <1>4. CASE TimeAccepted /\ hits = {} /\ ~((base = 0) # (file[i] = <<>>)) /\ base # Len(file[i])
    BY <1>4 DEF Upload, StoreTyped
  <1>5. CASE TimeAccepted /\ hits = {} /\ ~((base = 0) # (file[i] = <<>>)) /\ base = Len(file[i])
    BY <1>5 DEF Upload
  <1> QED BY <1>1, <1>2, <1>3, <1>4, <1>5

\* An upload, answered or lost: versions are appended only.
LEMMA UploadGrows ==
    ASSUME StoreTyped, NEW i \in Ids, NEW base \in Nat, NEW text \in Texts,
           MaybeApplied(Upload(i, base, text)), UNCHANGED news
    PROVE  Grows /\ StoreTyped'
  <1> DEFINE a == Upload(i, base, text)
  <1>0. Answer(a, i, base, text)
    BY UploadAnswer
  <1>a. MaybeApplied(a)
    OBVIOUS
  <1> HIDE DEF a
  <1>1. CASE UNCHANGED <<file, idem>>
    BY <1>1, SameGrows DEF StoreTyped
  <1>2. CASE Applied(a) /\ a.code # "ok"
    <2>1. UNCHANGED <<file, idem>>
      BY <1>0, <1>2 DEF Applied, Answer
    <2> QED BY <1>1, <2>1
  <1>3. CASE Applied(a) /\ a.code = "ok"
    <2>1. /\ file' = [file EXCEPT ![i] = Append(@, text)]
          /\ idem' = idem \cup {[base |-> base, text |-> text, ver |-> Len(file[i]) + 1]}
      BY <1>0, <1>3 DEF Applied, Answer
    <2>2. /\ Grows /\ Len(file'[i]) = Len(file[i]) + 1
          /\ \A j \in Ids \ {i} : file'[j] = file[j]
      BY <2>1, AppendGrows DEF StoreTyped, MaybeText
    <2>3. Len(file[i]) \in Nat /\ Len(file'[i]) \in Nat
      BY <2>2 DEF StoreTyped, Grows
    <2>4. file'[i] # <<>>
      BY <2>2, <2>3
    <2>5. idem' \subseteq [base : Nat, text : Texts, ver : Nat \ {0}]
      BY <2>1, <2>3 DEF StoreTyped
    <2>6. news' \subseteq {j \in Ids : file'[j] # <<>>}
      BY <2>2, <2>4 DEF StoreTyped
    <2> QED BY <2>2, <2>5, <2>6 DEF StoreTyped, Grows
  <1> QED BY <1>a, <1>1, <1>2, <1>3 DEF MaybeApplied

\* An answer that calls for an update of the row is about a text that is stored.
LEMMA UploadStored ==
    ASSUME StoreTyped, NEW i \in Ids, NEW base \in Nat, NEW text \in Texts,
           \A k \in idem : k.text \subseteq Stored,
           MaybeApplied(Upload(i, base, text)), UNCHANGED news
    PROVE  /\ \A k \in idem' : k.text \subseteq Stored'
           /\ Applied(Upload(i, base, text)) /\ Upload(i, base, text).code \in {"ok", "replay"}
                 => text \subseteq Stored'
  <1> DEFINE a == Upload(i, base, text)
  <1>0. Answer(a, i, base, text)
    BY UploadAnswer
  <1>1. Stored \subseteq Stored'
    BY UploadGrows, StoredStays DEF StoreTyped
  <1>a. MaybeApplied(a)
    OBVIOUS
  <1> SUFFICES /\ \A k \in idem' : k.text \subseteq Stored'
               /\ Applied(a) /\ a.code \in {"ok", "replay"} => text \subseteq Stored'
    OBVIOUS
  <1> HIDE DEF a
  <1>2. CASE UNCHANGED <<file, idem>> /\ ~Applied(a)
    BY <1>1, <1>2
  <1>3. CASE Applied(a) /\ a.code # "ok"
    <2>1. /\ UNCHANGED <<file, idem>>
          /\ a.code = "replay" => \E k \in idem : k.text = text
      BY <1>0, <1>3 DEF Applied, Answer
    <2> QED BY <1>1, <1>3, <2>1
  <1>4. CASE Applied(a) /\ a.code = "ok"
    <2>1. /\ file' = [file EXCEPT ![i] = Append(@, text)]
          /\ idem' = idem \cup {[base |-> base, text |-> text, ver |-> a.ver]}
      BY <1>0, <1>4 DEF Applied, Answer
    <2>2. Grows /\ Len(file'[i]) = Len(file[i]) + 1 /\ file'[i][Len(file[i]) + 1] = text
      BY <2>1, AppendGrows DEF StoreTyped, MaybeText
    <2>3. Len(file[i]) + 1 \in DOMAIN file'[i]
      BY <2>2 DEF StoreTyped, Grows
    <2>4. text = Text(text)
      BY DEF Text, Texts
    <2>5. text \subseteq Stored'
      BY <2>2, <2>3, <2>4 DEF Stored, InTexts, Text
    <2> QED BY <1>1, <1>4, <2>1, <2>5
  <1> QED BY <1>a, <1>2, <1>3, <1>4 DEF MaybeApplied

-----------------------------------------------------------------------------
(* Types.                                                                  *)

\* The names of the mishaps.
LEMMA MishapNames ==
    ASSUME NEW S, NEW a, NEW i, NEW t
    PROVE  Overlap(S) \subseteq {"overlap"} /\ Twin(i) \subseteq {"twin"}
           /\ Outdated(a, i, t) \subseteq {"replay"}
  BY DEF Overlap, Twin, Outdated

\* The two rows that name no file.
LEMMA EmptyRows == NoRow \in Row /\ EmptyRow \in Row /\ NoRow.id = NoId /\ EmptyRow.id = NoId
  BY DEF NoRow, EmptyRow, NoId, Row

\* An idle thread.
LEMMA TaskTyped ==
    ASSUME NEW places, "idle" \in places
    PROVE  Task \in Thread(places) /\ Task.pc = "idle"
  <1>1. Nothing \in MaybeText /\ <<>> \in Seq(PendingOp) /\ "device" \in Copies
    BY DEF MaybeText, Copies
  <1> QED BY <1>1, EmptyRows DEF Task, Thread

\* A thread keeps what it holds while versions are added.
LEMMA HeldStays ==
    ASSUME TypeInv, Grows
    PROVE  /\ UNCHANGED w => WorkerTyped'
           /\ UNCHANGED d => DownloadTyped'
           /\ UNCHANGED u => DialogTyped'
  <1>1. UNCHANGED w => WorkerTyped'
    BY DEF TypeInv, WorkerTyped, Busy
  <1>2. ASSUME UNCHANGED d PROVE DownloadTyped'
    <2>1. d.pc # "idle" => d.id \in Ids /\ d.ver \in 1..Len(file'[d.id]) /\ file'[d.id][d.ver] = d.got
      BY VersionStays DEF TypeInv, StoreTyped, DownloadTyped
    <2> QED BY <1>2, <2>1 DEF TypeInv, DownloadTyped, IsVersion
  <1>3. ASSUME UNCHANGED u PROVE DialogTyped'
    <2>1. u.pc \in {"rename", "write", "saveRemote"} =>
             u.id \in Ids /\ u.ver \in 1..Len(file'[u.id]) /\ file'[u.id][u.ver] = u.got
      BY VersionStays DEF TypeInv, StoreTyped, DialogTyped
    <2> QED BY <1>3, <2>1 DEF TypeInv, DialogTyped, IsVersion
  <1> QED BY <1>1, <1>2, <1>3

\* The worker turns to the next operation.
LEMMA DoneTyped ==
    ASSUME WorkerTyped, Busy(w), OpDone
    PROVE  WorkerTyped' /\ w'.pc = "next"
  <1>1. Tail(w.todo) \in Seq(PendingOp)
    BY DEF WorkerTyped, Thread
  <1>2. Task \in Thread(WorkerPlaces)
    BY TaskTyped DEF WorkerPlaces
  <1>3. w' \in Thread(WorkerPlaces) /\ w'.pc = "next"
    BY <1>1, <1>2 DEF OpDone, Thread, WorkerPlaces
  <1> QED BY <1>3 DEF WorkerTyped, Busy

\* The first state has the types.
LEMMA TypeInvInit == Init => TypeInv
  <1> SUFFICES ASSUME Init PROVE TypeInv
    OBVIOUS
  <1>1. {} \in Texts /\ {} \in MaybeText /\ Nothing \in MaybeText /\ NoRow \in Row
    BY EmptyRows DEF Texts, MaybeText
  <1>2. StoreTyped
    <2>1. <<{}>> \in Seq(MaybeText) /\ <<>> \in Seq(MaybeText)
      BY <1>1
    <2> QED BY <2>1 DEF Init, StoreTyped
  <1>3. DataTyped
    <2>1. row \in Row /\ disk \in MaybeText /\ shadow \in MaybeText
      <3> DEFINE r == [id |-> 1, hash |-> {}, version |-> 1, deleted |-> FALSE]
      <3>1. r \in Row
        BY <1>1, EngineAssumption DEF Row
      <3> HIDE DEF r
      <3>2. row \in {NoRow, r} /\ disk \in {Nothing, {}} /\ shadow \in {Nothing, {}}
        BY DEF Init, r
      <3> QED BY <1>1, <3>1, <3>2
    <2>2. copy \in [Copies -> MaybeText] /\ events \in Seq({"modified", "deleted"})
      BY <1>1 DEF Init
    <2> QED BY <2>1, <2>2 DEF Init, DataTyped
  <1>4. QueueTyped
    BY DEF Init, QueueTyped, Distinct
  <1>5. WorkerTyped
    BY TaskTyped DEF Init, WorkerTyped, WorkerPlaces, Busy
  <1>6. DownloadTyped
    BY TaskTyped DEF Init, DownloadTyped, DownloadPlaces
  <1>7. DialogTyped
    BY TaskTyped DEF Init, DialogTyped, DialogPlaces
  <1> QED BY <1>2, <1>3, <1>4, <1>5, <1>6, <1>7 DEF TypeInv

\* Another device writes.
LEMMA RemoteWriteTyped ==
    ASSUME TypeInv, NEW i \in Ids, NEW text \in MaybeText, RemoteWrite(i, text),
           used' \subseteq Edits
    PROVE  TypeInv' /\ Grows
  <1>1. file' = [file EXCEPT ![i] = Append(@, text)] /\ news' = news \cup {i}
    BY DEF RemoteWrite
  <1>2. /\ Grows /\ Len(file'[i]) = Len(file[i]) + 1
        /\ \A j \in Ids \ {i} : file'[j] = file[j]
    BY <1>1, AppendGrows DEF TypeInv, StoreTyped
  <1>3. Len(file[i]) \in Nat
    BY DEF TypeInv, StoreTyped
  <1>4. StoreTyped'
    <2>1. file'[i] # <<>>
      BY <1>2, <1>3
    <2> QED BY <1>1, <1>2, <2>1 DEF TypeInv, StoreTyped, RemoteWrite, Grows
  <1>5. DataTyped'
    BY MishapNames DEF TypeInv, DataTyped, RemoteWrite, db, saved, Mishaps
  <1>6. QueueTyped' /\ UNCHANGED <<w, d, u>>
    BY DEF TypeInv, QueueTyped, RemoteWrite, db, tasks
  <1> QED BY <1>2, <1>4, <1>5, <1>6, HeldStays DEF TypeInv

\* The texts the other devices write.
LEMMA OthersTyped ==
    ASSUME TypeInv, Others
    PROVE  TypeInv' /\ Grows
  <1>1. PICK i \in Ids : RemoteDelete(i) \/ \E e \in RemoteEdits : RemoteEdit(i, e)
    BY DEF Others
  <1>2. CASE RemoteDelete(i)
    BY <1>2, RemoteWriteTyped DEF RemoteDelete, MaybeText, TypeInv, DataTyped
  <1>3. ASSUME NEW e \in RemoteEdits, RemoteEdit(i, e) PROVE TypeInv' /\ Grows
    <2> DEFINE t == {e} \cup IF file[i] = <<>> THEN {} ELSE Text(Current(i))
    <2>1. t \in MaybeText
      BY DEF Text, MaybeText, Texts, Edits
    <2>2. RemoteWrite(i, t) /\ used' \subseteq Edits
      BY <1>3 DEF RemoteEdit, TypeInv, DataTyped, Edits
    <2> QED BY <2>1, <2>2, RemoteWriteTyped
  <1> QED BY <1>1, <1>2, <1>3

\* What the watcher reports.
LEMMA NoticedTyped ==
    ASSUME events \in Seq({"modified", "deleted"}), NEW e \in {"modified", "deleted"}
    PROVE  Noticed(e) \in Seq({"modified", "deleted"})
  BY DEF Noticed

\* The user and the watcher: Save, Delete, onFsEvent, Scan and onFileOpened.
LEMMA QueueingTyped ==
    ASSUME TypeInv, \/ \E e \in UserEdits : Save(e)
                    \/ Delete \/ onFsEvent \/ Scan \/ onFileOpened
    PROVE  TypeInv' /\ Grows
  <1> USE DEF TypeInv
  <1>1. UNCHANGED server /\ UNCHANGED <<w, d, u>>
    BY DEF Save, Delete, onFsEvent, Scan, onFileOpened, tasks
  <1>2. StoreTyped' /\ Grows
    BY <1>1, SameGrows DEF StoreTyped, server
  <1>3. w.todo \in Seq(PendingOp)
    BY DEF WorkerTyped, Thread
  <1>4. QueueTyped /\ mishaps \subseteq Mishaps /\ events \in Seq({"modified", "deleted"})
    BY DEF DataTyped
  <1>5. QueueTyped' /\ DataTyped'
    <2>1. ASSUME NEW e \in UserEdits, Save(e) PROVE QueueTyped' /\ DataTyped'
      <3>1. disk' \in MaybeText /\ used' \subseteq Edits
        BY <2>1 DEF Save, DataTyped, MaybeText, Texts, Text, Edits
      <3>2. events' \in Seq({"modified", "deleted"})
        BY <1>4, <2>1, NoticedTyped DEF Save
      <3>3. QueueTyped' /\ mishaps' \subseteq Mishaps
        <4>1. CASE enqueueOp("upload", disk')
          BY <1>3, <1>4, <4>1, Enqueued
        <4>2. CASE UNCHANGED <<ops, mishaps>>
          BY <1>4, <4>2 DEF QueueTyped
        <4>3. CASE mishaps' = mishaps \cup {"unseen"} /\ UNCHANGED ops
          BY <1>4, <4>3 DEF QueueTyped, Mishaps
        <4> QED BY <2>1, <4>1, <4>2, <4>3 DEF Save
      <3> QED BY <2>1, <3>1, <3>2, <3>3 DEF Save, DataTyped
    <2>2. CASE Delete
      <3>1. events' \in Seq({"modified", "deleted"})
        BY <1>4, <2>2, NoticedTyped DEF Delete
      <3>2. mishaps' \subseteq Mishaps
        BY <1>4, <2>2 DEF Delete, Mishaps
      <3>3. disk' \in MaybeText
        BY <2>2 DEF Delete, MaybeText
      <3> QED BY <1>4, <2>2, <3>1, <3>2, <3>3 DEF Delete, DataTyped, db, QueueTyped
    <2>3. CASE onFsEvent
      <3>1. events' \in Seq({"modified", "deleted"})
        BY <1>4, <2>3 DEF onFsEvent
      <3>2. QueueTyped' /\ mishaps' \subseteq Mishaps
        <4>1. CASE paused
          BY <1>4, <2>3, <4>1 DEF onFsEvent, QueueTyped, Mishaps
        <4>2. CASE ~paused
          <5>1. PICK kind \in {"upload", "delete"} : enqueueOp(kind, disk)
            BY <2>3, <4>2 DEF onFsEvent
          <5> QED BY <1>3, <1>4, <5>1, Enqueued
        <4> QED BY <4>1, <4>2
      <3> QED BY <2>3, <3>1, <3>2 DEF onFsEvent, DataTyped, saved, bounds
    <2>4. CASE Scan
      <3>1. QueueTyped' /\ mishaps' \subseteq Mishaps
        BY <1>3, <1>4, <2>4, Enqueued DEF Scan
      <3> QED BY <2>4, <3>1 DEF Scan, DataTyped, saved, bounds
    <2>5. CASE onFileOpened
      BY <1>4, <2>5, EmptyRows DEF onFileOpened, DataTyped, saved, bounds, QueueTyped
    <2> QED BY <2>1, <2>2, <2>3, <2>4, <2>5
  <1> QED BY <1>1, <1>2, <1>5, HeldStays

\* The modes: setPaused, Stop and Start.
LEMMA ModesTyped ==
    ASSUME TypeInv, setPaused \/ Stop \/ Start
    PROVE  TypeInv' /\ Grows
  <1> USE DEF TypeInv
  <1>1. UNCHANGED <<file, idem, row, ops, conflicts, saved, used>>
    BY DEF setPaused, Stop, Start, server, db, bounds
  <1>2. Grows
    BY <1>1, SameGrows DEF StoreTyped
  <1>3. QueueTyped'
    BY <1>1 DEF QueueTyped
  <1>4. CASE setPaused \/ Start
    <2>1. UNCHANGED <<news, events, mishaps, w, d, u>>
      BY <1>4 DEF setPaused, Start, server, tasks
    <2> QED BY <1>1, <1>2, <1>3, <2>1, HeldStays DEF StoreTyped, DataTyped, saved
  <1>5. CASE Stop
    <2>1. DataTyped'
      <3>1. events' \in Seq({"modified", "deleted"}) /\ mishaps' \subseteq Mishaps
        BY <1>5 DEF Stop, DataTyped, Mishaps
      <3> QED BY <1>1, <3>1 DEF DataTyped, saved
    <2>2. w' = Task /\ d' = Task /\ u' = Task
      BY <1>5 DEF Stop
    <2>3. d.pc # "idle" => d.id \in Ids /\ file[d.id] # <<>>
      BY DEF DownloadTyped, IsVersion, StoreTyped
    <2>4. StoreTyped'
      BY <1>1, <1>5, <2>3 DEF Stop, StoreTyped
    <2>5. WorkerTyped'
      BY <2>2, TaskTyped DEF WorkerTyped, WorkerPlaces, Busy
    <2>6. DownloadTyped'
      BY <2>2, TaskTyped DEF DownloadTyped, DownloadPlaces
    <2>7. DialogTyped'
      BY <2>2, TaskTyped DEF DialogTyped, DialogPlaces
    <2> QED BY <1>2, <1>3, <2>1, <2>4, <2>5, <2>6, <2>7
  <1> QED BY <1>4, <1>5

\* The worker's steps on this computer: between two requests.
LEMMA WorkerLocalTyped ==
    ASSUME TypeInv, \/ workerLoop \/ NextOp \/ ReadFile \/ ReadRow \/ FetchCurrent \/ MergeLocal
                    \/ SaveUpload \/ SaveMerged \/ removeFile \/ ConflictCopy \/ WriteMerged
                    \/ OpFails
    PROVE  TypeInv' /\ Grows
  <1> USE DEF TypeInv
  <1>1. UNCHANGED server /\ UNCHANGED <<d, u, used>>
    BY DEF workerLoop, NextOp, ReadFile, ReadRow, FetchCurrent, MergeLocal, SaveUpload, SaveMerged,
           removeFile, ConflictCopy, WriteMerged, OpFails, bounds
  <1>2. StoreTyped' /\ Grows
    BY <1>1, SameGrows DEF StoreTyped, server
  <1>3. QueueTyped /\ mishaps \subseteq Mishaps /\ w \in Thread(WorkerPlaces)
    BY DEF DataTyped, WorkerTyped
  <1>4. ASSUME opFailed, Busy(w), UNCHANGED <<row, conflicts, saved, events>>
        PROVE  WorkerTyped' /\ DataTyped' /\ QueueTyped'
    BY <1>1, <1>3, <1>4, OpCounted, DoneTyped DEF DataTyped, saved, opFailed
  <1>5. WorkerTyped' /\ DataTyped' /\ QueueTyped'
    <2>1. CASE workerLoop
      <3>1. ops \in Seq(PendingOp) /\ Task \in Thread(WorkerPlaces)
        BY TaskTyped DEF QueueTyped, WorkerPlaces
      <3>2. w' \in Thread(WorkerPlaces) /\ w'.pc = "next"
        BY <2>1, <3>1 DEF workerLoop, Thread, WorkerPlaces
      <3> QED BY <2>1, <3>2 DEF workerLoop, WorkerTyped, Busy, DataTyped, QueueTyped, db, saved, bounds
    <2>2. CASE NextOp
      <3>1. DataTyped' /\ QueueTyped'
        BY <2>2, MishapNames DEF NextOp, DataTyped, QueueTyped, db, saved, bounds, Mishaps
      <3>2. CASE w' = Task
        BY <3>1, <3>2, TaskTyped DEF WorkerTyped, WorkerPlaces, Busy
      <3>3. CASE w.todo # <<>> /\ (w' = [w EXCEPT !.pc = "read"] \/ w' = [w EXCEPT !.pc = "delete"])
        <4>1. /\ w' \in Thread(WorkerPlaces) /\ w'.todo = w.todo /\ w'.pc \in {"read", "delete"}
          BY <1>3, <3>3 DEF Thread, WorkerPlaces
        <4> QED BY <3>1, <3>3, <4>1 DEF WorkerTyped, Busy
      <3> QED BY <2>2, <3>2, <3>3 DEF NextOp
    <2>3. CASE ReadFile
      <3>1. CASE disk = Nothing
        BY <1>4, <2>3, <3>1 DEF ReadFile, Busy
      <3>2. CASE disk # Nothing
        <4>1. /\ w' \in Thread(WorkerPlaces) /\ w'.pc = "row" /\ w'.todo = w.todo /\ w'.text \in Texts
          BY <1>3, <2>3, <3>2, ZenonT(30) DEF ReadFile, Thread, WorkerPlaces, DataTyped, MaybeText
        <4> QED BY <2>3, <3>2, <4>1 DEF ReadFile, WorkerTyped, Busy, DataTyped, QueueTyped, saved, bounds
      <3> QED BY <3>1, <3>2
    <2>4. CASE ReadRow
      <3>1. DataTyped'
        BY <2>4 DEF ReadRow, DataTyped, saved, bounds
      <3>2. CASE OpDone /\ removeOp
        BY <1>3, <2>4, <3>1, <3>2, DoneTyped, OpRemoved DEF ReadRow, Busy
      <3>3. CASE ~(OpDone /\ removeOp)
        <4> DEFINE i == IF row.id = NoId THEN NewId ELSE row.id
        <4> DEFINE b == IF row = NoRow THEN 0 ELSE row.version
        <4>1. /\ row.id # NoId \/ Unused # {}
              /\ w' = [w EXCEPT !.pc = "send", !.base = b, !.id = i] /\ UNCHANGED ops
          BY <2>4, <3>3 DEF ReadRow
        <4>2. i \in Ids
          BY <4>1, NewIdUnused DEF Unused, DataTyped, Row
        <4>3. b \in Nat
          BY DEF DataTyped, Row
        <4> HIDE DEF i, b
        <4>4. /\ w' \in Thread(WorkerPlaces) /\ w'.pc = "send" /\ w'.todo = w.todo
              /\ w'.text = w.text /\ w'.id \in Ids
          BY <1>3, <4>1, <4>2, <4>3 DEF Thread, WorkerPlaces
        <4> QED BY <2>4, <3>1, <4>1, <4>4 DEF ReadRow, WorkerTyped, Busy, QueueTyped
      <3> QED BY <3>2, <3>3
    <2>5. CASE FetchCurrent
      <3>1. CASE ~Live(w.id)
        BY <1>4, <2>5, <3>1 DEF FetchCurrent, Busy
      <3>2. CASE Live(w.id)
        <4>1. Current(w.id) \in Texts
          BY <2>5, <3>2, CurrentIsVersion DEF FetchCurrent, WorkerTyped, StoreTyped, Live, MaybeText
        <4>2. /\ w' \in Thread(WorkerPlaces) /\ w'.pc = "merge" /\ w'.todo = w.todo
              /\ w'.text = w.text /\ w'.id = w.id /\ w'.got \in Texts
          BY <1>3, <2>5, <3>2, <4>1, ZenonT(30) DEF FetchCurrent, Thread, WorkerPlaces, MaybeText
        <4> QED BY <2>5, <3>2, <4>2 DEF FetchCurrent, WorkerTyped, Busy, DataTyped, QueueTyped, saved, bounds
      <3> QED BY <3>1, <3>2
    <2>6. CASE MergeLocal
      <3>1. DataTyped' /\ QueueTyped'
        BY <2>6 DEF MergeLocal, DataTyped, QueueTyped, db, saved, bounds
      <3>2. PICK m \in Merged(Text(shadow), Text(disk), w.got) :
               w' = [w EXCEPT !.text = Text(disk), !.got = m,
                              !.pc = IF m = Nothing THEN "copy" ELSE "write"]
        BY <2>6 DEF MergeLocal
      <3>3. m \in MaybeText /\ Text(disk) \in Texts
        BY <2>6 DEF Merged, MaybeText, Texts, Text, MergeLocal, WorkerTyped
      <3>4. /\ w' \in Thread(WorkerPlaces) /\ w'.todo = w.todo /\ w'.id = w.id
            /\ w'.text \in Texts /\ w'.got = m
            /\ w'.pc = IF m = Nothing THEN "copy" ELSE "write"
        BY <1>3, <3>2, <3>3 DEF Thread, WorkerPlaces, MaybeText
      <3> QED BY <2>6, <3>1, <3>3, <3>4 DEF MergeLocal, WorkerTyped, Busy, MaybeText
    <2>7. CASE SaveUpload
      <3>1. row' \in Row /\ shadow' \in MaybeText
        BY <1>3, <2>7 DEF SaveUpload, Row, MaybeText, WorkerTyped, Thread
      <3> QED BY <1>3, <2>7, <3>1, DoneTyped, OpRemoved DEF SaveUpload, Busy, DataTyped, bounds
    <2>8. CASE SaveMerged
      <3>1. row' \in Row /\ shadow' \in MaybeText
        BY <1>3, <2>8 DEF SaveMerged, Row, MaybeText, WorkerTyped, Thread
      <3> QED BY <1>3, <2>8, <3>1, DoneTyped, OpRemoved DEF SaveMerged, Busy, DataTyped, bounds
    <2>9. CASE removeFile
      BY <1>3, <2>9, DoneTyped, OpRemoved, EmptyRows DEF removeFile, Busy, DataTyped, saved, bounds
    <2>10. CASE ConflictCopy
      <3>1. conflicts' \subseteq ConflictState /\ copy' \in [Copies -> MaybeText]
        BY <1>3, <2>10 DEF ConflictCopy, addConflict, ConflictState, Copies, DataTyped, WorkerTyped,
                           Thread, MaybeText
      <3> QED BY <1>3, <2>10, <3>1, DoneTyped, OpRemoved DEF ConflictCopy, Busy, DataTyped, bounds
    <2>11. CASE WriteMerged
      <3>1. disk' \in MaybeText /\ backups' \subseteq Texts
        BY <2>11 DEF WriteMerged, WorkerTyped, MaybeText, DataTyped, SameSecond
      <3>2. events' \in Seq({"modified", "deleted"})
        BY <2>11, NoticedTyped DEF WriteMerged, DataTyped
      <3>3. /\ w' \in Thread(WorkerPlaces) /\ w'.pc = "put" /\ w'.todo = w.todo
            /\ w'.text = w.text /\ w'.id = w.id /\ w'.got = w.got
        BY <1>3, <2>11 DEF WriteMerged, Thread, WorkerPlaces
      <3> QED BY <2>11, <3>1, <3>2, <3>3 DEF WriteMerged, WorkerTyped, Busy, DataTyped, QueueTyped, db, bounds
    <2>12. CASE OpFails
      BY <1>4, <2>12 DEF OpFails, Busy
    <2> QED BY <2>1, <2>2, <2>3, <2>4, <2>5, <2>6, <2>7, <2>8, <2>9, <2>10, <2>11, <2>12
  <1> QED BY <1>1, <1>2, <1>5, HeldStays

\* A tombstone, on a file that exists.
LEMMA TombstoneGrows ==
    ASSUME StoreTyped, NEW i \in Ids, file' = Tombstoned(i), UNCHANGED <<idem, news>>
    PROVE  Grows /\ StoreTyped'
  <1>1. CASE file[i] = <<>>
    <2>1. file' = file
      BY <1>1 DEF Tombstoned, StoreTyped
    <2> QED BY <2>1, SameGrows DEF StoreTyped
  <1>2. CASE file[i] # <<>>
    <2>1. file' = [file EXCEPT ![i] = Append(@, Nothing)]
      BY <1>2 DEF Tombstoned
    <2>2. /\ Grows /\ Len(file'[i]) = Len(file[i]) + 1
          /\ \A j \in Ids \ {i} : file'[j] = file[j]
      BY <2>1, AppendGrows DEF StoreTyped, MaybeText
    <2>3. Len(file[i]) \in Nat
      BY DEF StoreTyped
    <2>4. file'[i] # <<>>
      BY <2>2, <2>3
    <2> QED BY <2>2, <2>4 DEF StoreTyped, Grows
  <1> QED BY <1>1, <1>2

\* The worker's requests.
LEMMA WorkerRequestsTyped ==
    ASSUME TypeInv, \/ UploadAnswered \/ UploadLost \/ DeleteAnswered \/ DeleteLost
                    \/ PutMerged \/ PutMergedLost
    PROVE  TypeInv' /\ Grows
  <1> USE DEF TypeInv
  <1>1. UNCHANGED <<news, d, u, used, row, conflicts, saved, events>>
    BY DEF UploadAnswered, UploadLost, DeleteAnswered, DeleteLost, PutMerged, PutMergedLost, bounds, db
  <1>2. QueueTyped /\ mishaps \subseteq Mishaps /\ w \in Thread(WorkerPlaces)
    BY DEF DataTyped, WorkerTyped
  <1>3. w.base \in Nat /\ w.ver \in Nat /\ \A i \in Ids : Len(file[i]) \in Nat
    BY <1>2 DEF Thread, StoreTyped
  <1>4. ASSUME NEW a, NEW i \in Ids, NEW base \in Nat, NEW text \in Texts, Answer(a, i, base, text)
        PROVE  a.ver \in Nat
    BY <1>3, <1>4 DEF Answer, StoreTyped
  <1>5. Grows /\ StoreTyped' /\ WorkerTyped' /\ mishaps' \subseteq Mishaps /\ QueueTyped'
    <2>1. CASE UploadAnswered
      <3> DEFINE a == Upload(w.id, w.base, w.text)
      <3>1. w.id \in Ids /\ w.text \in Texts /\ Busy(w)
        BY <2>1 DEF UploadAnswered, WorkerTyped, Busy
      <3>2. MaybeApplied(a)
        BY <2>1 DEF UploadAnswered, MaybeApplied
      <3>3. a.ver \in Nat
        BY <1>3, <1>4, <3>1, UploadAnswer
      <3>4. Grows /\ StoreTyped'
        BY <1>1, <1>3, <3>1, <3>2, UploadGrows
      <3>5. CASE opFailed
        BY <1>2, <3>1, <3>4, <3>5, OpCounted, DoneTyped DEF opFailed
      <3>6. CASE ~opFailed
        <4>1. /\ w' = [w EXCEPT !.pc = IF a.code = "conflict" THEN "fetch" ELSE "save", !.ver = a.ver]
              /\ mishaps' = mishaps \cup Outdated(a, w.id, w.text) \cup
                             IF a.code = "ok" THEN Twin(w.id) ELSE {}
              /\ UNCHANGED ops
          BY <2>1, <3>6 DEF UploadAnswered
        <4> HIDE DEF a
        <4>2. /\ w' \in Thread(WorkerPlaces) /\ w'.pc \in {"fetch", "save"} /\ w'.todo = w.todo
              /\ w'.text = w.text /\ w'.id = w.id
          BY <1>2, <3>3, <4>1 DEF Thread, WorkerPlaces
        <4>3. WorkerTyped' /\ QueueTyped'
          BY <3>1, <4>1, <4>2 DEF WorkerTyped, Busy, QueueTyped
        <4>4. mishaps' \subseteq Mishaps
          BY <1>2, <4>1, MishapNames DEF Mishaps
        <4> QED BY <3>4, <4>3, <4>4
      <3> QED BY <3>5, <3>6
    <2>2. CASE UploadLost
      <3>1. w.id \in Ids /\ w.text \in Texts /\ Busy(w)
        BY <2>2 DEF UploadLost, WorkerTyped, Busy
      <3>2. Grows /\ StoreTyped'
        BY <1>1, <1>3, <2>2, <3>1, UploadGrows DEF UploadLost
      <3> QED BY <1>2, <2>2, <3>1, <3>2, DoneTyped DEF UploadLost, db, QueueTyped
    <2>3. CASE DeleteAnswered
      <3>1. Grows /\ StoreTyped'
        <4>1. CASE row.id = NoId
          BY <1>1, <2>3, <4>1, SameGrows DEF DeleteAnswered, StoreTyped
        <4>2. CASE row.id # NoId
          BY <1>1, <2>3, <4>2, TombstoneGrows DEF DeleteAnswered, DataTyped, Row
        <4> QED BY <4>1, <4>2
      <3>2. w' \in Thread(WorkerPlaces) /\ w'.pc = "forget" /\ w'.todo = w.todo
        BY <1>2, <2>3 DEF DeleteAnswered, Thread, WorkerPlaces
      <3> QED BY <1>2, <2>3, <3>1, <3>2 DEF DeleteAnswered, WorkerTyped, Busy, QueueTyped, db
    <2>4. CASE DeleteLost
      <3>1. row.id \in Ids /\ UNCHANGED idem
        BY <2>4 DEF DeleteLost, DataTyped, Row
      <3>2. Grows /\ StoreTyped'
        <4>1. CASE file' = file
          BY <1>1, <3>1, <4>1, SameGrows DEF StoreTyped
        <4>2. CASE file' = Tombstoned(row.id)
          BY <1>1, <3>1, <4>2, TombstoneGrows
        <4> QED BY <2>4, <4>1, <4>2 DEF DeleteLost
      <3> QED BY <1>2, <2>4, <3>2, DoneTyped DEF DeleteLost, db, QueueTyped, Busy
    <2>5. CASE PutMerged
      <3> DEFINE a == Upload(w.id, w.ver, w.got)
      <3>1. w.id \in Ids /\ w.got \in Texts /\ w.text \in Texts /\ w.todo # <<>>
        BY <2>5 DEF PutMerged, WorkerTyped, Busy
      <3>2. MaybeApplied(a)
        BY <2>5 DEF PutMerged, MaybeApplied
      <3>3. a.ver \in Nat
        BY <1>3, <1>4, <3>1, UploadAnswer
      <3>4. Grows /\ StoreTyped'
        BY <1>1, <1>3, <3>1, <3>2, UploadGrows
      <3>5. /\ w' = IF a.code \in {"ok", "replay"} THEN [w EXCEPT !.pc = "saveMerged", !.ver = a.ver]
                    ELSE [w EXCEPT !.pc = "copy"]
            /\ mishaps' = mishaps \cup Outdated(a, w.id, w.got) /\ UNCHANGED ops
        BY <2>5 DEF PutMerged, db
      <3> HIDE DEF a
      <3>6. /\ w' \in Thread(WorkerPlaces) /\ w'.pc \in {"saveMerged", "copy"} /\ w'.todo = w.todo
            /\ w'.text = w.text /\ w'.id = w.id /\ w'.got = w.got
        BY <1>2, <3>3, <3>5 DEF Thread, WorkerPlaces
      <3>7. WorkerTyped' /\ QueueTyped'
        BY <3>1, <3>5, <3>6 DEF WorkerTyped, Busy, QueueTyped
      <3>8. mishaps' \subseteq Mishaps
        BY <1>2, <3>5, MishapNames DEF Mishaps
      <3> QED BY <3>4, <3>7, <3>8
    <2>6. CASE PutMergedLost
      <3>1. w.id \in Ids /\ w.got \in Texts /\ w.text \in Texts /\ w.todo # <<>>
        BY <2>6 DEF PutMergedLost, WorkerTyped, Busy
      <3>2. Grows /\ StoreTyped'
        BY <1>1, <1>3, <2>6, <3>1, UploadGrows DEF PutMergedLost
      <3>3. /\ w' \in Thread(WorkerPlaces) /\ w'.pc = "copy" /\ w'.todo = w.todo
            /\ w'.text = w.text /\ w'.id = w.id
        BY <1>2, <2>6 DEF PutMergedLost, Thread, WorkerPlaces
      <3> QED BY <1>2, <2>6, <3>1, <3>2, <3>3 DEF PutMergedLost, WorkerTyped, Busy, QueueTyped, db
    <2> QED BY <2>1, <2>2, <2>3, <2>4, <2>5, <2>6
  <1>6. DataTyped'
    BY <1>1, <1>5 DEF DataTyped, saved
  <1> QED BY <1>1, <1>5, <1>6, HeldStays

\* A thread replaces the file.
LEMMA ReplaceTyped ==
    ASSUME DataTyped, NEW text \in MaybeText, Replace(text)
    PROVE  /\ disk' = text /\ backups' \subseteq Texts
           /\ events' \in Seq({"modified", "deleted"})
  <1>1. backups' \subseteq Texts
    BY DEF Replace, DataTyped, MaybeText, SameSecond
  <1>2. events' \in Seq({"modified", "deleted"})
    BY NoticedTyped DEF Replace, DataTyped
  <1> QED BY <1>1, <1>2 DEF Replace

\* The downloading thread begins with the newest version of a file.
LEMMA DownloadBegins ==
    ASSUME StoreTyped, NEW i \in news,
           d' = [Task EXCEPT !.pc = "row", !.id = i, !.got = Current(i), !.ver = Len(file[i])],
           UNCHANGED file
    PROVE  DownloadTyped' /\ d'.id = i /\ d'.pc = "row"
  <1>1. IsVersion(i, Len(file[i]), Current(i)) /\ Current(i) \in MaybeText /\ i \in Ids
    BY CurrentIsVersion DEF StoreTyped
  <1>2. Len(file[i]) \in Nat /\ Task \in Thread(DownloadPlaces)
    BY <1>1, TaskTyped DEF StoreTyped, DownloadPlaces
  <1>3. /\ d' \in Thread(DownloadPlaces) /\ d'.pc = "row" /\ d'.id = i
        /\ d'.got = Current(i) /\ d'.ver = Len(file[i])
    BY <1>1, <1>2 DEF Thread, DownloadPlaces
  <1> QED BY <1>1, <1>3 DEF DownloadTyped, IsVersion

\* The downloading thread.
LEMMA DownloaderTyped ==
    ASSUME TypeInv, \/ Poll \/ PollFails \/ Downloader
                    \/ \E i \in Ids : onWsEvent(i)
    PROVE  TypeInv' /\ Grows
  <1> USE DEF TypeInv
  <1>1. UNCHANGED <<file, idem, ops, w, u, used>>
    BY DEF Poll, PollFails, Downloader, CheckRow, CompareDisk, ApplyFile, ApplyRow, onWsEvent, server,
           db, bounds, tasks
  <1>2. Grows /\ QueueTyped'
    BY <1>1, SameGrows DEF StoreTyped, QueueTyped
  <1>3. d \in Thread(DownloadPlaces) /\ mishaps \subseteq Mishaps
    BY DEF DownloadTyped, DataTyped
  <1>4. StoreTyped' /\ DataTyped' /\ DownloadTyped'
    <2>1. CASE Poll
      <3>1. StoreTyped' /\ DataTyped'
        BY <2>1, MishapNames DEF Poll, StoreTyped, DataTyped, db, saved, bounds, Mishaps
      <3>2. DownloadTyped'
        BY <1>1, <1>2, <2>1, HeldStays, DownloadBegins DEF Poll
      <3> QED BY <3>1, <3>2
    <2>2. ASSUME NEW i \in Ids, onWsEvent(i) PROVE StoreTyped' /\ DataTyped' /\ DownloadTyped'
      <3>1. StoreTyped' /\ DataTyped'
        BY <2>2, MishapNames DEF onWsEvent, StoreTyped, DataTyped, db, saved, bounds, Mishaps, server
      <3>2. DownloadTyped'
        BY <1>1, <2>2, DownloadBegins DEF onWsEvent
      <3> QED BY <3>1, <3>2
    <2>3. CASE PollFails
      BY <1>2, <2>3, HeldStays DEF PollFails, StoreTyped, DataTyped, db, saved, server, tasks
    <2>4. CASE CheckRow
      <3>1. StoreTyped' /\ DataTyped'
        BY <2>4 DEF CheckRow, StoreTyped, DataTyped, db, saved, bounds, server
      <3>2. CASE d' = Task
        BY <3>1, <3>2, TaskTyped DEF DownloadTyped, DownloadPlaces
      <3>3. CASE d' = [d EXCEPT !.st = row, !.pc = IF d.got = Nothing THEN "write" ELSE "compare"]
        <4>1. /\ d' \in Thread(DownloadPlaces) /\ d'.id = d.id /\ d'.got = d.got /\ d'.ver = d.ver
          BY <1>3, <3>3 DEF Thread, DownloadPlaces, DataTyped
        <4> QED BY <1>1, <2>4, <3>1, <4>1 DEF CheckRow, DownloadTyped, IsVersion
      <3> QED BY <2>4, <3>2, <3>3 DEF CheckRow
    <2>5. CASE CompareDisk
      <3>1. StoreTyped'
        BY <2>5 DEF CompareDisk, StoreTyped, server
      <3>2. CASE d' = Task
        <4>1. CASE UNCHANGED <<copy, conflicts>>
          BY <2>5, <3>1, <3>2, <4>1, TaskTyped
             DEF CompareDisk, DownloadTyped, DownloadPlaces, DataTyped, bounds
        <4>2. CASE /\ copy' = [copy EXCEPT !["unsaved"] = disk]
                   /\ addConflict(d.id, d.ver, "unsaved")
          <5>1. d.id \in Ids /\ d.ver \in Nat
            BY <1>3, <2>5 DEF CompareDisk, DownloadTyped, IsVersion, Thread
          <5>2. conflicts' \subseteq ConflictState /\ copy' \in [Copies -> MaybeText]
            BY <4>2, <5>1 DEF addConflict, ConflictState, Copies, DataTyped
          <5> QED BY <2>5, <3>1, <3>2, <5>2, TaskTyped
             DEF CompareDisk, DownloadTyped, DownloadPlaces, DataTyped, bounds
        <4> QED BY <2>5, <4>1, <4>2 DEF CompareDisk
      <3>3. CASE d' = [d EXCEPT !.pc = "write"] /\ UNCHANGED <<copy, conflicts>>
        <4>1. d' \in Thread(DownloadPlaces) /\ d'.id = d.id /\ d'.got = d.got /\ d'.ver = d.ver
          BY <1>3, <3>3 DEF Thread, DownloadPlaces
        <4>2. DownloadTyped'
          BY <1>1, <2>5, <4>1 DEF CompareDisk, DownloadTyped, IsVersion
        <4> QED BY <2>5, <3>1, <3>3, <4>2 DEF CompareDisk, DataTyped, bounds
      <3> QED BY <2>5, <3>2, <3>3 DEF CompareDisk
    <2>6. CASE ApplyFile
      <3>1. d.got \in MaybeText
        BY <1>3 DEF Thread
      <3>2. disk' = d.got /\ backups' \subseteq Texts /\ events' \in Seq({"modified", "deleted"})
        BY <2>6, <3>1, ReplaceTyped DEF ApplyFile
      <3>3. d' \in Thread(DownloadPlaces) /\ d'.id = d.id /\ d'.got = d.got /\ d'.ver = d.ver
        BY <1>3, <2>6 DEF Thread, DownloadPlaces, ApplyFile
      <3>4. DownloadTyped'
        BY <1>1, <2>6, <3>3 DEF ApplyFile, DownloadTyped, IsVersion
      <3>5. DataTyped'
        BY <2>6, <3>1, <3>2 DEF ApplyFile, DataTyped, db, bounds
      <3> QED BY <2>6, <3>4, <3>5 DEF ApplyFile, StoreTyped, server
    <2>7. CASE ApplyRow
      <3>1. d.id \in Ids /\ d.ver \in Nat /\ d.got \in MaybeText /\ d.st \in Row
        BY <1>3, <2>7 DEF ApplyRow, DownloadTyped, IsVersion, Thread
      <3>2. row' \in Row /\ shadow' \in MaybeText
        <4>1. CASE d.got # Nothing
          <5>1. /\ row' = [id |-> d.id, hash |-> d.got, version |-> d.ver, deleted |-> FALSE]
                /\ shadow' = d.got
            BY <2>7, <4>1 DEF ApplyRow
          <5> QED BY <3>1, <5>1 DEF Row, MaybeText
        <4>2. CASE d.got = Nothing
          BY <2>7, <3>1, <4>2 DEF ApplyRow, Row, DataTyped
        <4> QED BY <4>1, <4>2
      <3>3. DownloadTyped'
        BY <2>7, TaskTyped DEF ApplyRow, DownloadTyped, DownloadPlaces
      <3> QED BY <2>7, <3>2, <3>3 DEF ApplyRow, StoreTyped, DataTyped, server, bounds
    <2> QED BY <2>1, <2>2, <2>3, <2>4, <2>5, <2>6, <2>7 DEF Downloader
  <1> QED BY <1>1, <1>2, <1>4, HeldStays

\* The row as the dialog leaves it.
LEMMA ResolvedTyped ==
    ASSUME TypeInv, NEW st \in Row, NEW text \in Texts, Resolved(st, text)
    PROVE  TypeInv' /\ Grows
  <1> USE DEF TypeInv
  <1>1. u.ver \in Nat
    BY DEF DialogTyped, Thread
  <1>2. row' \in Row /\ shadow' \in MaybeText
    BY <1>1 DEF Resolved, Row, MaybeText, DataTyped
  <1>3. mishaps' \subseteq Mishaps
    BY DEF Resolved, DataTyped, Mishaps
  <1>4. DataTyped' /\ StoreTyped' /\ QueueTyped'
    BY <1>2, <1>3 DEF Resolved, DataTyped, StoreTyped, QueueTyped, server, bounds
  <1>5. DialogTyped'
    BY TaskTyped DEF Resolved, DialogTyped, DialogPlaces
  <1>6. Grows /\ UNCHANGED <<w, d>>
    BY SameGrows DEF Resolved, StoreTyped, server
  <1> QED BY <1>4, <1>5, <1>6, HeldStays

\* The dialog.
LEMMA DialogStepsTyped ==
    ASSUME TypeInv, Dialog \/ PutLocalLost
    PROVE  TypeInv' /\ Grows
  <1> USE DEF TypeInv
  <1>1. u \in Thread(DialogPlaces) /\ mishaps \subseteq Mishaps /\ QueueTyped
    BY DEF DialogTyped, DataTyped
  <1>2. ASSUME NEW c \in conflicts, KeepLocal(c) PROVE TypeInv' /\ Grows
    <2>1. c \in ConflictState /\ copy[c.copy] \in Texts
      BY <1>2 DEF DataTyped, ConflictState, KeepLocal, MaybeText
    <2>2. Task \in Thread(DialogPlaces)
      BY TaskTyped DEF DialogPlaces
    <2>3. /\ u' \in Thread(DialogPlaces) /\ u'.pc = "put" /\ u'.id = c.id /\ u'.text = copy[c.copy]
      BY <1>2, <2>1, <2>2 DEF KeepLocal, Thread, DialogPlaces, ConflictState, MaybeText, DataTyped
    <2>4. DialogTyped'
      BY <2>1, <2>3 DEF DialogTyped, ConflictState
    <2>5. mishaps' \subseteq Mishaps /\ disk' \in MaybeText /\ events' \in Seq({"modified", "deleted"})
      BY <1>1, <1>2, <2>1, MishapNames, NoticedTyped DEF KeepLocal, Mishaps, MaybeText, DataTyped
    <2>6. DataTyped' /\ StoreTyped' /\ QueueTyped' /\ Grows /\ UNCHANGED <<w, d>>
      BY <1>2, <2>5, SameGrows DEF KeepLocal, DataTyped, StoreTyped, QueueTyped, server, db
    <2> QED BY <2>4, <2>6, HeldStays
  <1>3. ASSUME NEW c \in conflicts, NEW s \in Strategies, FetchRemote(c, s) PROVE TypeInv' /\ Grows
    <2>1. c \in ConflictState /\ Live(c.id) /\ c.id \in Ids
      BY <1>3 DEF DataTyped, ConflictState, FetchRemote
    <2>2. /\ IsVersion(c.id, Len(file[c.id]), Current(c.id)) /\ Current(c.id) \in Texts
          /\ Len(file[c.id]) \in Nat
      BY <2>1, CurrentIsVersion DEF Live, StoreTyped, MaybeText
    <2>3. Task \in Thread(DialogPlaces)
      BY TaskTyped DEF DialogPlaces
    <2>4. /\ u' \in Thread(DialogPlaces) /\ u'.pc \in {"rename", "write"} /\ u'.id = c.id
          /\ u'.got = Current(c.id) /\ u'.ver = Len(file[c.id])
      BY <1>3, <2>1, <2>2, <2>3 DEF FetchRemote, Thread, DialogPlaces, ConflictState, MaybeText
    <2>5. mishaps' \subseteq Mishaps /\ UNCHANGED file
      BY <1>1, <1>3, MishapNames DEF FetchRemote, Mishaps, server
    <2>6. DialogTyped'
      BY <2>1, <2>2, <2>4, <2>5 DEF DialogTyped, IsVersion
    <2>7. DataTyped' /\ StoreTyped' /\ QueueTyped' /\ Grows /\ UNCHANGED <<w, d>>
      BY <1>3, <2>5, SameGrows DEF FetchRemote, DataTyped, StoreTyped, QueueTyped, server, db, saved
    <2> QED BY <2>6, <2>7, HeldStays
  <1>4. CASE PutLocal
    <2> DEFINE a == Upload(u.id, u.base, u.text)
    <2>1. u.id \in Ids /\ u.text \in Texts /\ u.base \in Nat
      BY <1>1, <1>4 DEF PutLocal, DialogTyped, Thread
    <2>2. MaybeApplied(a) /\ UNCHANGED news
      BY <1>4 DEF PutLocal, MaybeApplied
    <2>3. Answer(a, u.id, u.base, u.text)
      BY <2>1, UploadAnswer
    <2>4. Grows /\ StoreTyped'
      BY <2>1, <2>2, UploadGrows
    <2>5. /\ u' = IF a.code \in {"ok", "replay"} THEN [u EXCEPT !.pc = "save", !.ver = a.ver] ELSE Task
          /\ mishaps' = mishaps \cup Outdated(a, u.id, u.text)
      BY <1>4 DEF PutLocal
    <2> HIDE DEF a
    <2>6. a.ver \in Nat
      BY <2>1, <2>3 DEF Answer, StoreTyped
    <2>7. DialogTyped'
      <3>1. CASE u' = Task
        BY <3>1, TaskTyped DEF DialogTyped, DialogPlaces
      <3>2. CASE u' = [u EXCEPT !.pc = "save", !.ver = a.ver]
        <4>1. u' \in Thread(DialogPlaces) /\ u'.pc = "save" /\ u'.id = u.id /\ u'.text = u.text
          BY <1>1, <2>6, <3>2 DEF Thread, DialogPlaces
        <4> QED BY <2>1, <4>1 DEF DialogTyped
      <3> QED BY <2>5, <3>1, <3>2
    <2>8. mishaps' \subseteq Mishaps
      BY <1>1, <2>5, MishapNames DEF Mishaps
    <2>9. DataTyped' /\ QueueTyped' /\ UNCHANGED <<w, d>>
      BY <1>4, <2>8 DEF PutLocal, DataTyped, QueueTyped, db, saved, bounds
    <2> QED BY <2>4, <2>7, <2>9, HeldStays
  <1>5. CASE PutLocalLost
    <2>1. u.id \in Ids /\ u.text \in Texts /\ u.base \in Nat
      BY <1>1, <1>5 DEF PutLocalLost, DialogTyped, Thread
    <2>2. Grows /\ StoreTyped'
      BY <1>5, <2>1, UploadGrows DEF PutLocalLost
    <2>3. DialogTyped'
      BY <1>5, TaskTyped DEF PutLocalLost, DialogTyped, DialogPlaces
    <2>4. DataTyped' /\ QueueTyped' /\ UNCHANGED <<w, d>>
      BY <1>5 DEF PutLocalLost, DataTyped, QueueTyped, db, saved
    <2> QED BY <2>2, <2>3, <2>4, HeldStays
  <1>6. CASE SaveLocal
    BY <1>1, <1>6, ResolvedTyped DEF SaveLocal, DialogTyped, Thread
  <1>7. CASE SaveRemote
    BY <1>7, ResolvedTyped DEF SaveRemote, DialogTyped, DataTyped
  <1>8. CASE RenameCopy
    <2>1. u' \in Thread(DialogPlaces) /\ u'.pc = "write" /\ u'.id = u.id /\ u'.got = u.got /\ u'.ver = u.ver
      BY <1>1, <1>8 DEF RenameCopy, Thread, DialogPlaces
    <2>2. UNCHANGED <<file, idem, news, w, d, ops, row, conflicts, disk, shadow, backups, events, mishaps, used>>
      BY <1>8 DEF RenameCopy, server, db, bounds
    <2>3. DialogTyped'
      BY <1>8, <2>1, <2>2 DEF RenameCopy, DialogTyped, IsVersion
    <2>4. copy' \in [Copies -> MaybeText]
      <3>1. copy \in [Copies -> MaybeText] /\ u.copy \in Copies /\ "dated" \in Copies
        BY <1>1 DEF DataTyped, Thread, Copies
      <3>2. copy[u.copy] \in MaybeText /\ Nothing \in MaybeText
        BY <3>1 DEF MaybeText
      <3> QED BY <1>8, <3>1, <3>2 DEF RenameCopy
    <2>5. DataTyped' /\ StoreTyped' /\ QueueTyped' /\ Grows
      BY <2>2, <2>4, SameGrows DEF DataTyped, StoreTyped, QueueTyped
    <2> QED BY <2>2, <2>3, <2>5, HeldStays
  <1>9. CASE WriteRemote
    <2>1. u' \in Thread(DialogPlaces) /\ u'.pc = "saveRemote" /\ u'.id = u.id /\ u'.got = u.got /\ u'.ver = u.ver
      BY <1>1, <1>9 DEF WriteRemote, Thread, DialogPlaces
    <2>2. UNCHANGED <<file, idem, news, w, d, ops, row, conflicts, shadow, copy, mishaps, used>>
      BY <1>9 DEF WriteRemote, server, db, bounds
    <2>3. DialogTyped'
      BY <1>9, <2>1, <2>2 DEF WriteRemote, DialogTyped, IsVersion
    <2>4. /\ u.got \in MaybeText /\ disk' = u.got /\ backups' \subseteq Texts
          /\ events' \in Seq({"modified", "deleted"})
      BY <1>1, <1>9, ReplaceTyped DEF WriteRemote, Thread
    <2>5. DataTyped' /\ StoreTyped' /\ QueueTyped' /\ Grows
      BY <2>2, <2>4, SameGrows DEF DataTyped, StoreTyped, QueueTyped
    <2> QED BY <2>2, <2>3, <2>5, HeldStays
  <1> QED BY <1>2, <1>3, <1>4, <1>5, <1>6, <1>7, <1>8, <1>9 DEF Dialog

\* Every step keeps the types, and no version is lost.
LEMMA TypeInvNext ==
    ASSUME TypeInv, [Next]_vars
    PROVE  TypeInv' /\ Grows
  <1>1. CASE UNCHANGED vars
    <2>1. UNCHANGED <<file, idem, news, row, ops, conflicts, disk, shadow, copy, backups, events,
                      w, d, u, mishaps, used>>
      BY <1>1 DEF vars, server, db, saved, tasks, bounds
    <2>2. Grows /\ StoreTyped' /\ DataTyped' /\ QueueTyped'
      BY <2>1, SameGrows DEF TypeInv, StoreTyped, DataTyped, QueueTyped
    <2> QED BY <2>1, <2>2, HeldStays DEF TypeInv
  <1>2. CASE Next
    BY <1>2, OthersTyped, QueueingTyped, ModesTyped, WorkerLocalTyped, WorkerRequestsTyped,
       DownloaderTyped, DialogStepsTyped DEF Next, Worker, Faults, User
  <1> QED BY <1>1, <1>2

\* Every variable of the engine keeps its type, for any edits, ids and bounds; the queue
\* has one operation of a kind at most.
THEOREM TypeCorrect == Spec => []TypeOK
  <1>1. TypeInv => TypeOK
    BY QueueShort DEF TypeInv, TypeOK, StoreTyped, DataTyped, QueueTyped, MaybeText
  <1>2. TypeInv /\ [Next]_vars => TypeInv'
    BY TypeInvNext
  <1> QED BY <1>1, <1>2, TypeInvInit, PTL DEF Spec

-----------------------------------------------------------------------------
(* No edit disappears.                                                     *)

\* Edits are kept while the places that keep them grow, and those on disk go to one.
LEMMA KeptStays ==
    ASSUME used \subseteq Kept, Stored \subseteq Stored', backups \subseteq backups',
           discarded \subseteq discarded', trampled \subseteq trampled', Text(disk) \subseteq Kept'
    PROVE  used \subseteq Kept'
  <1>1. InTexts(backups) \subseteq InTexts(backups')
    BY DEF InTexts
  <1>2. Kept \subseteq Kept'
    <2>1. Stored' \subseteq Kept' /\ InTexts(backups') \subseteq Kept' /\ discarded' \subseteq Kept'
          /\ trampled' \subseteq Kept'
      BY DEF Kept, InTexts, Text
    <2> QED BY <1>1, <2>1 DEF Kept
  <1> QED BY <1>2

\* The parts of the invariant that a step does not touch.
LEMMA SafeStays ==
    ASSUME EditInv, Stored \subseteq Stored'
    PROVE  /\ UNCHANGED shadow => ShadowSafe'
           /\ UNCHANGED idem => KeysSafe'
           /\ UNCHANGED w => WorkerSafe'
           /\ UNCHANGED u => DialogSafe'
           /\ UNCHANGED <<used, disk, backups, discarded, trampled>> => used' \subseteq Kept'
  <1>1. UNCHANGED shadow => ShadowSafe'
    BY DEF EditInv, ShadowSafe, Text
  <1>2. UNCHANGED idem => KeysSafe'
    BY DEF EditInv, KeysSafe
  <1>3. UNCHANGED w => WorkerSafe'
    BY DEF EditInv, WorkerSafe
  <1>4. UNCHANGED u => DialogSafe'
    BY DEF EditInv, DialogSafe
  <1>5. UNCHANGED <<used, disk, backups, discarded, trampled>> => used' \subseteq Kept'
    <2> SUFFICES ASSUME UNCHANGED <<used, disk, backups, discarded, trampled>>
                 PROVE  used' \subseteq Kept'
      OBVIOUS
    <2>1. Text(disk) \subseteq Kept'
      BY DEF Kept, Text
    <2>2. used \subseteq Kept'
      BY <2>1, KeptStays DEF EditInv
    <2> QED BY <2>2
  <1> QED BY <1>1, <1>2, <1>3, <1>4, <1>5

\* A worker that is at none of these places claims nothing.
LEMMA WorkerFree ==
    ASSUME w'.pc \notin {"save", "saveMerged", "write"}
    PROVE  WorkerSafe'
  BY DEF WorkerSafe

\* The merge drops what the base has and one side has not: it is on the server.
LEMMA MergeKeeps ==
    ASSUME NEW b \in Texts, NEW l \in Texts, NEW r \in Texts, b \subseteq Stored,
           NEW m \in Merged(b, l, r), m # Nothing
    PROVE  l \ m \subseteq Stored
  <1>1. CASE l = r \/ r = b
    BY <1>1 DEF Merged
  <1>2. CASE ~(l = r \/ r = b) /\ l = b
    BY <1>2 DEF Merged
  <1>3. CASE ~(l = r \/ r = b) /\ l # b
    <2>1. m = (l \cap r) \cup (l \ b) \cup (r \ b)
      BY <1>3 DEF Merged
    <2> QED BY <2>1
  <1> QED BY <1>1, <1>2, <1>3

\* Replacing the file with a backup of it loses nothing.
LEMMA ReplaceKeeps ==
    ASSUME NEW text \in MaybeText, disk \in MaybeText, Replace(text)
    PROVE  Text(disk) \subseteq Kept' /\ backups \subseteq backups' /\ trampled \subseteq trampled'
  <1>1. disk' = text
    BY DEF Replace
  <1>2. CASE disk = Nothing /\ UNCHANGED <<backups, trampled>>
    BY <1>2, EngineAssumption DEF Text, Nothing
  <1>3. CASE disk # Nothing /\ backups' = backups \cup {disk} /\ UNCHANGED trampled
    BY <1>3 DEF Kept, InTexts
  <1>4. CASE disk # Nothing /\ SameSecond /\ Trample(text)
    <2>1. trampled' = trampled \cup (Text(disk) \ text) /\ UNCHANGED backups
      BY <1>4 DEF SameSecond, Trample
    <2>2. Text(disk) \subseteq Text(disk') \cup trampled'
      BY <1>1, <2>1 DEF Text
    <2> QED BY <2>1, <2>2 DEF Kept
  <1> QED BY <1>2, <1>3, <1>4 DEF Replace

\* What the first state keeps.
LEMMA EditInvInit == Init => EditInv
  <1> SUFFICES ASSUME Init PROVE EditInv
    OBVIOUS
  <1>1. Text(shadow) = {}
    BY EngineAssumption DEF Init, Text, Nothing
  <1>2. w.pc = "idle" /\ u.pc = "idle" /\ idem = {} /\ used = {}
    BY DEF Init, Task
  <1> QED BY <1>1, <1>2 DEF EditInv, ShadowSafe, KeysSafe, WorkerSafe, DialogSafe

\* The worker, between two requests.
LEMMA WorkerKeeps ==
    ASSUME TypeInv, EditInv, Stored \subseteq Stored',
           \/ workerLoop \/ NextOp \/ ReadFile \/ ReadRow \/ FetchCurrent \/ MergeLocal
           \/ SaveUpload \/ SaveMerged \/ removeFile \/ ConflictCopy \/ WriteMerged \/ OpFails
    PROVE  EditInv'
  <1>1. KeysSafe' /\ DialogSafe'
    <2>1. UNCHANGED <<idem, u>>
      BY DEF workerLoop, NextOp, ReadFile, ReadRow, FetchCurrent, MergeLocal, SaveUpload, SaveMerged,
             removeFile, ConflictCopy, WriteMerged, OpFails, server
    <2> QED BY <2>1, SafeStays
  <1>2. OpDone => WorkerSafe'
    BY WorkerFree DEF OpDone, Task
  <1>3. CASE \/ workerLoop \/ NextOp \/ ReadFile \/ ReadRow \/ FetchCurrent \/ removeFile
             \/ ConflictCopy \/ OpFails
    <2>1. UNCHANGED <<disk, shadow, backups, discarded, trampled, used>>
      BY <1>3 DEF workerLoop, NextOp, ReadFile, ReadRow, FetchCurrent, removeFile, ConflictCopy,
                  OpFails, saved, lost, bounds
    <2>2. WorkerSafe'
      <3> USE DEF TypeInv, WorkerTyped, Thread
      <3>1. CASE workerLoop
        BY <3>1, WorkerFree DEF workerLoop, Task
      <3>2. CASE NextOp
        BY <3>2, WorkerFree DEF NextOp, Task
      <3>3. CASE ReadFile
        BY <1>2, <3>3, WorkerFree DEF ReadFile, opFailed
      <3>4. CASE ReadRow
        <4>1. OpDone \/ w'.pc = "send"
          BY <3>4 DEF ReadRow
        <4> QED BY <1>2, <4>1, WorkerFree
      <3>5. CASE FetchCurrent
        BY <1>2, <3>5, WorkerFree DEF FetchCurrent, opFailed
      <3>6. CASE removeFile \/ ConflictCopy \/ OpFails
        BY <1>2, <3>6 DEF removeFile, ConflictCopy, OpFails, opFailed
      <3> QED BY <1>3, <3>1, <3>2, <3>3, <3>4, <3>5, <3>6
    <2> QED BY <1>1, <2>1, <2>2, SafeStays DEF EditInv
  <1>4. CASE MergeLocal
    <2>1. UNCHANGED <<disk, shadow, backups, discarded, trampled, used>>
      BY <1>4 DEF MergeLocal, saved, lost, bounds
    <2>2. PICK m \in Merged(Text(shadow), Text(disk), w.got) :
             w' = [w EXCEPT !.text = Text(disk), !.got = m,
                            !.pc = IF m = Nothing THEN "copy" ELSE "write"]
      BY <1>4 DEF MergeLocal
    <2>3. /\ w'.text = Text(disk) /\ w'.got = m
          /\ w'.pc = IF m = Nothing THEN "copy" ELSE "write"
      BY <2>2 DEF TypeInv, WorkerTyped, Thread
    <2>4. Text(shadow) \in Texts /\ Text(disk) \in Texts /\ w.got \in Texts
      BY <1>4 DEF Text, Texts, MergeLocal, TypeInv, WorkerTyped
    <2>5. m # Nothing => Text(disk) \ m \subseteq Stored
      BY <2>4, MergeKeeps DEF EditInv, ShadowSafe
    <2>6. WorkerSafe'
      BY <2>3, <2>5 DEF WorkerSafe
    <2> QED BY <1>1, <2>1, <2>6, SafeStays DEF EditInv
  <1>5. CASE SaveUpload
    <2>1. UNCHANGED <<disk, backups, discarded, trampled, used>> /\ OpDone /\ shadow' = w.text
      BY <1>5 DEF SaveUpload, lost, bounds
    <2>2. ShadowSafe'
      BY <1>5, <2>1 DEF SaveUpload, EditInv, WorkerSafe, ShadowSafe, Text
    <2> QED BY <1>1, <1>2, <2>1, <2>2, SafeStays DEF EditInv
  <1>6. CASE SaveMerged
    <2>1. UNCHANGED <<disk, backups, discarded, trampled, used>> /\ OpDone /\ shadow' = w.got
      BY <1>6 DEF SaveMerged, lost, bounds
    <2>2. ShadowSafe'
      BY <1>6, <2>1 DEF SaveMerged, EditInv, WorkerSafe, ShadowSafe, Text
    <2> QED BY <1>1, <1>2, <2>1, <2>2, SafeStays DEF EditInv
  <1>7. CASE WriteMerged
    <2>1. /\ UNCHANGED <<shadow, discarded, used>> /\ disk' = w.got /\ backups \subseteq backups'
          /\ trampled' = trampled \cup (Text(disk) \ w.text)
      BY <1>7 DEF WriteMerged, SameSecond, Trample, bounds
    <2>2. w.text \ w.got \subseteq Stored'
      BY <1>7 DEF WriteMerged, EditInv, WorkerSafe
    <2>3. Text(disk) \subseteq Text(disk') \cup Stored' \cup trampled'
      BY <2>1, <2>2 DEF Text
    <2>4. Text(disk) \subseteq Kept'
      BY <2>3 DEF Kept
    <2>5. used' \subseteq Kept'
      BY <2>1, <2>4, KeptStays DEF EditInv
    <2>6. WorkerSafe'
      BY <1>7, WorkerFree DEF WriteMerged, TypeInv, WorkerTyped, Thread
    <2> QED BY <1>1, <2>1, <2>5, <2>6, SafeStays DEF EditInv
  <1> QED BY <1>3, <1>4, <1>5, <1>6, <1>7

\* The worker's requests.
LEMMA RequestsKeep ==
    ASSUME TypeInv, EditInv, Stored \subseteq Stored',
           \/ UploadAnswered \/ UploadLost \/ DeleteAnswered \/ DeleteLost
           \/ PutMerged \/ PutMergedLost
    PROVE  EditInv'
  <1>1. UNCHANGED <<news, u, shadow, used, disk, backups, discarded, trampled>>
    BY DEF UploadAnswered, UploadLost, DeleteAnswered, DeleteLost, PutMerged, PutMergedLost, saved,
           lost, bounds
  <1>2. ShadowSafe' /\ DialogSafe' /\ used' \subseteq Kept'
    BY <1>1, SafeStays
  <1>3. OpDone => WorkerSafe'
    BY WorkerFree DEF OpDone, Task
  <1>4. /\ w \in Thread(WorkerPlaces) /\ w.base \in Nat /\ w.ver \in Nat /\ StoreTyped
        /\ \A k \in idem : k.text \subseteq Stored
    BY DEF TypeInv, WorkerTyped, Thread, EditInv, KeysSafe
  <1>5. KeysSafe' /\ WorkerSafe'
    <2>1. CASE UploadAnswered
      <3> DEFINE a == Upload(w.id, w.base, w.text)
      <3>1. w.id \in Ids /\ w.text \in Texts
        BY <2>1 DEF UploadAnswered, TypeInv, WorkerTyped
      <3>2. Applied(a) /\ MaybeApplied(a) /\ Answer(a, w.id, w.base, w.text)
        BY <1>4, <2>1, <3>1, UploadAnswer DEF UploadAnswered, MaybeApplied
      <3>3. /\ \A k \in idem' : k.text \subseteq Stored'
            /\ a.code \in {"ok", "replay"} => w.text \subseteq Stored'
        BY <1>1, <1>4, <3>1, <3>2, UploadStored
      <3>4. \/ OpDone
            \/ /\ a.code # "refused"
               /\ w' = [w EXCEPT !.pc = IF a.code = "conflict" THEN "fetch" ELSE "save", !.ver = a.ver]
        BY <2>1 DEF UploadAnswered, opFailed
      <3> HIDE DEF a
      <3>5. CASE OpDone
        BY <1>3, <3>3, <3>5 DEF KeysSafe
      <3>6. CASE ~OpDone
        <4>1. /\ w'.text = w.text
              /\ w'.pc = IF a.code = "conflict" THEN "fetch" ELSE "save"
          BY <1>4, <3>4, <3>6 DEF Thread
        <4>2. a.code \in {"conflict", "ok", "replay"}
          BY <3>2, <3>4, <3>6 DEF Answer
        <4> QED BY <3>3, <4>1, <4>2 DEF KeysSafe, WorkerSafe
      <3> QED BY <3>5, <3>6
    <2>2. CASE UploadLost
      <3>1. w.id \in Ids /\ w.text \in Texts
        BY <2>2 DEF UploadLost, TypeInv, WorkerTyped
      <3>2. \A k \in idem' : k.text \subseteq Stored'
        BY <1>1, <1>4, <2>2, <3>1, UploadStored DEF UploadLost
      <3> QED BY <1>3, <2>2, <3>2 DEF UploadLost, KeysSafe
    <2>3. CASE DeleteAnswered
      <3>1. UNCHANGED idem /\ w'.pc = "forget"
        BY <1>4, <2>3 DEF DeleteAnswered, Thread
      <3> QED BY <3>1, SafeStays, WorkerFree
    <2>4. CASE DeleteLost
      BY <1>3, <2>4, SafeStays DEF DeleteLost
    <2>5. CASE PutMerged
      <3> DEFINE a == Upload(w.id, w.ver, w.got)
      <3>1. w.id \in Ids /\ w.got \in Texts
        BY <2>5 DEF PutMerged, TypeInv, WorkerTyped
      <3>2. Applied(a) /\ MaybeApplied(a)
        BY <2>5 DEF PutMerged, MaybeApplied
      <3>3. /\ \A k \in idem' : k.text \subseteq Stored'
            /\ a.code \in {"ok", "replay"} => w.got \subseteq Stored'
        BY <1>1, <1>4, <3>1, <3>2, UploadStored
      <3>4. w' = IF a.code \in {"ok", "replay"} THEN [w EXCEPT !.pc = "saveMerged", !.ver = a.ver]
                 ELSE [w EXCEPT !.pc = "copy"]
        BY <2>5 DEF PutMerged
      <3> HIDE DEF a
      <3>5. /\ w'.got = w.got
            /\ w'.pc = IF a.code \in {"ok", "replay"} THEN "saveMerged" ELSE "copy"
        BY <1>4, <3>4 DEF Thread
      <3> QED BY <3>3, <3>5 DEF KeysSafe, WorkerSafe
    <2>6. CASE PutMergedLost
      <3>1. w.id \in Ids /\ w.got \in Texts
        BY <2>6 DEF PutMergedLost, TypeInv, WorkerTyped
      <3>2. \A k \in idem' : k.text \subseteq Stored'
        BY <1>1, <1>4, <2>6, <3>1, UploadStored DEF PutMergedLost
      <3>3. w'.pc = "copy"
        BY <1>4, <2>6 DEF PutMergedLost, Thread
      <3> QED BY <3>2, <3>3, WorkerFree DEF KeysSafe
    <2> QED BY <2>1, <2>2, <2>3, <2>4, <2>5, <2>6
  <1> QED BY <1>2, <1>5 DEF EditInv

\* The downloading thread backs up what it replaces, and what it brings is on the server.
LEMMA DownloaderKeeps ==
    ASSUME TypeInv, EditInv, Stored \subseteq Stored',
           \/ Poll \/ PollFails \/ Downloader \/ \E i \in Ids : onWsEvent(i)
    PROVE  EditInv'
  <1>1. UNCHANGED <<idem, w, u, used, discarded>>
    BY DEF Poll, PollFails, Downloader, CheckRow, CompareDisk, ApplyFile, ApplyRow, onWsEvent, server,
           db, bounds, tasks, lost
  <1>2. KeysSafe' /\ WorkerSafe' /\ DialogSafe'
    BY <1>1, SafeStays
  <1>3. CASE ApplyFile
    <2>1. d.got \in MaybeText /\ disk \in MaybeText /\ UNCHANGED shadow
      BY <1>3 DEF TypeInv, DownloadTyped, Thread, DataTyped, ApplyFile
    <2>2. Text(disk) \subseteq Kept' /\ backups \subseteq backups' /\ trampled \subseteq trampled'
      BY <1>3, <2>1, ReplaceKeeps DEF ApplyFile
    <2>3. used' \subseteq Kept'
      BY <1>1, <2>2, KeptStays DEF EditInv
    <2> QED BY <1>2, <2>1, <2>3, SafeStays DEF EditInv
  <1>4. CASE ApplyRow
    <2>1. UNCHANGED <<disk, backups, trampled>> /\ (shadow' = d.got \/ UNCHANGED shadow)
      BY <1>4 DEF ApplyRow, lost
    <2>2. Text(d.got) \subseteq Stored'
      BY <1>4, VersionStored DEF ApplyRow, TypeInv, DownloadTyped, StoreTyped
    <2>3. ShadowSafe'
      BY <2>1, <2>2, SafeStays DEF ShadowSafe
    <2> QED BY <1>1, <1>2, <2>1, <2>3, SafeStays DEF EditInv
  <1>5. CASE ~ApplyFile /\ ~ApplyRow
    <2>1. UNCHANGED <<disk, shadow, backups, trampled>>
      BY <1>5 DEF Poll, PollFails, Downloader, CheckRow, CompareDisk, onWsEvent, saved, lost
    <2> QED BY <1>1, <1>2, <2>1, SafeStays DEF EditInv
  <1> QED BY <1>3, <1>4, <1>5

\* The dialog.
LEMMA DialogKeeps ==
    ASSUME TypeInv, EditInv, Stored \subseteq Stored', Dialog \/ PutLocalLost
    PROVE  EditInv'
  <1>1. UNCHANGED <<w, discarded>> /\ used' = used
    BY DEF Dialog, KeepLocal, FetchRemote, PutLocal, PutLocalLost, SaveLocal, SaveRemote, Resolved,
           RenameCopy, WriteRemote, lost, bounds
  <1>2. WorkerSafe'
    BY <1>1, SafeStays
  <1>3. u \in Thread(DialogPlaces) /\ StoreTyped /\ \A k \in idem : k.text \subseteq Stored
    BY DEF TypeInv, DialogTyped, EditInv, KeysSafe
  <1>4. ASSUME NEW c \in conflicts, KeepLocal(c) PROVE EditInv'
    <2>1. UNCHANGED <<idem, shadow, backups>> /\ u'.pc = "put"
      BY <1>4 DEF KeepLocal, server, Task
    <2>2. disk' = copy[c.copy] /\ trampled' = trampled \cup (Text(disk) \ copy[c.copy])
      BY <1>4 DEF KeepLocal, Trample
    <2>3. Text(disk) \subseteq Text(disk') \cup trampled'
      BY <2>2 DEF Text
    <2>4. used' \subseteq Kept'
      <3>1. Text(disk) \subseteq Kept'
        BY <2>3 DEF Kept
      <3> QED BY <1>1, <2>1, <2>2, <3>1, KeptStays DEF EditInv
    <2> QED BY <1>2, <2>1, <2>4, SafeStays DEF EditInv, DialogSafe
  <1>5. ASSUME NEW c \in conflicts, NEW s \in Strategies, FetchRemote(c, s) PROVE EditInv'
    <2>1. UNCHANGED <<idem, shadow, disk, backups, trampled>> /\ u'.pc \in {"rename", "write"}
      BY <1>5 DEF FetchRemote, server, saved, lost, Task
    <2> QED BY <1>1, <1>2, <2>1, SafeStays DEF EditInv, DialogSafe
  <1>6. CASE PutLocal
    <2> DEFINE a == Upload(u.id, u.base, u.text)
    <2>1. u.id \in Ids /\ u.text \in Texts /\ u.base \in Nat
      BY <1>3, <1>6 DEF PutLocal, TypeInv, DialogTyped, Thread
    <2>2. /\ Applied(a) /\ MaybeApplied(a)
          /\ UNCHANGED <<news, shadow, disk, backups, trampled>>
      BY <1>6 DEF PutLocal, MaybeApplied, saved, lost
    <2>3. /\ \A k \in idem' : k.text \subseteq Stored'
          /\ a.code \in {"ok", "replay"} => u.text \subseteq Stored'
      BY <1>3, <2>1, <2>2, UploadStored
    <2>4. u' = IF a.code \in {"ok", "replay"} THEN [u EXCEPT !.pc = "save", !.ver = a.ver] ELSE Task
      BY <1>6 DEF PutLocal
    <2> HIDE DEF a
    <2>5. DialogSafe'
      BY <1>3, <2>3, <2>4 DEF DialogSafe, Thread, Task
    <2> QED BY <1>1, <1>2, <2>2, <2>3, <2>5, SafeStays DEF EditInv, KeysSafe
  <1>7. CASE PutLocalLost
    <2>1. u.id \in Ids /\ u.text \in Texts /\ u.base \in Nat
      BY <1>3, <1>7 DEF PutLocalLost, TypeInv, DialogTyped, Thread
    <2>2. UNCHANGED <<news, shadow, disk, backups, trampled>> /\ u'.pc = "idle"
      BY <1>7 DEF PutLocalLost, saved, lost, Task
    <2>3. \A k \in idem' : k.text \subseteq Stored'
      BY <1>3, <1>7, <2>1, <2>2, UploadStored DEF PutLocalLost
    <2> QED BY <1>1, <1>2, <2>2, <2>3, SafeStays DEF EditInv, DialogSafe, KeysSafe
  <1>8. CASE SaveLocal \/ SaveRemote
    <2>1. /\ UNCHANGED <<idem, disk, backups, trampled>> /\ u'.pc = "idle"
          /\ \/ UNCHANGED shadow
             \/ u.pc = "save" /\ shadow' = u.text
             \/ u.pc = "saveRemote" /\ shadow' = u.got
      BY <1>8 DEF SaveLocal, SaveRemote, Resolved, server, lost, Task
    <2>2. /\ u.pc = "save" => Text(u.text) \subseteq Stored'
          /\ u.pc = "saveRemote" => Text(u.got) \subseteq Stored'
      BY VersionStored DEF EditInv, DialogSafe, Text, TypeInv, DialogTyped, StoreTyped
    <2>3. ShadowSafe'
      BY <2>1, <2>2, SafeStays DEF ShadowSafe
    <2> QED BY <1>1, <1>2, <2>1, <2>3, SafeStays DEF EditInv, DialogSafe
  <1>9. CASE RenameCopy
    <2>1. UNCHANGED <<idem, shadow, disk, backups>> /\ trampled \subseteq trampled' /\ u'.pc = "write"
      BY <1>3, <1>9 DEF RenameCopy, server, Thread
    <2>2. used' \subseteq Kept'
      <3>1. Text(disk) \subseteq Kept'
        BY <2>1 DEF Kept
      <3> QED BY <1>1, <2>1, <3>1, KeptStays DEF EditInv
    <2> QED BY <1>2, <2>1, <2>2, SafeStays DEF EditInv, DialogSafe
  <1>10. CASE WriteRemote
    <2>1. UNCHANGED <<idem, shadow>> /\ u'.pc = "saveRemote"
      BY <1>3, <1>10 DEF WriteRemote, server, Thread
    <2>2. Text(disk) \subseteq Kept' /\ backups \subseteq backups' /\ trampled \subseteq trampled'
      BY <1>3, <1>10, ReplaceKeeps DEF WriteRemote, Thread, TypeInv, DataTyped
    <2>3. used' \subseteq Kept'
      BY <1>1, <2>2, KeptStays DEF EditInv
    <2> QED BY <1>2, <2>1, <2>3, SafeStays DEF EditInv, DialogSafe
  <1> QED BY <1>4, <1>5, <1>6, <1>7, <1>8, <1>9, <1>10 DEF Dialog

\* The user and the other devices: a new edit is on disk or on the server.
LEMMA EditorsKeep ==
    ASSUME TypeInv, EditInv, Stored \subseteq Stored', User \/ onFsEvent \/ Scan \/ Others
    PROVE  EditInv'
  <1>1. UNCHANGED <<idem, shadow, backups, trampled>>
    BY DEF User, Save, Delete, onFsEvent, Scan, onFileOpened, setPaused, Stop, Start, Others,
           RemoteEdit, RemoteDelete, RemoteWrite, server, saved, lost
  <1>2. ShadowSafe' /\ KeysSafe' /\ WorkerSafe' /\ DialogSafe'
    <2>1. UNCHANGED <<w, u>> \/ (w'.pc = "idle" /\ u'.pc = "idle")
      BY DEF User, Save, Delete, onFsEvent, Scan, onFileOpened, setPaused, Stop, Start, Others,
             RemoteEdit, RemoteDelete, RemoteWrite, tasks, Task
    <2> QED BY <1>1, <2>1, SafeStays, WorkerFree DEF DialogSafe
  <1>3. used' \subseteq Kept'
    <2>1. ASSUME NEW e \in UserEdits, Save(e) PROVE used' \subseteq Kept'
      <3>1. disk' = Text(disk) \cup {e} /\ used' = used \cup {e} /\ UNCHANGED discarded
        BY <2>1 DEF Save, lost
      <3>2. Text(disk) \subseteq Text(disk') /\ e \in Text(disk')
        BY <3>1 DEF Text, Edits
      <3>3. Text(disk) \subseteq Kept' /\ e \in Kept'
        BY <3>2 DEF Kept
      <3>4. used \subseteq Kept'
        BY <1>1, <3>1, <3>3, KeptStays DEF EditInv
      <3> QED BY <3>1, <3>3, <3>4
    <2>2. CASE Delete
      <3>1. discarded' = discarded \cup disk /\ UNCHANGED used
        BY <2>2 DEF Delete
      <3>2. Text(disk) \subseteq Kept'
        BY <3>1 DEF Kept, Text
      <3> QED BY <1>1, <3>1, <3>2, KeptStays DEF EditInv
    <2>3. ASSUME NEW i \in Ids, NEW e \in RemoteEdits, RemoteEdit(i, e) PROVE used' \subseteq Kept'
      <3> DEFINE t == {e} \cup IF file[i] = <<>> THEN {} ELSE Text(Current(i))
      <3>1. t \in MaybeText /\ e \in Text(t)
        BY DEF Text, MaybeText, Texts, Edits
      <3>2. /\ file' = [file EXCEPT ![i] = Append(@, t)] /\ used' = used \cup {e}
            /\ UNCHANGED <<disk, discarded>>
        BY <2>3 DEF RemoteEdit, RemoteWrite, saved, lost
      <3> HIDE DEF t
      <3>3. Grows /\ Len(file'[i]) = Len(file[i]) + 1 /\ file'[i][Len(file[i]) + 1] = t
        BY <3>1, <3>2, AppendGrows DEF TypeInv, StoreTyped
      <3>4. Len(file[i]) + 1 \in DOMAIN file'[i]
        BY <3>3 DEF Grows, TypeInv, StoreTyped
      <3>5. e \in Stored'
        BY <3>1, <3>3, <3>4 DEF Stored, InTexts, Text
      <3>6. Text(disk) \subseteq Kept' /\ e \in Kept'
        BY <3>2, <3>5 DEF Kept
      <3>7. used \subseteq Kept'
        BY <1>1, <3>2, <3>6, KeptStays DEF EditInv
      <3> QED BY <3>2, <3>6, <3>7
    <2>4. CASE UNCHANGED <<used, disk, discarded>>
      BY <1>1, <2>4, SafeStays
    <2> QED BY <2>1, <2>2, <2>3, <2>4
            DEF User, onFsEvent, Scan, onFileOpened, setPaused, Stop, Start, Others, RemoteDelete,
                RemoteWrite, saved, lost, bounds
  <1> QED BY <1>2, <1>3 DEF EditInv

\* Every step keeps the edits.
LEMMA EditInvNext ==
    ASSUME TypeInv, EditInv, [Next]_vars
    PROVE  EditInv'
  <1>1. Stored \subseteq Stored'
    BY TypeInvNext, StoredStays DEF TypeInv, StoreTyped
  <1>2. CASE UNCHANGED vars
    <2>1. UNCHANGED <<idem, shadow, w, u, used, disk, backups, discarded, trampled>>
      BY <1>2 DEF vars, server, saved, tasks, lost, bounds
    <2> QED BY <1>1, <2>1, SafeStays DEF EditInv
  <1>3. CASE Next
    BY <1>1, <1>3, WorkerKeeps, RequestsKeep, DownloaderKeeps, DialogKeeps, EditorsKeep
       DEF Next, Worker, Faults
  <1> QED BY <1>2, <1>3

\* Whatever the order in which the user, the worker, the downloading thread and the dialog
\* replace the file, every edit made on any device is on disk, in a version on the server,
\* in a conflict copy or in a backup, except where the model records that the code gives it
\* up: the user deleted the file with it, or it was overwritten unread or within a second.
THEOREM EditsKeptCorrect == Spec => []EditsKept
  <1>1. EditInv => EditsKept
    <2>1. InTexts(backups) \subseteq Copied
      BY DEF InTexts, Copied
    <2> QED BY <2>1 DEF EditInv, EditsKept, Kept
  <1>2. TypeInv /\ EditInv /\ [Next]_vars => TypeInv' /\ EditInv'
    BY TypeInvNext, EditInvNext
  <1> QED BY <1>1, <1>2, TypeInvInit, EditInvInit, PTL DEF Spec

-----------------------------------------------------------------------------
(* The row.                                                                *)

\* A mishap is not forgotten, "unseen" excepted.
LEMMA MishapsStay ==
    ASSUME [Next]_vars
    PROVE  mishaps \ {"unseen"} \subseteq mishaps'
  <1>1. CASE UNCHANGED vars
    BY <1>1 DEF vars
  <1>2. ASSUME NEW kind, NEW now, enqueueOp(kind, now) PROVE mishaps \ {"unseen"} \subseteq mishaps'
    BY <1>2 DEF enqueueOp
  <1>3. CASE opFailed
    BY <1>3 DEF opFailed
  <1>4. CASE Worker
    BY <1>3, <1>4 DEF Worker, workerLoop, NextOp, ReadFile, ReadRow, UploadAnswered, SaveUpload,
       DeleteAnswered, removeFile, FetchCurrent, MergeLocal, WriteMerged, PutMerged, SaveMerged,
       ConflictCopy
  <1>5. CASE Poll \/ (\E i \in Ids : onWsEvent(i)) \/ Downloader
    BY <1>5 DEF Poll, onWsEvent, Downloader, CheckRow, CompareDisk, ApplyFile, ApplyRow
  <1>6. CASE Dialog
    BY <1>6 DEF Dialog, KeepLocal, FetchRemote, PutLocal, SaveLocal, SaveRemote, Resolved,
       RenameCopy, WriteRemote
  <1>7. CASE onFsEvent \/ Scan
    BY <1>2, <1>7 DEF onFsEvent, Scan
  <1>8. CASE Faults
    BY <1>3, <1>8 DEF Faults, UploadLost, DeleteLost, OpFails, PutMergedLost, PutLocalLost, PollFails
  <1>9. CASE User
    BY <1>2, <1>9 DEF User, Save, Delete, onFileOpened, setPaused, Stop, Start
  <1>10. CASE Others
    BY <1>10 DEF Others, RemoteDelete, RemoteEdit, RemoteWrite
  <1> QED BY <1>1, <1>4, <1>5, <1>6, <1>7, <1>8, <1>9, <1>10 DEF Next

\* Calm is what has always been calm.
LEMMA CalmBefore ==
    ASSUME [Next]_vars, Calm'
    PROVE  Calm
  BY MishapsStay DEF Calm, Apart

\* The ids the device has to do with are ids of files.
LEMMA KnownTyped ==
    ASSUME TypeInv
    PROVE  Known \subseteq Ids \cup {NoId} /\ NoId \notin Ids
  <1>1. news \subseteq Ids
    BY DEF TypeInv, StoreTyped
  <1>2. row.id \in Ids \cup {NoId} /\ \A c \in conflicts : c.id \in Ids
    BY DEF TypeInv, DataTyped, Row, ConflictState
  <1>3. d.id \in Ids \cup {NoId} /\ u.id \in Ids \cup {NoId}
    BY DEF TypeInv, DownloadTyped, DialogTyped, Thread
  <1>4. NoId \notin Ids
    BY EngineAssumption DEF NoId
  <1> QED BY <1>1, <1>2, <1>3, <1>4 DEF Known

\* No id is new to the device.
LEMMA OneIdStays ==
    ASSUME OneId, Known' \ {NoId} \subseteq Known
    PROVE  OneId'
  BY DEF OneId

\* The row stays true while versions are added.
LEMMA RowStays ==
    ASSUME TypeInv, Grows, RowHolds, row'.id = NoId \/ row' = row
    PROVE  RowHolds'
  <1>1. CASE row'.id = NoId
    BY <1>1 DEF RowHolds
  <1>2. CASE row' = row /\ row.id # NoId
    <2>1. row.id \in Ids /\ row.version \in Nat
      BY <1>2 DEF TypeInv, DataTyped, Row
    <2>2. Len(file[row.id]) \in Nat /\ Len(file'[row.id]) \in Nat
      BY <2>1 DEF TypeInv, StoreTyped, Grows
    <2>3. Len(file[row.id]) <= Len(file'[row.id])
          /\ \A v \in 1..Len(file[row.id]) : file'[row.id][v] = file[row.id][v]
      BY <2>1 DEF Grows
    <2> QED BY <1>2, <2>1, <2>2, <2>3 DEF RowHolds
  <1> QED BY <1>1, <1>2

\* A row that names a version of a file.
LEMMA RowIsVersion ==
    ASSUME row'.deleted \/ file'[row'.id][row'.version] = row'.hash,
           row'.version <= Len(file'[row'.id])
    PROVE  RowHolds'
  BY DEF RowHolds

\* What the other two threads hold.
LEMMA OthersStay ==
    ASSUME TypeInv, Grows, Holds
    PROVE  /\ UNCHANGED d => DownloadHolds'
           /\ UNCHANGED u => DialogHolds'
  <1>1. UNCHANGED d => DownloadHolds'
    BY DEF Holds, DownloadHolds
  <1>2. ASSUME UNCHANGED u PROVE DialogHolds'
    <2>1. u.pc = "save" => u.id \in Ids /\ u.ver \in 1..Len(file'[u.id]) /\ file'[u.id][u.ver] = u.text
      BY VersionStays DEF TypeInv, StoreTyped, Holds, DialogHolds
    <2> QED BY <1>2, <2>1 DEF Holds, DialogHolds, IsVersion
  <1> QED BY <1>1, <1>2

\* A worker that has not read the row holds nothing.
LEMMA WorkerHoldsNothing ==
    ASSUME w'.pc \in {"idle", "next", "read", "row", "delete", "forget"}
    PROVE  WorkerHolds'
  BY DEF WorkerHolds

\* Threads that do not begin to work.
LEMMA BusyStays ==
    ASSUME OneBusy, Busy(w)' => Busy(w), Busy(d)' => Busy(d), Busy(u)' => Busy(u)
    PROVE  OneBusy'
  BY DEF OneBusy

\* What the first state holds.
LEMMA RowInvInit == Init => RowInv
  <1> SUFFICES ASSUME Init PROVE Holds
    BY DEF RowInv
  <1>1. w.pc = "idle" /\ d.pc = "idle" /\ u.pc = "idle" /\ d.id = NoId /\ u.id = NoId
    BY DEF Init, Task
  <1>2. RowHolds /\ row.id \in {NoId, 1}
    <2>1. CASE row = NoRow
      BY <2>1, EmptyRows DEF RowHolds
    <2>2. CASE row # NoRow
      <3>1. /\ file = [i \in Ids |-> IF i = 1 THEN <<{}>> ELSE <<>>]
            /\ row = [id |-> 1, hash |-> {}, version |-> 1, deleted |-> FALSE]
        BY <2>2 DEF Init
      <3>2. file[1] = <<{}>>
        BY <3>1, EngineAssumption
      <3>3. Len(file[1]) = 1 /\ file[1][1] = {}
        BY <3>2
      <3> QED BY <3>1, <3>3 DEF RowHolds
    <2> QED BY <2>1, <2>2
  <1>3. OneId
    BY <1>1, <1>2 DEF Init, OneId, Known
  <1> QED BY <1>1, <1>2, <1>3 DEF Holds, OneBusy, Busy, WorkerHolds, DownloadHolds, DialogHolds

\* The user, the watcher and the modes.
LEMMA UserHolds ==
    ASSUME TypeInv, Grows, Holds, User \/ onFsEvent \/ Scan
    PROVE  Holds'
  <1>1. CASE Stop
    <2>1. w'.pc = "idle" /\ d'.pc = "idle" /\ u'.pc = "idle" /\ d'.id = NoId /\ u'.id = NoId
          /\ UNCHANGED <<row, conflicts>> /\ news' \subseteq news \cup {d.id}
      BY <1>1 DEF Stop, Task, db
    <2>2. OneId'
      BY <2>1, OneIdStays DEF Holds, Known
    <2>3. RowHolds'
      BY <2>1, RowStays DEF Holds
    <2> QED BY <2>1, <2>2, <2>3 DEF Holds, OneBusy, Busy, WorkerHolds, DownloadHolds, DialogHolds
  <1>2. CASE ~Stop
    <2>1. UNCHANGED <<file, news, conflicts, w, d, u>> /\ (UNCHANGED row \/ (row.id = NoId /\ row'.id = NoId))
      BY <1>2, EmptyRows DEF User, Save, Delete, onFileOpened, setPaused, Start, onFsEvent, Scan, server,
                             db, tasks
    <2>2. Known' = Known /\ row'.id = row.id
      BY <2>1 DEF Known
    <2>3. RowHolds'
      BY <2>1, RowStays DEF Holds
    <2>4. OneBusy' /\ OneId'
      BY <2>1, <2>2, OneIdStays DEF Holds, OneBusy, Busy
    <2>5. WorkerHolds'
      BY <2>1, <2>2 DEF Holds, WorkerHolds, Live, Current, IsVersion
    <2> QED BY <2>1, <2>3, <2>4, <2>5, OthersStay DEF Holds
  <1> QED BY <1>1, <1>2

\* Another device writes: a second file id is noticed as such.
LEMMA RemoteHolds ==
    ASSUME TypeInv, Grows, Holds, Calm', Others
    PROVE  Holds'
  <1>1. PICK i \in Ids : RemoteDelete(i) \/ \E e \in RemoteEdits : RemoteEdit(i, e)
    BY DEF Others
  <1>2. PICK text : RemoteWrite(i, text)
    BY <1>1 DEF RemoteDelete, RemoteEdit
  <1>3. /\ UNCHANGED <<w, d, u, row, conflicts>> /\ news' = news \cup {i}
        /\ file' = [file EXCEPT ![i] = Append(@, text)] /\ Twin(i) \subseteq mishaps'
    BY <1>2 DEF RemoteWrite, db, tasks
  <1>4. \A j \in Ids \ {i} : ~Live(j) /\ j \notin Known
    BY <1>3 DEF Calm, Apart, Twin
  <1>5. Known' = Known \cup {i} /\ Known \subseteq {NoId, i}
    BY <1>3, <1>4, KnownTyped DEF Known
  <1>6. RowHolds' /\ DownloadHolds' /\ DialogHolds'
    BY <1>3, RowStays, OthersStay DEF Holds
  <1>7. OneBusy' /\ OneId'
    BY <1>3, <1>5 DEF Holds, OneBusy, Busy, OneId
  <1>8. WorkerHolds'
    <2>1. w.pc = "send" => row.id = w.id \/ (row.id = NoId /\ file'[w.id] = <<>>)
      <3> SUFFICES ASSUME w.pc = "send", row.id = NoId, file[w.id] = <<>>, w.id \in Ids, i = w.id
                   PROVE  FALSE
        BY <1>3 DEF Holds, WorkerHolds, TypeInv, WorkerTyped, StoreTyped
      <3>1. i \notin Unused
        BY DEF Unused
      <3>2. \/ Live(i)
            \/ file[i] # <<>> \/ (Cardinality(Unused) > 1 /\ i = NewId)
        BY <1>1 DEF RemoteDelete, RemoteEdit
      <3>3. CASE Cardinality(Unused) > 1 /\ i = NewId
        <4>1. Unused # {}
          <5> SUFFICES ASSUME Unused = {} PROVE FALSE
            OBVIOUS
          <5>1. Cardinality(Unused) = 0
            BY FS_EmptySet
          <5> QED BY <3>3, <5>1
        <4> QED BY <3>1, <3>3, <4>1, NewIdUnused
      <3> QED BY <3>2, <3>3 DEF Live
    <2>2. ASSUME w.pc = "save"
          PROVE  /\ Known' \subseteq {NoId, w.id} /\ (Live(w.id)' \/ w.id \in Known')
                 /\ w.id \in Ids /\ w.ver \in 1..Len(file'[w.id]) /\ file'[w.id][w.ver] = w.text
      <3>1. (Live(w.id) \/ w.id \in Known) /\ IsVersion(w.id, w.ver, w.text)
        BY <2>2 DEF Holds, WorkerHolds
      <3>2. w.id = i
        BY <1>4, <3>1 DEF IsVersion
      <3> QED BY <1>5, <3>1, <3>2, VersionStays DEF TypeInv, StoreTyped
    <2>3. w.pc = "saveMerged" => w.id \in Ids /\ w.ver \in 1..Len(file'[w.id]) /\ file'[w.id][w.ver] = w.got
      BY VersionStays DEF Holds, WorkerHolds, TypeInv, StoreTyped
    <2> QED BY <1>3, <2>1, <2>2, <2>3 DEF Holds, WorkerHolds, IsVersion
  <1> QED BY <1>6, <1>7, <1>8 DEF Holds

\* A download begins only where no other thread works, and brings no new id.
LEMMA PollHolds ==
    ASSUME TypeInv, Grows, Holds, Calm', Poll \/ PollFails \/ \E i \in Ids : onWsEvent(i)
    PROVE  Holds'
  <1>1. UNCHANGED <<file, w, u, row, conflicts>>
    BY DEF Poll, PollFails, onWsEvent, db, server, tasks
  <1>2. CASE UNCHANGED <<d, news>>
    BY <1>1, <1>2, RowStays, OthersStay, ZenonT(30)
       DEF Holds, OneBusy, Busy, OneId, WorkerHolds, Known, Live, Current, IsVersion
  <1>3. CASE ~UNCHANGED <<d, news>>
    <2>1. PICK i \in news : /\ d'.id = i /\ d'.pc = "row" /\ news' \subseteq news
                            /\ Overlap({w, u}) \subseteq mishaps'
      BY <1>3 DEF Poll, PollFails, onWsEvent, Task, server, tasks
    <2>2. ~Busy(w) /\ ~Busy(u)
      BY <2>1 DEF Calm, Apart, Overlap
    <2>3. OneBusy'
      BY <1>1, <2>2 DEF OneBusy, Busy
    <2>4. OneId'
      BY <1>1, <2>1, OneIdStays DEF Holds, Known
    <2>5. WorkerHolds'
      BY <1>1, <2>2, WorkerHoldsNothing DEF Busy
    <2>6. DownloadHolds'
      BY <2>1 DEF DownloadHolds
    <2> QED BY <1>1, <2>3, <2>4, <2>5, <2>6, RowStays, OthersStay DEF Holds
  <1> QED BY <1>2, <1>3

\* A download ends with the row of the file it brought.
LEMMA DownloadStepHolds ==
    ASSUME TypeInv, Grows, Holds, Downloader
    PROVE  Holds'
  <1>1. UNCHANGED <<file, news, w, u>>
    BY DEF Downloader, CheckRow, CompareDisk, ApplyFile, ApplyRow, server
  <1>2. Busy(d) /\ d.pc # "idle"
    BY DEF Downloader, CheckRow, CompareDisk, ApplyFile, ApplyRow, Busy
  <1>3. OneBusy' /\ WorkerHolds' /\ DialogHolds'
    BY <1>1, <1>2, WorkerHoldsNothing, OthersStay DEF Holds, OneBusy, Busy
  <1>4. d \in Thread(DownloadPlaces) /\ IsVersion(d.id, d.ver, d.got) /\ d.id \in Known /\ d.id # NoId
    BY <1>2, KnownTyped DEF TypeInv, DownloadTyped, Known, IsVersion
  <1>5. \A i \in Known : i \in {NoId, d.id}
    BY <1>4 DEF Holds, OneId
  <1>6. Task.pc = "idle" /\ Task.id = NoId
    BY DEF Task
  <1>7. CASE CheckRow
    <2>1. UNCHANGED <<row, conflicts>> /\ (d'.pc = "idle" \/ (d'.st = row /\ d'.id = d.id))
          /\ d'.id \in {NoId, d.id}
      BY <1>4, <1>6, <1>7 DEF CheckRow, Thread, db
    <2>2. row.id \in {NoId, d.id}
      BY <1>5 DEF Known
    <2>3. DownloadHolds' /\ OneId'
      BY <1>1, <2>1, <2>2, OneIdStays DEF DownloadHolds, Holds, Known
    <2> QED BY <1>3, <2>1, <2>3, RowStays DEF Holds
  <1>8. CASE CompareDisk
    <2>1. /\ UNCHANGED row /\ \A c \in conflicts' : c \in conflicts \/ c.id = d.id
          /\ d'.pc = "idle" \/ (d'.st = d.st /\ d'.id = d.id)
          /\ d'.id \in {NoId, d.id}
      BY <1>4, <1>6, <1>8 DEF CompareDisk, addConflict, Thread
    <2>2. DownloadHolds'
      BY <1>8, <2>1 DEF DownloadHolds, Holds, CompareDisk
    <2>3. OneId'
      BY <1>1, <1>4, <2>1, OneIdStays DEF Holds, Known
    <2> QED BY <1>3, <2>1, <2>2, <2>3, RowStays DEF Holds
  <1>9. CASE ApplyFile
    <2>1. UNCHANGED <<row, conflicts>> /\ d'.st = d.st /\ d'.id = d.id
      BY <1>4, <1>9 DEF ApplyFile, Thread, db
    <2>2. DownloadHolds' /\ OneId'
      BY <1>1, <1>9, <2>1, OneIdStays DEF DownloadHolds, Holds, Known, ApplyFile
    <2> QED BY <1>3, <2>1, <2>2, RowStays DEF Holds
  <1>10. CASE ApplyRow
    <2>1. UNCHANGED conflicts /\ d'.pc = "idle" /\ d'.id = NoId /\ d.st.id \in {NoId, d.id}
      BY <1>6, <1>10 DEF ApplyRow, Holds, DownloadHolds
    <2>2. d.st \in Row /\ d.ver \in 1..Len(file'[d.id])
      BY <1>1, <1>4 DEF Thread, IsVersion
    <2>3. RowHolds' /\ row'.id \in {NoId, d.id, row.id}
      <3>1. CASE d.got # Nothing
        <4>1. row' = [id |-> d.id, hash |-> d.got, version |-> d.ver, deleted |-> FALSE]
          BY <1>10, <3>1 DEF ApplyRow
        <4>2. row'.id = d.id /\ row'.version = d.ver /\ row'.hash = d.got
          BY <4>1
        <4>3. d.ver <= Len(file'[d.id]) /\ file'[d.id][d.ver] = d.got
          BY <1>1, <1>4, <2>2 DEF IsVersion
        <4> QED BY <4>2, <4>3, RowIsVersion
      <3>2. CASE d.got = Nothing /\ d.st = NoRow
        BY <1>10, <3>2, RowStays DEF ApplyRow, Holds
      <3>3. CASE d.got = Nothing /\ d.st # NoRow
        <4>1. row'.id = d.st.id /\ row'.deleted = TRUE /\ row'.version = d.ver
          BY <1>10, <2>2, <3>3 DEF ApplyRow, Row
        <4> QED BY <2>1, <2>2, <4>1 DEF RowHolds
      <3> QED BY <3>1, <3>2, <3>3
    <2>4. OneId'
      BY <1>1, <1>4, <2>1, <2>3, OneIdStays DEF Holds, Known
    <2>5. DownloadHolds'
      BY <2>1 DEF DownloadHolds
    <2> QED BY <1>3, <2>3, <2>4, <2>5 DEF Holds
  <1> QED BY <1>7, <1>8, <1>9, <1>10 DEF Downloader

\* An answer that is not outdated is about the version it names.
LEMMA AnswerIsVersion ==
    ASSUME StoreTyped, NEW a, NEW i \in Ids, NEW base \in Nat, NEW text \in Texts,
           Answer(a, i, base, text), Applied(a), Calm', Outdated(a, i, text) \subseteq mishaps',
           a.code \in {"ok", "replay"}
    PROVE  /\ a.ver \in 1..Len(file'[i]) /\ file'[i][a.ver] = text /\ a.ver = Len(file'[i])
           /\ a.code = "replay" => file[i] # <<>> /\ UNCHANGED file
  <1>1. CASE a.code = "ok"
    <2>1. file' = [file EXCEPT ![i] = Append(@, text)] /\ a.ver = Len(file[i]) + 1
      BY <1>1 DEF Answer, Applied
    <2>2. Len(file'[i]) = Len(file[i]) + 1 /\ file'[i][Len(file[i]) + 1] = text
      BY <2>1, AppendGrows DEF StoreTyped, MaybeText
    <2>3. Len(file[i]) \in Nat
      BY DEF StoreTyped
    <2> QED BY <1>1, <2>1, <2>2, <2>3
  <1>2. CASE a.code = "replay"
    <2>1. UNCHANGED file /\ a.ver \in Nat \ {0}
      BY <1>2 DEF Answer, Applied, StoreTyped
    <2>2. a.ver = Len(file[i]) /\ Current(i) = text
      BY <1>2 DEF Calm, Apart, Outdated
    <2>3. Len(file[i]) \in 1..Len(file[i]) /\ file[i][Len(file[i])] = text /\ file[i] # <<>>
      BY <2>1, <2>2 DEF Current
    <2> QED BY <2>1, <2>2, <2>3
  <1> QED BY <1>1, <1>2

\* The dialog begins only where no other thread works, with the id of a conflict; a row
\* it leaves is that of the version it brought to the server, or from there.
LEMMA DialogStepHolds ==
    ASSUME TypeInv, Grows, Holds, Calm', Dialog \/ PutLocalLost
    PROVE  Holds'
  <1>1. UNCHANGED <<news, w, d>>
    BY DEF Dialog, KeepLocal, FetchRemote, PutLocal, PutLocalLost, SaveLocal, SaveRemote, Resolved,
           RenameCopy, WriteRemote, server
  <1>2. DownloadHolds'
    BY <1>1, OthersStay
  <1>3. u \in Thread(DialogPlaces) /\ NoId \notin Ids
    BY KnownTyped DEF TypeInv, DialogTyped
  <1>4. Task.pc = "idle" /\ Task.id = NoId
    BY DEF Task
  <1>5. ASSUME NEW c \in conflicts, KeepLocal(c) \/ \E s \in Strategies : FetchRemote(c, s)
        PROVE  Holds'
    <2>1. /\ UNCHANGED <<row, conflicts>> /\ Overlap({w, d}) \subseteq mishaps'
          /\ u'.id = c.id /\ (u'.pc \in {"rename", "write"} \/ (u'.pc = "put" /\ u'.st = row))
      BY <1>5 DEF KeepLocal, FetchRemote, Task, db
    <2>2. ~Busy(w) /\ ~Busy(d)
      BY <2>1 DEF Calm, Apart, Overlap
    <2>3. OneBusy' /\ WorkerHolds'
      BY <1>1, <2>2, WorkerHoldsNothing DEF OneBusy, Busy
    <2>4. OneId'
      BY <1>1, <2>1, OneIdStays DEF Holds, Known
    <2>5. row.id \in {NoId, c.id}
      BY KnownTyped DEF Holds, OneId, Known, TypeInv, DataTyped, ConflictState
    <2>6. DialogHolds'
      BY <2>1, <2>5 DEF DialogHolds
    <2> QED BY <1>2, <2>1, <2>3, <2>4, <2>6, RowStays DEF Holds
  <1>6. ASSUME u.pc # "idle"
        PROVE  /\ u.id \in Known /\ u.id # NoId /\ u.id \in Ids /\ row.id \in {NoId, u.id}
               /\ Busy(u) /\ ~Busy(w) /\ ~Busy(d) /\ WorkerHolds' /\ OneBusy'
    <2>1. u.id \in Known /\ u.id # NoId /\ u.id \in Ids
      BY <1>3, <1>6 DEF Known, TypeInv, DialogTyped
    <2>2. row.id \in {NoId, u.id}
      BY <2>1 DEF Holds, OneId, Known
    <2>3. Busy(u)
      BY <1>3, <1>6 DEF Busy, Thread, DialogPlaces
    <2>4. ~Busy(w) /\ ~Busy(d)
      BY <2>3 DEF Holds, OneBusy
    <2>5. WorkerHolds' /\ OneBusy'
      BY <1>1, <2>4, WorkerHoldsNothing DEF OneBusy, Busy
    <2> QED BY <2>1, <2>2, <2>3, <2>4, <2>5
  <1>7. CASE PutLocal
    <2> DEFINE a == Upload(u.id, u.base, u.text)
    <2>1. /\ u.pc = "put" /\ u.text \in Texts /\ u.base \in Nat /\ u.id \in Ids /\ StoreTyped
          /\ UNCHANGED <<row, conflicts>>
      BY <1>3, <1>7 DEF PutLocal, TypeInv, DialogTyped, Thread, db
    <2>2. /\ Applied(a) /\ Answer(a, u.id, u.base, u.text)
          /\ u' = IF a.code \in {"ok", "replay"} THEN [u EXCEPT !.pc = "save", !.ver = a.ver] ELSE Task
          /\ Outdated(a, u.id, u.text) \subseteq mishaps'
      BY <1>7, <2>1, UploadAnswer DEF PutLocal
    <2> HIDE DEF a
    <2>3. OneId'
      <3>1. u'.id \in {NoId, u.id}
        BY <1>3, <1>4, <2>2 DEF Thread
      <3> QED BY <1>1, <2>1, <3>1, OneIdStays DEF Holds, Known
    <2>4. DialogHolds'
      <3>1. CASE u' = Task
        BY <1>4, <3>1 DEF DialogHolds
      <3>2. CASE a.code \in {"ok", "replay"} /\ u' = [u EXCEPT !.pc = "save", !.ver = a.ver]
        <4>1. u'.st = u.st /\ u'.id = u.id /\ u'.ver = a.ver /\ u'.text = u.text
          BY <1>3, <3>2 DEF Thread
        <4>2. a.ver \in 1..Len(file'[u.id]) /\ file'[u.id][a.ver] = u.text
          BY <2>1, <2>2, <3>2, AnswerIsVersion
        <4> QED BY <2>1, <4>1, <4>2 DEF DialogHolds, IsVersion, Holds
      <3> QED BY <2>2, <3>1, <3>2
    <2> QED BY <1>2, <1>6, <2>1, <2>3, <2>4, RowStays DEF Holds
  <1>8. CASE PutLocalLost
    <2>1. u.pc = "put" /\ u' = Task /\ UNCHANGED <<row, conflicts>>
      BY <1>8 DEF PutLocalLost, db
    <2>2. OneId' /\ DialogHolds'
      BY <1>1, <1>4, <2>1, OneIdStays DEF Holds, Known, DialogHolds
    <2> QED BY <1>2, <1>6, <2>1, <2>2, RowStays DEF Holds
  <1>9. ASSUME NEW st \in Row, NEW text, Resolved(st, text), u.pc # "idle", st.id \in {NoId, u.id},
               IsVersion(u.id, u.ver, text)
        PROVE  Holds'
    <2>1. /\ u' = Task /\ conflicts' \subseteq conflicts /\ UNCHANGED file
          /\ UNCHANGED row \/ row' = [st EXCEPT !.hash = text, !.version = u.ver]
      BY <1>9 DEF Resolved, server
    <2>2. RowHolds' /\ row'.id \in {NoId, u.id, row.id}
      <3>1. CASE UNCHANGED row
        BY <3>1, RowStays DEF Holds
      <3>2. CASE row' = [st EXCEPT !.hash = text, !.version = u.ver]
        <4>1. row'.id = st.id /\ row'.hash = text /\ row'.version = u.ver
          BY <1>9, <3>2 DEF Row
        <4>2. u.ver <= Len(file'[u.id]) /\ file'[u.id][u.ver] = text
          BY <1>9, <2>1 DEF IsVersion, TypeInv, StoreTyped
        <4> QED BY <1>9, <4>1, <4>2 DEF RowHolds
      <3> QED BY <2>1, <3>1, <3>2
    <2>3. OneId'
      BY <1>1, <1>4, <1>6, <1>9, <2>1, <2>2, OneIdStays DEF Holds, Known
    <2>4. DialogHolds'
      BY <1>4, <2>1 DEF DialogHolds
    <2> QED BY <1>2, <1>6, <1>9, <2>2, <2>3, <2>4 DEF Holds
  <1>10. CASE SaveLocal
    <2>1. u.pc = "save" /\ Resolved(u.st, u.text)
      BY <1>10 DEF SaveLocal
    <2>2. u.st \in Row /\ u.st.id \in {NoId, u.id} /\ IsVersion(u.id, u.ver, u.text)
      BY <1>3, <2>1 DEF Thread, Holds, DialogHolds
    <2> QED BY <1>9, <2>1, <2>2
  <1>11. CASE SaveRemote
    <2>1. u.pc = "saveRemote" /\ Resolved(row, u.got)
      BY <1>11 DEF SaveRemote
    <2>2. row \in Row /\ IsVersion(u.id, u.ver, u.got)
      BY <2>1 DEF TypeInv, DataTyped, DialogTyped
    <2> QED BY <1>6, <1>9, <2>1, <2>2
  <1>12. CASE RenameCopy \/ WriteRemote
    <2>1. /\ u.pc # "idle" /\ u'.id = u.id /\ u'.pc \in {"write", "saveRemote"}
          /\ UNCHANGED <<row, conflicts>>
      BY <1>3, <1>12 DEF RenameCopy, WriteRemote, Thread, db
    <2>2. OneId' /\ DialogHolds'
      BY <1>1, <2>1, OneIdStays DEF Holds, Known, DialogHolds
    <2> QED BY <1>2, <1>6, <2>1, <2>2, RowStays DEF Holds
  <1> QED BY <1>5, <1>7, <1>8, <1>10, <1>11, <1>12 DEF Dialog

\* The worker: the row it leaves is that of the version it brought to the server.
LEMMA WorkerStepHolds ==
    ASSUME TypeInv, Grows, Holds, Calm',
           \/ Worker \/ UploadLost \/ DeleteLost \/ OpFails \/ PutMergedLost
    PROVE  Holds'
  <1>1. UNCHANGED <<news, d, u>>
    BY DEF Worker, workerLoop, NextOp, ReadFile, ReadRow, UploadAnswered, SaveUpload, DeleteAnswered,
       removeFile, FetchCurrent, MergeLocal, WriteMerged, PutMerged, SaveMerged, ConflictCopy,
       UploadLost, DeleteLost, OpFails, PutMergedLost, server
  <1>2. DownloadHolds' /\ DialogHolds'
    BY <1>1, OthersStay
  <1>3. w \in Thread(WorkerPlaces) /\ w.base \in Nat /\ w.ver \in Nat /\ StoreTyped /\ NoId \notin Ids
    BY KnownTyped DEF TypeInv, WorkerTyped, Thread
  <1>4. OpDone => w'.pc = "next"
    BY DEF OpDone, Task
  <1>5. Busy(w) => OneBusy'
    BY <1>1 DEF Holds, OneBusy, Busy
  <1>6. UNCHANGED <<row, conflicts>> => OneId' /\ RowHolds'
    BY <1>1, RowStays, OneIdStays DEF Holds, Known
  <1>7. CASE workerLoop \/ NextOp
    <2>1. /\ UNCHANGED <<row, conflicts>> /\ w'.pc \in {"idle", "next", "read", "delete"}
          /\ w'.pc \in {"read", "delete"} => Overlap({d, u}) \subseteq mishaps'
      <3>1. CASE workerLoop
        BY <3>1 DEF workerLoop, Task, db
      <3>2. CASE NextOp
        <4>1. UNCHANGED <<row, conflicts>> /\ (w' = Task \/ Overlap({d, u}) \subseteq mishaps')
          BY <3>2 DEF NextOp, db
        <4>2. w' = Task \/ w' = [w EXCEPT !.pc = "read"] \/ w' = [w EXCEPT !.pc = "delete"]
          BY <3>2 DEF NextOp
        <4>3. Task.pc = "idle"
          BY DEF Task
        <4> QED BY <1>3, <4>1, <4>2, <4>3 DEF Thread
      <3> QED BY <1>7, <3>1, <3>2
    <2>2. WorkerHolds'
      BY <2>1, WorkerHoldsNothing
    <2>3. OneBusy'
      BY <1>1, <2>1 DEF Calm, Apart, Overlap, Holds, OneBusy, Busy
    <2> QED BY <1>2, <1>6, <2>1, <2>2, <2>3 DEF Holds
  <1>8. CASE ReadFile \/ UploadLost \/ DeleteAnswered \/ DeleteLost \/ OpFails
    <2>1. UNCHANGED <<row, conflicts>> /\ w'.pc \in {"row", "next", "forget"} /\ Busy(w)
      BY <1>3, <1>4, <1>8 DEF ReadFile, UploadLost, DeleteAnswered, DeleteLost, OpFails, opFailed, Thread,
                              db, Busy
    <2> QED BY <1>2, <1>5, <1>6, <2>1, WorkerHoldsNothing DEF Holds
  <1>9. CASE ReadRow
    <2>1. UNCHANGED <<row, conflicts, file>> /\ Busy(w)
      BY <1>9 DEF ReadRow, Busy, server
    <2>2. WorkerHolds'
      <3>1. CASE OpDone
        BY <1>4, <3>1, WorkerHoldsNothing
      <3>2. CASE ~OpDone
        <4>1. /\ w'.pc = "send" /\ w'.id = IF row.id = NoId THEN NewId ELSE row.id
              /\ row.id # NoId \/ Unused # {}
          BY <1>3, <1>9, <3>2 DEF ReadRow, Thread
        <4>2. row.id = NoId => file[NewId] = <<>>
          BY <4>1, NewIdUnused DEF Unused
        <4> QED BY <2>1, <4>1, <4>2 DEF WorkerHolds
      <3> QED BY <3>1, <3>2
    <2> QED BY <1>2, <1>5, <1>6, <2>1, <2>2 DEF Holds
  <1>10. CASE UploadAnswered
    <2> DEFINE a == Upload(w.id, w.base, w.text)
    <2>1. /\ w.pc = "send" /\ w.text \in Texts /\ w.id \in Ids /\ Busy(w)
          /\ UNCHANGED <<row, conflicts>>
      BY <1>3, <1>10 DEF UploadAnswered, TypeInv, WorkerTyped, Busy
    <2>2. /\ Applied(a) /\ Answer(a, w.id, w.base, w.text)
          /\ \/ OpDone
             \/ /\ a.code # "refused"
                /\ w' = [w EXCEPT !.pc = IF a.code = "conflict" THEN "fetch" ELSE "save", !.ver = a.ver]
                /\ Outdated(a, w.id, w.text) \subseteq mishaps'
                /\ a.code = "ok" => Twin(w.id) \subseteq mishaps'
      BY <1>3, <1>10, <2>1, UploadAnswer DEF UploadAnswered, opFailed
    <2> HIDE DEF a
    <2>3. WorkerHolds'
      <3>1. CASE OpDone
        BY <1>4, <3>1, WorkerHoldsNothing
      <3>2. CASE ~OpDone /\ a.code = "conflict"
        <4>1. w'.pc = "fetch" /\ w'.id = w.id
          BY <1>3, <2>2, <3>2 DEF Thread
        <4>2. row.id = w.id
          BY <2>1, <2>2, <3>2 DEF Answer, Holds, WorkerHolds
        <4> QED BY <2>1, <4>1, <4>2 DEF WorkerHolds
      <3>3. CASE ~OpDone /\ a.code \in {"ok", "replay"}
        <4>1. w'.pc = "save" /\ w'.id = w.id /\ w'.ver = a.ver /\ w'.text = w.text
          BY <1>3, <2>2, <3>3 DEF Thread
        <4>2. /\ a.ver \in 1..Len(file'[w.id]) /\ file'[w.id][a.ver] = w.text /\ a.ver = Len(file'[w.id])
              /\ a.code = "replay" => file[w.id] # <<>>
          <5>1. Outdated(a, w.id, w.text) \subseteq mishaps' /\ Applied(a)
                /\ Answer(a, w.id, w.base, w.text)
            BY <2>2, <3>3
          <5> QED BY <1>3, <2>1, <3>3, <5>1, AnswerIsVersion, ZenonT(30)
        <4>3. Known' = Known
          BY <1>1, <2>1 DEF Known
        <4>4. Known \subseteq {NoId, w.id}
          <5>1. CASE a.code = "ok"
            <6>1. \A j \in Ids \ {w.id} : j \notin Known
              BY <2>2, <3>3, <5>1 DEF Calm, Apart, Twin
            <6> QED BY <6>1, KnownTyped
          <5>2. CASE a.code = "replay"
            <6>1. row.id = w.id
              BY <2>1, <4>2, <5>2 DEF Holds, WorkerHolds
            <6>2. w.id \in Known /\ w.id # NoId
              BY <1>3, <2>1, <6>1 DEF Known
            <6> QED BY <6>2 DEF Holds, OneId
          <5> QED BY <3>3, <5>1, <5>2
        <4>5. Live(w.id)'
          <5>1. file'[w.id][Len(file'[w.id])] = w.text /\ Len(file'[w.id]) \in 1..Len(file'[w.id])
            BY <4>2
          <5>2. w.text # Nothing
            BY <2>1, EngineAssumption DEF Texts, Nothing
          <5>3. file'[w.id] # <<>>
            BY <5>1
          <5> QED BY <4>1, <5>1, <5>2, <5>3 DEF Live, Current
        <4> QED BY <2>1, <4>1, <4>2, <4>3, <4>4, <4>5 DEF WorkerHolds, IsVersion, Live, Current
      <3> QED BY <2>2, <3>1, <3>2, <3>3 DEF Answer
    <2> QED BY <1>2, <1>5, <1>6, <2>1, <2>3 DEF Holds
  <1>11. CASE SaveUpload \/ SaveMerged
    <2>1. /\ w.pc \in {"save", "saveMerged"} /\ OpDone /\ UNCHANGED <<conflicts, file>>
          /\ row'.id = w.id /\ row'.version = w.ver
          /\ row'.hash = IF w.pc = "save" THEN w.text ELSE w.got
      BY <1>11 DEF SaveUpload, SaveMerged, server
    <2>2. IsVersion(w.id, w.ver, row'.hash)
      BY <2>1 DEF Holds, WorkerHolds
    <2>3. RowHolds'
      <3>1. w.ver <= Len(file'[w.id]) /\ file'[w.id][w.ver] = row'.hash
        BY <2>1, <2>2 DEF IsVersion, TypeInv, StoreTyped
      <3> QED BY <2>1, <3>1, RowIsVersion
    <2>4. OneId'
      <3>1. w.id \in Ids /\ w.id # NoId
        BY <1>3, <2>2 DEF IsVersion
      <3>2. Known \subseteq {NoId, w.id}
        <4>1. CASE w.pc = "save"
          BY <4>1 DEF Holds, WorkerHolds
        <4>2. CASE w.pc = "saveMerged"
          <5>1. w.id \in Known
            BY <4>2 DEF Holds, WorkerHolds, Known
          <5> QED BY <3>1, <5>1 DEF Holds, OneId
        <4> QED BY <2>1, <4>1, <4>2
      <3>3. Known' \subseteq {NoId, w.id}
        BY <1>1, <2>1, <3>2 DEF Known
      <3> QED BY <3>3 DEF OneId
    <2> QED BY <1>2, <1>4, <1>5, <2>1, <2>3, <2>4, WorkerHoldsNothing DEF Holds, Busy
  <1>12. CASE removeFile
    <2>1. Busy(w) /\ OpDone /\ UNCHANGED conflicts /\ row'.id = NoId
      BY <1>12, EmptyRows DEF removeFile, Busy
    <2>2. OneId' /\ RowHolds'
      BY <1>1, <2>1, OneIdStays, RowStays DEF Holds, Known
    <2> QED BY <1>2, <1>4, <1>5, <2>1, <2>2, WorkerHoldsNothing DEF Holds
  <1>13. CASE FetchCurrent \/ MergeLocal \/ WriteMerged \/ PutMergedLost
    <2>1. /\ w.pc \in {"fetch", "merge", "write", "put"} /\ UNCHANGED <<row, conflicts>>
          /\ w'.pc = "next" \/ (w'.id = w.id /\ w'.pc \in {"merge", "write", "put", "copy"})
      <3>1. CASE FetchCurrent
        BY <1>3, <1>4, <3>1 DEF FetchCurrent, opFailed, Thread
      <3>2. CASE MergeLocal
        BY <1>3, <3>2 DEF MergeLocal, Thread, db
      <3>3. CASE WriteMerged \/ PutMergedLost
        BY <1>3, <3>3 DEF WriteMerged, PutMergedLost, Thread, db
      <3> QED BY <1>13, <3>1, <3>2, <3>3
    <2>2. WorkerHolds'
      BY <2>1 DEF Holds, WorkerHolds
    <2> QED BY <1>2, <1>5, <1>6, <2>1, <2>2 DEF Holds, Busy
  <1>14. CASE PutMerged
    <2> DEFINE a == Upload(w.id, w.ver, w.got)
    <2>1. w.pc = "put" /\ w.got \in Texts /\ w.id \in Ids /\ Busy(w) /\ UNCHANGED <<row, conflicts>>
      BY <1>3, <1>14 DEF PutMerged, TypeInv, WorkerTyped, Busy, db
    <2>2. /\ Applied(a) /\ Answer(a, w.id, w.ver, w.got) /\ Outdated(a, w.id, w.got) \subseteq mishaps'
          /\ w' = IF a.code \in {"ok", "replay"} THEN [w EXCEPT !.pc = "saveMerged", !.ver = a.ver]
                  ELSE [w EXCEPT !.pc = "copy"]
      BY <1>3, <1>14, <2>1, UploadAnswer DEF PutMerged
    <2> HIDE DEF a
    <2>3. w.id = row.id
      BY <2>1 DEF Holds, WorkerHolds
    <2>4. WorkerHolds'
      <3>1. CASE a.code \in {"ok", "replay"}
        <4>1. w'.pc = "saveMerged" /\ w'.id = w.id /\ w'.ver = a.ver /\ w'.got = w.got
          BY <1>3, <2>2, <3>1 DEF Thread
        <4>2. a.ver \in 1..Len(file'[w.id]) /\ file'[w.id][a.ver] = w.got
          BY <1>3, <2>1, <2>2, <3>1, AnswerIsVersion
        <4> QED BY <2>1, <2>3, <4>1, <4>2 DEF WorkerHolds, IsVersion
      <3>2. CASE a.code \notin {"ok", "replay"}
        <4>1. w'.pc = "copy" /\ w'.id = w.id
          BY <1>3, <2>2, <3>2 DEF Thread
        <4> QED BY <2>1, <2>3, <4>1 DEF WorkerHolds
      <3> QED BY <3>1, <3>2
    <2> QED BY <1>2, <1>5, <1>6, <2>1, <2>4 DEF Holds
  <1>15. CASE ConflictCopy
    <2>1. /\ Busy(w) /\ OpDone /\ UNCHANGED row /\ w.id = row.id
          /\ \A c \in conflicts' : c \in conflicts \/ c.id = w.id
      BY <1>15 DEF ConflictCopy, Busy, addConflict, Holds, WorkerHolds
    <2>2. OneId' /\ RowHolds'
      BY <1>1, <2>1, OneIdStays, RowStays DEF Holds, Known
    <2> QED BY <1>2, <1>4, <1>5, <2>1, <2>2, WorkerHoldsNothing DEF Holds
  <1> QED BY <1>7, <1>8, <1>9, <1>10, <1>11, <1>12, <1>13, <1>14, <1>15 DEF Worker

\* Every step keeps the row true.
LEMMA RowInvNext ==
    ASSUME TypeInv, RowInv, [Next]_vars
    PROVE  RowInv'
  <1> SUFFICES ASSUME Calm' PROVE Holds'
    BY DEF RowInv
  <1>1. Holds /\ Grows
    BY CalmBefore, TypeInvNext DEF RowInv
  <1>2. CASE UNCHANGED vars
    <2>1. UNCHANGED <<file, news, row, conflicts, w, d, u>>
      BY <1>2 DEF vars, server, db, tasks
    <2>2. Known' = Known
      BY <2>1 DEF Known
    <2>3. OneBusy' /\ OneId' /\ RowHolds' /\ DownloadHolds' /\ DialogHolds'
      BY <1>1, <2>1, <2>2, OneIdStays, RowStays, OthersStay DEF Holds, OneBusy, Busy
    <2>4. WorkerHolds'
      BY <1>1, <2>1, <2>2 DEF Holds, WorkerHolds, Live, Current, IsVersion
    <2> QED BY <2>3, <2>4 DEF Holds
  <1>3. CASE Next
    BY <1>1, <1>3, UserHolds, RemoteHolds, PollHolds, DownloadStepHolds, DialogStepHolds,
       WorkerStepHolds DEF Next, Faults
  <1> QED BY <1>2, <1>3

\* Whatever is lost, failed or interleaved, the row names a version that the server has,
\* with the text of its hash, unless an outdated answer was replayed, the path has a
\* second file id or two threads worked on the file at once.
THEOREM RowTrueCorrect == Spec => []RowTrue
  <1>1. RowInv => RowTrue
    BY DEF RowInv, Calm, Apart, Holds, RowHolds, RowTrue
  <1>2. TypeInv /\ RowInv /\ [Next]_vars => TypeInv' /\ RowInv'
    BY TypeInvNext, RowInvNext
  <1> QED BY <1>1, <1>2, TypeInvInit, RowInvInit, PTL DEF Spec

=============================================================================
