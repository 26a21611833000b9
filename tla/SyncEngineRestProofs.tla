------------------------ MODULE SyncEngineRestProofs ------------------------
(***************************************************************************)
(* AtRestSynced, for any edits, file ids and bounds: when nothing is       *)
(* queued, unread, unresolved or under way and no mishap is on record, the *)
(* file on disk is the newest version on the server.                       *)
(***************************************************************************)
EXTENDS SyncEngineProofs

\* Every edit in a text was made.
Made(t) == Text(t) \subseteq used
MadeInv ==
    /\ \A i \in Ids : \A v \in DOMAIN file[i] : Made(file[i][v])
    /\ Made(disk) /\ Made(row.hash) /\ Made(d.st.hash)
    /\ \A c \in Copies : Made(copy[c])
    /\ Made(w.text) /\ Made(w.got) /\ Made(d.got) /\ Made(u.text) /\ Made(u.got)

-----------------------------------------------------------------------------
\* Nothing has happened but changes that no event told of.
Quiet == mishaps \subseteq {"unseen"}

\* What the server has under the version the row names.
RowText == IF row.id = NoId THEN Nothing ELSE file[row.id][row.version]

\* An unresolved conflict excuses what follows about the row.
Clear == conflicts = {} /\ row.id # NoId

Has(kind) == \E i \in DOMAIN ops : ops[i].kind = kind
Op == Head(w.todo)

\* A change is told of by an event, or (Queued) by an operation too, or (Retold) by
\* another operation than the worker's.
Signalled == "unseen" \in mishaps \/ events # <<>>
Queued == Signalled \/ ops # <<>>
Retold == Signalled \/ (ops # <<>> /\ ops[Len(ops)].id # Op.id)

\* Version v of file i is its last, or the change feed has something on it.
Heard(i, v) == v = Len(file[i]) \/ i \in news

\* No later version of file i is the text t again.
Newest(i, v, t) == \A k \in (v + 1)..Len(file[i]) : file[i][k] # t

RowShape ==
    /\ row.id = NoId => row.hash = Nothing
    /\ row.id # NoId =>
          /\ row.version \in 1..Len(file[row.id])
          /\ row.hash \in Texts /\ shadow = row.hash
          /\ RowText \in {row.hash, Nothing}

\* The last operation fits the file.
LastFits ==
    ops # <<>> => Signalled \/ (ops[Len(ops)].kind = "delete") = (disk = Nothing)

\* What is on disk is known, or told of.
Told == Queued \/ conflicts # {} \/ disk = RowText

\* Later versions are different, and the file is, too, once it was deleted elsewhere.
RowNew ==
    Clear => /\ Newest(row.id, row.version, row.hash)
             /\ RowText = Nothing => disk # row.hash

\* A version the row does not know will be fetched, or found by an operation.
Awaited ==
    Clear /\ row.version # Len(file[row.id]) =>
       \/ row.id \in news \/ Busy(d)
       \/ Has("delete") \/ (Has("upload") /\ disk # row.hash)

WorkerQueue ==
    /\ w.pc # "idle" =>
          /\ Distinct(w.todo) /\ \A i \in DOMAIN w.todo : Has(w.todo[i].kind)
          /\ \A i \in DOMAIN w.todo, j \in DOMAIN ops :
                w.todo[i].id = ops[j].id => w.todo[i].kind = ops[j].kind
    /\ Busy(w) => (Op.kind = "delete") = (w.pc \in {"delete", "forget"})
    /\ Busy(w) /\ Op.id \in IdsOf(ops) => Head(ops).id = Op.id

WorkerTold ==
    /\ w.pc \in {"row", "send", "save"} => disk = w.text \/ Retold
    /\ w.pc \in {"put", "saveMerged"} => disk = w.got \/ Retold
    /\ w.pc = "send" => w.base = row.version
    /\ w.pc = "save" => Heard(w.id, w.ver) /\ Newest(w.id, w.ver, w.text)
    /\ w.pc = "saveMerged" => Heard(w.id, w.ver) /\ Newest(w.id, w.ver, w.got)

WorkerNew ==
    Clear =>
       /\ w.pc = "row" =>
             /\ disk = w.text \/ disk # row.hash
             /\ w.text = row.hash =>
                   /\ RowText # Nothing
                   /\ Heard(row.id, row.version) \/ Has("delete")
       /\ w.pc \in {"send", "save", "fetch", "merge", "write", "put", "saveMerged", "copy"} =>
             disk # row.hash
       /\ w.pc = "send" => w.text # row.hash
       /\ w.pc = "fetch" => row.version # Len(file[row.id])
       /\ w.pc \in {"merge", "write", "put"} => w.got # row.hash

\* The row is still as a thread has read it.
Same(st) == st = row \/ (st = NoRow /\ row = EmptyRow)

DownloadRest ==
    /\ d.pc # "idle" => Heard(d.id, d.ver) /\ (d.got # Nothing => Newest(d.id, d.ver, d.got))
    /\ d.pc \in {"compare", "write", "save"} =>
          Same(d.st) /\ (row.id # NoId => row.version < d.ver)
    /\ d.pc = "save" =>
          /\ disk = d.got \/ Queued
          /\ Clear /\ d.got = Nothing => disk # row.hash

DialogRest ==
    /\ u.pc # "idle" => conflicts # {}
    /\ u.pc \in {"put", "save", "saveRemote"} => Queued
    /\ u.pc \in {"put", "save"} => Same(u.st)
    /\ u.pc = "save" => Heard(u.id, u.ver) /\ Newest(u.id, u.ver, u.text)
    /\ u.pc \in {"rename", "write", "saveRemote"} =>
          Heard(u.id, u.ver) /\ Newest(u.id, u.ver, u.got)

Rests ==
    /\ RowShape /\ LastFits /\ Told /\ RowNew /\ Awaited
    /\ WorkerQueue /\ WorkerTold /\ WorkerNew /\ DownloadRest /\ DialogRest

RestInv == Quiet => Rests

-----------------------------------------------------------------------------
(* The texts.                                                              *)

\* A text is not a tombstone.
LEMMA TextIsNotNothing ==
    Nothing \notin Texts /\ Text(Nothing) = {} /\ \A t \in Texts : Text(t) = t
  BY EngineAssumption DEF Nothing, Texts, Text, Edits

\* The texts are made of edits that were made, in the state after a step.
MadeNext(t) == Text(t) \subseteq used'

\* No version is added but one made of such edits.
LEMMA FilesMade ==
    ASSUME TypeInv, MadeInv, used \subseteq used',
           \/ UNCHANGED file
           \/ \E i \in Ids, t \in MaybeText :
                 MadeNext(t) /\ file' = [file EXCEPT ![i] = Append(@, t)]
    PROVE  \A i \in Ids : \A v \in DOMAIN file'[i] : MadeNext(file'[i][v])
  <1>1. \A i \in Ids : \A v \in DOMAIN file[i] : MadeNext(file[i][v])
    BY DEF MadeInv, Made, MadeNext
  <1>2. CASE UNCHANGED file
    BY <1>1, <1>2
  <1>3. ASSUME NEW i \in Ids, NEW t \in MaybeText, MadeNext(t),
               file' = [file EXCEPT ![i] = Append(@, t)]
        PROVE  \A j \in Ids : \A v \in DOMAIN file'[j] : MadeNext(file'[j][v])
    <2>1. /\ Grows /\ Len(file'[i]) = Len(file[i]) + 1 /\ file'[i][Len(file[i]) + 1] = t
          /\ \A j \in Ids \ {i} : file'[j] = file[j]
      BY <1>3, AppendGrows DEF TypeInv, StoreTyped
    <2>2. DOMAIN file[i] = 1..Len(file[i]) /\ DOMAIN file'[i] = 1..Len(file'[i]) /\ Len(file[i]) \in Nat
      BY <2>1 DEF TypeInv, StoreTyped, Grows
    <2>3. \A v \in DOMAIN file'[i] : v \in DOMAIN file[i] \/ v = Len(file[i]) + 1
      BY <2>1, <2>2
    <2>4. \A v \in DOMAIN file[i] : file'[i][v] = file[i][v]
      BY <2>1, <2>2 DEF Grows
    <2>5. \A v \in DOMAIN file'[i] : MadeNext(file'[i][v])
      BY <1>1, <1>3, <2>1, <2>3, <2>4
    <2> QED BY <1>1, <2>1, <2>5
  <1> QED BY <1>2, <1>3
  
\* An upload adds the text it uploads, or nothing.
LEMMA UploadAdds ==
    ASSUME StoreTyped, NEW i \in Ids, NEW base \in Nat, NEW text \in Texts,
           MaybeApplied(Upload(i, base, text))
    PROVE  UNCHANGED file \/ file' = [file EXCEPT ![i] = Append(@, text)]
  <1> DEFINE a == Upload(i, base, text)
  <1>1. Answer(a, i, base, text) /\ MaybeApplied(a)
    BY UploadAnswer
  <1> HIDE DEF a
  <1> QED BY <1>1 DEF Answer, MaybeApplied, Applied

\* The first texts have no edits.
LEMMA MadeInvInit == Init => MadeInv
  <1> SUFFICES ASSUME Init PROVE MadeInv
    OBVIOUS
  <1>1. Made(Nothing) /\ Made({})
    BY TextIsNotNothing DEF Made, Text
  <1>2. Task.text = Nothing /\ Task.got = Nothing /\ Task.st.hash = Nothing /\ NoRow.hash = Nothing
    BY DEF Task, NoRow, EmptyRow
  <1>3. \A i \in Ids : file[i] = <<>> \/ file[i] = <<{}>>
    BY DEF Init
  <1>4. \A i \in Ids : \A v \in DOMAIN file[i] : Made(file[i][v])
    <2> SUFFICES ASSUME NEW i \in Ids, NEW v \in DOMAIN file[i] PROVE Made(file[i][v])
      OBVIOUS
    <2>1. file[i] = <<{}>> => v = 1 /\ file[i][v] = {}
      OBVIOUS
    <2>2. file[i] # <<>>
      OBVIOUS
    <2> QED BY <1>1, <1>3, <2>1, <2>2
  <1>5. Made(row.hash) /\ Made(disk)
    <2>1. row = NoRow \/ row.hash = {}
      BY DEF Init
    <2>2. disk = Nothing \/ disk = {}
      BY DEF Init
    <2> QED BY <1>1, <1>2, <2>1, <2>2
  <1>6. w = Task /\ d = Task /\ u = Task /\ copy = [c \in Copies |-> Nothing]
    BY DEF Init
  <1> HIDE DEF Init
  <1> QED BY <1>1, <1>2, <1>4, <1>5, <1>6 DEF MadeInv

\* Every step leaves texts that are made of edits that were made.
LEMMA MadeInvNext ==
    ASSUME TypeInv, MadeInv, [Next]_vars
    PROVE  MadeInv'
  <1> DEFINE Files == \A i \in Ids : \A v \in DOMAIN file'[i] : MadeNext(file'[i][v])
  <1> DEFINE Copied1 == \A c \in Copies : MadeNext(copy'[c])
  <1> DEFINE Threads == /\ MadeNext(w'.text) /\ MadeNext(w'.got) /\ MadeNext(d'.got)
                        /\ MadeNext(d'.st.hash) /\ MadeNext(u'.text) /\ MadeNext(u'.got)
  <1> SUFFICES Files /\ MadeNext(disk') /\ MadeNext(row'.hash) /\ Copied1 /\ Threads
    BY DEF MadeInv, Made, MadeNext
  <1>1. used \subseteq used'
    BY DEF Next, Worker, workerLoop, NextOp, ReadFile, ReadRow, UploadAnswered, SaveUpload,
       DeleteAnswered, removeFile, FetchCurrent, MergeLocal, WriteMerged, PutMerged, SaveMerged,
       ConflictCopy, Poll, onWsEvent, Downloader, CheckRow, CompareDisk, ApplyFile, ApplyRow, Dialog,
       KeepLocal, FetchRemote, PutLocal, SaveLocal, SaveRemote, Resolved, RenameCopy, WriteRemote,
       onFsEvent, Scan, Faults, UploadLost, DeleteLost, OpFails, PutMergedLost, PutLocalLost,
       PollFails, User, Save, Delete, onFileOpened, setPaused, Stop, Start, Others, RemoteDelete,
       RemoteEdit, bounds, vars
  <1>2. \A t : Made(t) => MadeNext(t)
    BY <1>1 DEF Made, MadeNext
  <1>3. MadeNext(Nothing)
    BY TextIsNotNothing DEF MadeNext
  <1>4. /\ Task.text = Nothing /\ Task.got = Nothing /\ Task.st.hash = Nothing
        /\ NoRow.hash = Nothing /\ EmptyRow.hash = Nothing
    BY DEF Task, NoRow, EmptyRow
  <1>5. /\ MadeNext(disk) /\ MadeNext(row.hash) /\ MadeNext(d.st.hash)
        /\ \A c \in Copies : MadeNext(copy[c])
        /\ MadeNext(w.text) /\ MadeNext(w.got) /\ MadeNext(d.got) /\ MadeNext(u.text) /\ MadeNext(u.got)
    BY <1>2 DEF MadeInv
  <1>6. UNCHANGED file => Files
    BY <1>1, FilesMade
  <1>7. /\ UNCHANGED copy => Copied1
        /\ UNCHANGED <<w, d, u>> => Threads
    BY <1>5
  <1>8. /\ w \in Thread(WorkerPlaces) /\ d \in Thread(DownloadPlaces) /\ u \in Thread(DialogPlaces)
        /\ row \in Row /\ copy \in [Copies -> MaybeText] /\ disk \in MaybeText
    BY DEF TypeInv, WorkerTyped, DownloadTyped, DialogTyped, DataTyped
  <1>9. OpDone => w'.text = Nothing /\ w'.got = Nothing
    BY DEF OpDone, Task
  <1>10. ASSUME NEW i \in Ids, file[i] # <<>> PROVE MadeNext(Current(i))
    <2>1. IsVersion(i, Len(file[i]), Current(i))
      BY <1>10, CurrentIsVersion DEF TypeInv, StoreTyped
    <2> QED BY <1>2, <2>1 DEF IsVersion, MadeInv
  <1> HIDE DEF Files, Copied1
  <1>11. CASE UNCHANGED vars
    BY <1>5, <1>6, <1>7, <1>11 DEF vars, server, db, saved, tasks
  <1>12. CASE workerLoop \/ NextOp
    <2>1. w'.text \in {w.text, Nothing} /\ w'.got \in {w.got, Nothing}
      BY <1>8, <1>4, <1>12 DEF workerLoop, NextOp, Task, Thread
    <2>2. UNCHANGED <<file, disk, row, copy, d, u>>
      BY <1>12 DEF workerLoop, NextOp, server, db, saved
    <2> QED BY <1>3, <1>5, <1>6, <1>7, <2>1, <2>2
  <1>13. CASE ReadFile \/ ReadRow \/ FetchCurrent \/ OpFails
    <2>1. UNCHANGED <<file, disk, row, copy, d, u>>
      BY <1>13 DEF ReadFile, ReadRow, FetchCurrent, OpFails, server, saved
    <2>2. MadeNext(w'.text) /\ MadeNext(w'.got)
      <3>1. CASE ReadFile
        BY <1>3, <1>5, <1>8, <1>9, <3>1 DEF ReadFile, opFailed, Thread
      <3>2. CASE ReadRow
        BY <1>3, <1>5, <1>8, <1>9, <3>2 DEF ReadRow, Thread
      <3>3. CASE FetchCurrent
        <4>1. w.id \in Ids
          BY <3>3 DEF FetchCurrent, TypeInv, WorkerTyped
        <4> QED BY <1>3, <1>5, <1>8, <1>9, <1>10, <3>3, <4>1 DEF FetchCurrent, opFailed, Thread, Live
      <3>4. CASE OpFails
        BY <1>3, <1>9, <3>4 DEF OpFails, opFailed
      <3> QED BY <1>13, <3>1, <3>2, <3>3, <3>4
    <2> QED BY <1>5, <1>6, <1>7, <2>1, <2>2
  <1>14. ASSUME NEW i \in Ids, NEW base \in Nat, NEW text \in Texts, MadeNext(text),
                MaybeApplied(Upload(i, base, text))
         PROVE  Files
    <2>1. UNCHANGED file \/ file' = [file EXCEPT ![i] = Append(@, text)]
      BY <1>14, UploadAdds DEF TypeInv
    <2> QED BY <1>1, <1>14, <2>1, FilesMade DEF MaybeText, Files
  <1>15. CASE UploadAnswered \/ UploadLost
    <2>1. UNCHANGED <<disk, row, copy, d, u>> /\ w.pc = "send" /\ w.id \in Ids /\ w.text \in Texts
          /\ w.base \in Nat
      BY <1>8, <1>15 DEF UploadAnswered, UploadLost, db, saved, TypeInv, WorkerTyped, Thread
    <2>2. MaybeApplied(Upload(w.id, w.base, w.text))
      BY <1>15 DEF UploadAnswered, UploadLost, MaybeApplied
    <2>3. w'.text \in {w.text, Nothing} /\ w'.got \in {w.got, Nothing}
      BY <1>8, <1>9, <1>15 DEF UploadAnswered, UploadLost, opFailed, Thread
    <2> QED BY <1>3, <1>5, <1>7, <1>14, <2>1, <2>2, <2>3
  <1>16. CASE PutMerged \/ PutMergedLost
    <2>1. UNCHANGED <<disk, row, copy, d, u>> /\ w.pc = "put" /\ w.id \in Ids /\ w.got \in Texts
          /\ w.ver \in Nat
      BY <1>8, <1>16 DEF PutMerged, PutMergedLost, db, saved, TypeInv, WorkerTyped, Thread
    <2>2. MaybeApplied(Upload(w.id, w.ver, w.got))
      BY <1>16 DEF PutMerged, PutMergedLost, MaybeApplied
    <2>3. w'.text = w.text /\ w'.got = w.got
      BY <1>8, <1>16 DEF PutMerged, PutMergedLost, Thread
    <2> QED BY <1>3, <1>5, <1>7, <1>14, <2>1, <2>2, <2>3
  <1>17. CASE DeleteAnswered \/ DeleteLost
    <2>1. UNCHANGED <<disk, row, copy, d, u>>
          /\ w'.text \in {w.text, Nothing} /\ w'.got \in {w.got, Nothing}
      BY <1>8, <1>9, <1>17 DEF DeleteAnswered, DeleteLost, db, saved, Thread
    <2>2. UNCHANGED file \/ (row.id # NoId /\ file' = Tombstoned(row.id))
      BY <1>17 DEF DeleteAnswered, DeleteLost
    <2>3. Files
      <3>1. CASE UNCHANGED file
        BY <1>6, <3>1
      <3>2. CASE row.id # NoId /\ file' = Tombstoned(row.id) /\ file[row.id] = <<>>
        <4>1. UNCHANGED file
          BY <3>2 DEF Tombstoned, TypeInv, StoreTyped
        <4> QED BY <1>6, <4>1
      <3>3. CASE row.id # NoId /\ file' = Tombstoned(row.id) /\ file[row.id] # <<>>
        <4>1. row.id \in Ids /\ Nothing \in MaybeText
          BY <1>8, <3>3 DEF Row, MaybeText
        <4>2. file' = [file EXCEPT ![row.id] = Append(@, Nothing)]
          BY <3>3 DEF Tombstoned
        <4> QED BY <1>1, <1>3, <4>1, <4>2, FilesMade DEF Files
      <3> QED BY <2>2, <3>1, <3>2, <3>3
    <2> QED BY <1>3, <1>5, <1>7, <2>1, <2>3
  <1>18. CASE SaveUpload \/ removeFile \/ SaveMerged
    <2>1. UNCHANGED <<file, disk, copy, d, u>> /\ OpDone
      BY <1>18 DEF SaveUpload, removeFile, SaveMerged, server, saved
    <2>2. row'.hash \in {w.text, Nothing, w.got}
      BY <1>4, <1>18 DEF SaveUpload, removeFile, SaveMerged
    <2> QED BY <1>3, <1>5, <1>6, <1>7, <1>9, <2>1, <2>2
  <1>19. CASE MergeLocal
    <2>1. PICK m \in Merged(Text(shadow), Text(disk), w.got) :
             w' = [w EXCEPT !.text = Text(disk), !.got = m,
                            !.pc = IF m = Nothing THEN "copy" ELSE "write"]
      BY <1>19 DEF MergeLocal
    <2>2. w'.text = Text(disk) /\ w'.got = m
      BY <1>8, <2>1 DEF Thread
    <2>3. m = Nothing \/ m \subseteq Text(disk) \cup w.got
      BY <2>1 DEF Merged
    <2>4. MadeNext(Text(disk)) /\ MadeNext(m)
      BY <1>3, <1>5, <2>3 DEF MadeNext, Text
    <2>5. UNCHANGED <<file, disk, row, copy, d, u>>
      BY <1>19 DEF MergeLocal, server, db, saved
    <2> QED BY <1>5, <1>6, <1>7, <2>2, <2>4, <2>5
  <1>20. CASE WriteMerged
    <2>1. UNCHANGED <<file, row, copy, d, u>> /\ disk' = w.got /\ w'.text = w.text /\ w'.got = w.got
      BY <1>8, <1>20 DEF WriteMerged, server, db, Thread
    <2> QED BY <1>5, <1>6, <1>7, <2>1
  <1>21. CASE ConflictCopy
    <2>1. UNCHANGED <<file, row, disk, d, u>> /\ OpDone /\ copy' = [copy EXCEPT !["device"] = w.text]
      BY <1>21 DEF ConflictCopy, server
    <2>2. Copied1
      BY <1>5, <1>8, <2>1 DEF Copied1
    <2> QED BY <1>3, <1>5, <1>6, <1>9, <2>1, <2>2
  <1>22. CASE Poll \/ PollFails \/ \E i \in Ids : onWsEvent(i)
    <2>1. UNCHANGED <<file, row, disk, copy, w, u>>
      BY <1>22 DEF Poll, PollFails, onWsEvent, server, db, saved, tasks
    <2>2. UNCHANGED d \/ \E i \in news : d'.got = Current(i) /\ d'.st = NoRow
      BY <1>22 DEF Poll, PollFails, onWsEvent, tasks, Task
    <2>3. MadeNext(d'.got) /\ MadeNext(d'.st.hash)
      BY <1>3, <1>4, <1>5, <1>10, <2>2 DEF TypeInv, StoreTyped
    <2> QED BY <1>5, <1>6, <1>7, <2>1, <2>3
  <1>23. CASE CheckRow
    <2>1. UNCHANGED <<file, row, disk, copy, w, u>>
      BY <1>23 DEF CheckRow, server, db, saved
    <2>2. d' = Task \/ (d'.got = d.got /\ d'.st = row)
      BY <1>8, <1>23 DEF CheckRow, Thread
    <2> QED BY <1>3, <1>4, <1>5, <1>6, <1>7, <2>1, <2>2
  <1>24. CASE CompareDisk
    <2>1. UNCHANGED <<file, row, disk, w, u>> /\ (d' = Task \/ (d'.got = d.got /\ d'.st = d.st))
      BY <1>8, <1>24 DEF CompareDisk, server, Thread
    <2>2. UNCHANGED copy \/ copy' = [copy EXCEPT !["unsaved"] = disk]
      BY <1>24 DEF CompareDisk
    <2>3. Copied1
      BY <1>5, <1>8, <2>2 DEF Copied1
    <2> QED BY <1>3, <1>4, <1>5, <1>6, <2>1, <2>3
  <1>25. CASE ApplyFile
    <2>1. UNCHANGED <<file, row, copy, w, u>> /\ d'.got = d.got /\ d'.st = d.st /\ disk' = d.got
      BY <1>8, <1>25 DEF ApplyFile, Replace, server, db, Thread
    <2> QED BY <1>5, <1>6, <1>7, <2>1
  <1>26. CASE ApplyRow
    <2>1. UNCHANGED <<file, disk, copy, w, u>> /\ d' = Task
      BY <1>26 DEF ApplyRow, server
    <2>2. d.st \in Row
      BY <1>8 DEF Thread
    <2>3. \/ row' = [id |-> d.id, hash |-> d.got, version |-> d.ver, deleted |-> FALSE]
          \/ row' = row \/ row' = [d.st EXCEPT !.deleted = TRUE, !.version = d.ver]
      BY <1>26 DEF ApplyRow
    <2>4. row'.hash \in {row.hash, d.got, d.st.hash}
      <3>1. CASE row' = [id |-> d.id, hash |-> d.got, version |-> d.ver, deleted |-> FALSE]
        BY <3>1
      <3>2. CASE row' = [d.st EXCEPT !.deleted = TRUE, !.version = d.ver]
        BY <2>2, <3>2 DEF Row
      <3> QED BY <2>3, <3>1, <3>2
    <2> QED BY <1>3, <1>4, <1>5, <1>6, <1>7, <2>1, <2>4
  <1>27. ASSUME NEW c \in conflicts, KeepLocal(c) \/ \E s \in Strategies : FetchRemote(c, s)
         PROVE  Files /\ MadeNext(disk') /\ MadeNext(row'.hash) /\ Copied1 /\ Threads
    <2>1. c.copy \in Copies /\ c.id \in Ids
      BY DEF TypeInv, DataTyped, ConflictState
    <2>2. UNCHANGED <<file, row, copy, w, d>>
      BY <1>27 DEF KeepLocal, FetchRemote, server, db, saved
    <2>3. disk' \in {disk, copy[c.copy]} /\ u'.text \in {Nothing, copy[c.copy]}
          /\ (u'.got = Nothing \/ (Live(c.id) /\ u'.got = Current(c.id)))
      BY <1>27 DEF KeepLocal, FetchRemote, saved, Task
    <2>4. MadeNext(u'.got)
      BY <1>3, <1>10, <2>1, <2>3 DEF Live
    <2> QED BY <1>3, <1>5, <1>6, <1>7, <2>1, <2>2, <2>3, <2>4
  <1>28. CASE PutLocal \/ PutLocalLost
    <2>1. UNCHANGED <<disk, row, copy, w, d>> /\ u.pc = "put" /\ u.id \in Ids /\ u.text \in Texts
          /\ u.base \in Nat
      BY <1>8, <1>28 DEF PutLocal, PutLocalLost, db, saved, TypeInv, DialogTyped, Thread
    <2>2. MaybeApplied(Upload(u.id, u.base, u.text))
      BY <1>28 DEF PutLocal, PutLocalLost, MaybeApplied
    <2>3. u'.text \in {u.text, Nothing} /\ u'.got \in {u.got, Nothing}
      BY <1>4, <1>8, <1>28 DEF PutLocal, PutLocalLost, Thread
    <2> QED BY <1>3, <1>5, <1>7, <1>14, <2>1, <2>2, <2>3
  <1>29. CASE SaveLocal \/ SaveRemote
    <2>1. UNCHANGED <<file, disk, copy, w, d>> /\ u' = Task
      BY <1>29 DEF SaveLocal, SaveRemote, Resolved, server
    <2>2. u.st \in Row
      BY <1>8 DEF Thread
    <2>3. row'.hash \in {row.hash, u.text, u.got}
      BY <1>8, <1>29, <2>2 DEF SaveLocal, SaveRemote, Resolved, Row
    <2> QED BY <1>3, <1>4, <1>5, <1>6, <1>7, <2>1, <2>3
  <1>30. CASE RenameCopy
    <2>1. UNCHANGED <<file, row, disk, w, d>> /\ u'.text = u.text /\ u'.got = u.got
      BY <1>8, <1>30 DEF RenameCopy, server, db, Thread
    <2>2. u.copy \in Copies
      BY <1>8 DEF Thread
    <2>3. \A c \in Copies : copy'[c] \in {Nothing, copy[c], copy[u.copy]}
      BY <1>8, <1>30 DEF RenameCopy
    <2>4. Copied1
      BY <1>3, <1>5, <2>2, <2>3 DEF Copied1
    <2> QED BY <1>5, <1>6, <2>1, <2>4
  <1>31. CASE WriteRemote
    <2>1. UNCHANGED <<file, row, copy, w, d>> /\ u'.text = u.text /\ u'.got = u.got /\ disk' = u.got
      BY <1>8, <1>31 DEF WriteRemote, Replace, server, db, Thread
    <2> QED BY <1>5, <1>6, <1>7, <2>1
  <1>32. ASSUME NEW e \in UserEdits, Save(e)
         PROVE  Files /\ MadeNext(disk') /\ MadeNext(row'.hash) /\ Copied1 /\ Threads
    <2>1. UNCHANGED <<file, row, copy, w, d, u>> /\ disk' = Text(disk) \cup {e} /\ e \in used'
      BY <1>32 DEF Save, server, tasks
    <2>2. MadeNext(disk')
      BY <1>5, <2>1 DEF MadeNext, Text
    <2> QED BY <1>5, <1>6, <1>7, <2>1, <2>2
  <1>33. CASE Delete \/ onFileOpened \/ setPaused \/ Start \/ onFsEvent \/ Scan
    <2>1. UNCHANGED <<file, copy, w, d, u>> /\ (UNCHANGED row \/ row' = EmptyRow)
          /\ disk' \in {disk, Nothing}
      BY <1>33 DEF Delete, onFileOpened, setPaused, Start, onFsEvent, Scan, server, db, saved, tasks
    <2> QED BY <1>3, <1>4, <1>5, <1>6, <1>7, <2>1
  <1>34. CASE Stop
    <2>1. UNCHANGED <<file, copy, row, disk>> /\ w' = Task /\ d' = Task /\ u' = Task
      BY <1>34 DEF Stop, db, saved
    <2> QED BY <1>3, <1>4, <1>5, <1>6, <1>7, <2>1
  <1>35. CASE Others
    <2>1. UNCHANGED <<copy, row, disk, w, d, u>>
      BY <1>35 DEF Others, RemoteDelete, RemoteEdit, RemoteWrite, db, saved, tasks
    <2>2. PICK i \in Ids : RemoteDelete(i) \/ \E e \in RemoteEdits : RemoteEdit(i, e)
      BY <1>35 DEF Others
    <2>3. PICK t \in MaybeText : MadeNext(t) /\ file' = [file EXCEPT ![i] = Append(@, t)]
      <3>1. CASE RemoteDelete(i)
        BY <1>3, <3>1 DEF RemoteDelete, RemoteWrite, MaybeText
      <3>2. ASSUME NEW e \in RemoteEdits, RemoteEdit(i, e)
            PROVE  \E t \in MaybeText : MadeNext(t) /\ file' = [file EXCEPT ![i] = Append(@, t)]
        <4> DEFINE t == {e} \cup IF file[i] = <<>> THEN {} ELSE Text(Current(i))
        <4>1. file' = [file EXCEPT ![i] = Append(@, t)] /\ e \in used'
          BY <3>2 DEF RemoteEdit, RemoteWrite
        <4>2. MadeNext(t)
          BY <1>10, <4>1 DEF MadeNext, Text
        <4>3. t \in MaybeText
          BY DEF MaybeText, Texts, Text, Edits
        <4> QED BY <4>1, <4>2, <4>3
      <3> QED BY <2>2, <3>1, <3>2
    <2>4. Files
      BY <1>1, <2>3, FilesMade DEF Files
    <2> QED BY <1>5, <1>7, <2>1, <2>4
  <1> QED BY <1>11, <1>12, <1>13, <1>15, <1>16, <1>17, <1>18, <1>19, <1>20, <1>21, <1>22, <1>23,
             <1>24, <1>25, <1>26, <1>27, <1>28, <1>29, <1>30, <1>31, <1>32, <1>33, <1>34, <1>35
             DEF Next, Worker, Downloader, Dialog, Faults, User

-----------------------------------------------------------------------------
(* The queue.                                                              *)

\* The queue without the operation at place p.
LEMMA WithoutPlace ==
    ASSUME NEW q \in Seq(PendingOp), NEW p \in DOMAIN q
    PROVE  /\ Len(Without(q, {p})) = Len(q) - 1 /\ Without(q, {p}) \in Seq(PendingOp)
           /\ \A i \in 1..(Len(q) - 1) :
                 Without(q, {p})[i] = IF i < p THEN q[i] ELSE q[i + 1]
  <1> DEFINE r == Without(q, {p})
  <1>1. (CHOOSE x \in {p} : TRUE) = p /\ {p} # {}
    OBVIOUS
  <1>2. r = [i \in 1..(Len(q) - 1) |-> IF i < p THEN q[i] ELSE q[i + 1]]
    BY <1>1 DEF Without
  <1>3. p \in 1..Len(q) /\ Len(q) \in Nat \ {0}
    OBVIOUS
  <1> HIDE DEF r
  <1>4. \A i \in 1..(Len(q) - 1) : r[i] \in PendingOp
    BY <1>2, <1>3
  <1>5. r \in [1..(Len(q) - 1) -> PendingOp]
    BY <1>2, <1>4
  <1>6. r \in Seq(PendingOp) /\ Len(r) = Len(q) - 1
    BY <1>3, <1>5
  <1> QED BY <1>2, <1>6 DEF r

\* What a queued operation, the last of ops', leaves and adds: others is the queue
\* without an operation of its kind.
LEMMA QueuedLast ==
    ASSUME QueueTyped, w.todo \in Seq(PendingOp), NEW kind \in {"upload", "delete"}, NEW now,
           enqueueOp(kind, now)
    PROVE  /\ ops' # <<>> /\ Len(ops') \in DOMAIN ops' /\ ops'[Len(ops')].kind = kind
           /\ ops'[Len(ops')].id \notin IdsOf(w.todo)
           /\ \A i \in DOMAIN ops' : i = Len(ops') \/ \E j \in DOMAIN ops : ops'[i] = ops[j]
           /\ \A j \in DOMAIN ops : ops[j].kind # kind => \E i \in DOMAIN ops' : ops'[i] = ops[j]
           /\ ops # <<>> /\ Head(ops).kind # kind => ops'[1] = ops[1]
  <1> DEFINE places == {i \in DOMAIN ops : ops[i].kind = kind}
  <1> DEFINE others == Without(ops, places)
  <1> DEFINE n == NewOpId(others)
  <1> DEFINE o == [id |-> n, kind |-> kind, retries |-> 0]
  <1>1. ops' = Append(others, o) /\ ops \in Seq(PendingOp) /\ DOMAIN ops = 1..Len(ops) /\ Len(ops) \in Nat
    BY DEF enqueueOp, QueueTyped
  <1>2. /\ others \in Seq(PendingOp)
        /\ \A i \in DOMAIN others : \E j \in DOMAIN ops : others[i] = ops[j]
        /\ \A j \in DOMAIN ops : ops[j].kind # kind => \E i \in DOMAIN others : others[i] = ops[j]
        /\ ops # <<>> /\ ops[1].kind # kind => 1 \in DOMAIN others /\ others[1] = ops[1]
    <2>1. CASE places = {}
      <3>1. others = ops
        BY <2>1 DEF Without
      <3> HIDE DEF others, places
      <3> QED BY <1>1, <3>1
    <2>2. CASE places # {}
      <3>1. PICK p \in DOMAIN ops : ops[p].kind = kind
        BY <2>2
      <3>2. places = {p}
        BY <3>1 DEF QueueTyped, Distinct
      <3>3. \A j \in DOMAIN ops : ops[j].kind # kind => j # p
        BY <3>1
      <3> HIDE DEF places
      <3>4. /\ Len(others) = Len(ops) - 1 /\ others \in Seq(PendingOp)
            /\ \A i \in 1..(Len(ops) - 1) : others[i] = IF i < p THEN ops[i] ELSE ops[i + 1]
        BY <1>1, <3>2, WithoutPlace
      <3> HIDE DEF others
      <3>5. DOMAIN others = 1..(Len(ops) - 1)
        BY <3>4
      <3>6. ASSUME NEW i \in DOMAIN others PROVE \E j \in DOMAIN ops : others[i] = ops[j]
        <4>1. i \in DOMAIN ops /\ i + 1 \in DOMAIN ops
          BY <1>1, <3>5
        <4>2. others[i] = IF i < p THEN ops[i] ELSE ops[i + 1]
          BY <3>4, <3>5
        <4> QED BY <4>1, <4>2
      <3>7. ASSUME NEW j \in DOMAIN ops, ops[j].kind # kind PROVE \E i \in DOMAIN others : others[i] = ops[j]
        <4>1. j < p \/ j > p
          BY <1>1, <3>3, <3>7
        <4>2. CASE j < p
          <5>1. j \in 1..(Len(ops) - 1) /\ others[j] = ops[j]
            BY <1>1, <3>4, <4>2
          <5> QED BY <3>5, <5>1
        <4>3. CASE j > p
          <5>1. j - 1 \in 1..(Len(ops) - 1) /\ others[j - 1] = ops[j]
            BY <1>1, <3>4, <4>3
          <5> QED BY <3>5, <5>1
        <4> QED BY <4>1, <4>2, <4>3
      <3>8. ops # <<>> /\ ops[1].kind # kind => 1 \in DOMAIN others /\ others[1] = ops[1]
        <4> SUFFICES ASSUME ops # <<>>, ops[1].kind # kind
                     PROVE  1 \in DOMAIN others /\ others[1] = ops[1]
          OBVIOUS
        <4>1. 1 \in DOMAIN ops /\ 1 < p
          BY <1>1, <3>3
        <4> QED BY <1>1, <3>4, <3>5, <4>1
      <3> QED BY <3>4, <3>6, <3>7, <3>8
    <2> QED BY <2>1, <2>2
  <1> HIDE DEF others
  <1>3. n \notin IdsOf(w.todo)
    <2> DEFINE S == IdsOf(others) \cup IdsOf(w.todo)
    <2>1. IsFiniteSet(S) /\ S \subseteq Nat
      BY <1>2, QueueIds, FS_Union
    <2>2. LeastNotIn(S) \notin S
      BY <2>1, LeastIsNew
    <2> QED BY <2>2 DEF NewOpId
  <1> HIDE DEF n
  <1>4. o.kind = kind /\ o.id = n
    OBVIOUS
  <1> HIDE DEF o
  <1>5. /\ Len(ops') = Len(others) + 1 /\ DOMAIN ops' = 1..(Len(others) + 1) /\ Len(others) \in Nat
        /\ DOMAIN others = 1..Len(others)
        /\ ops'[Len(others) + 1] = o /\ \A i \in DOMAIN others : ops'[i] = others[i]
    BY <1>1, <1>2
  <1>6. ops' # <<>> /\ Len(ops') \in DOMAIN ops' /\ ops'[Len(ops')] = o
    BY <1>5
  <1>7. \A i \in DOMAIN ops' : i = Len(ops') \/ i \in DOMAIN others
    BY <1>5
  <1>8. \A i \in DOMAIN others : i \in DOMAIN ops'
    BY <1>5
  <1>9. ops # <<>> => Head(ops) = ops[1]
    BY <1>1
  <1> QED BY <1>2, <1>3, <1>4, <1>5, <1>6, <1>7, <1>8, <1>9

\* What follows for the worker, and for the operations there were.
LEMMA Queues ==
    ASSUME TypeInv, WorkerQueue, UNCHANGED w, NEW kind \in {"upload", "delete"}, NEW now,
           enqueueOp(kind, now)
    PROVE  /\ ops' # <<>> /\ ops'[Len(ops')].kind = kind
           /\ Busy(w) => ops'[Len(ops')].id # Op.id
           /\ \A k : Has(k) => Has(k)'
           /\ WorkerQueue'
  <1>1. /\ QueueTyped /\ w.todo \in Seq(PendingOp) /\ (Busy(w) => w.todo # <<>>)
        /\ w \in Thread(WorkerPlaces)
    BY DEF TypeInv, WorkerTyped, Thread
  <1>2. /\ ops' # <<>> /\ Len(ops') \in DOMAIN ops' /\ ops'[Len(ops')].kind = kind
        /\ ops'[Len(ops')].id \notin IdsOf(w.todo)
        /\ \A i \in DOMAIN ops' : i = Len(ops') \/ \E j \in DOMAIN ops : ops'[i] = ops[j]
        /\ \A j \in DOMAIN ops : ops[j].kind # kind => \E i \in DOMAIN ops' : ops'[i] = ops[j]
        /\ ops # <<>> /\ Head(ops).kind # kind => ops'[1] = ops[1]
    BY <1>1, QueuedLast
  <1>3. w.todo # <<>> => 1 \in DOMAIN w.todo /\ w.todo[1] = Op
    BY <1>1 DEF Op
  <1>4. \A k : Has(k) => Has(k)'
    BY <1>2 DEF Has
  <1>5. Busy(w) => ops'[Len(ops')].id # Op.id
    BY <1>1, <1>2, <1>3 DEF IdsOf
  <1>6. ASSUME w.pc # "idle", NEW i \in DOMAIN w.todo, NEW j \in DOMAIN ops', w.todo[i].id = ops'[j].id
        PROVE  w.todo[i].kind = ops'[j].kind
    <2>1. j # Len(ops')
      BY <1>2, <1>6 DEF IdsOf
    <2> QED BY <1>2, <1>6, <2>1 DEF WorkerQueue
  <1>7. ASSUME Busy(w), Op.id \in IdsOf(ops') PROVE Head(ops').id = Op.id
    <2>1. PICK i \in DOMAIN ops' : ops'[i].id = Op.id
      BY <1>7 DEF IdsOf
    <2>2. i # Len(ops')
      BY <1>5, <1>7, <2>1
    <2>3. PICK j \in DOMAIN ops : ops'[i] = ops[j]
      BY <1>2, <2>2
    <2>4. Op.id \in IdsOf(ops) /\ ops # <<>> /\ ops[1] = Head(ops) /\ 1 \in DOMAIN ops
      BY <1>1, <2>1, <2>3 DEF IdsOf, QueueTyped
    <2>5. Head(ops).id = Op.id
      BY <1>7, <2>4 DEF WorkerQueue
    <2>6. ops'[i] = ops[1]
      BY <1>1, <2>1, <2>3, <2>4, <2>5 DEF QueueTyped, Distinct
    <2>7. QueueTyped'
      BY <1>1, Enqueued DEF TypeInv, DataTyped
    <2>8. ops'[i].kind # kind
      BY <1>2, <2>2, <2>7 DEF QueueTyped, Distinct
    <2>9. ops'[1] = ops[1] /\ Head(ops') = ops'[1]
      BY <1>2, <2>4, <2>6, <2>7, <2>8 DEF QueueTyped
    <2> QED BY <2>4, <2>5, <2>9
  <1>8. WorkerQueue'
    <2>1. UNCHANGED <<Op, Busy(w)>>
      BY DEF Op, Busy
    <2>2. w.pc # "idle" => \A i \in DOMAIN w.todo : Has(w.todo[i].kind)'
      BY <1>4 DEF WorkerQueue
    <2> QED BY <1>6, <1>7, <2>1, <2>2 DEF WorkerQueue, Distinct, Has
  <1> QED BY <1>2, <1>4, <1>5, <1>8

\* The queue has an operation of a kind, after a step.
HasNext(kind) == \E i \in DOMAIN ops' : ops'[i].kind = kind

\* The worker turns to the next operation: what it has read stays in order.
LEMMA NextTodo ==
    ASSUME TypeInv, WorkerQueue, Busy(w), OpDone
    PROVE  /\ w'.pc = "next" /\ ~Busy(w)' /\ w.todo # <<>> /\ w.todo[1] = Op /\ 1 \in DOMAIN w.todo
           /\ Distinct(w'.todo)
           /\ \A i \in DOMAIN w'.todo :
                 /\ i + 1 \in DOMAIN w.todo /\ w'.todo[i] = w.todo[i + 1]
                 /\ w.todo[i + 1].kind # Op.kind /\ w.todo[i + 1].id # Op.id
  <1>1. w.todo \in Seq(PendingOp) /\ w.todo # <<>> /\ w.pc # "idle"
    BY DEF TypeInv, WorkerTyped, Thread, Busy
  <1>2. w'.pc = "next" /\ w'.todo = Tail(w.todo)
    BY DEF OpDone, Task
  <1>3. /\ DOMAIN w.todo = 1..Len(w.todo) /\ Len(w.todo) \in Nat \ {0}
        /\ DOMAIN w'.todo = 1..(Len(w.todo) - 1)
        /\ \A i \in 1..(Len(w.todo) - 1) : w'.todo[i] = w.todo[i + 1]
        /\ w.todo[1] = Op
    BY <1>1, <1>2 DEF Op
  <1>4. Distinct(w.todo)
    BY <1>1 DEF WorkerQueue
  <1>5. ASSUME NEW i \in DOMAIN w'.todo
        PROVE  /\ i + 1 \in DOMAIN w.todo /\ w'.todo[i] = w.todo[i + 1]
               /\ w.todo[i + 1].kind # Op.kind /\ w.todo[i + 1].id # Op.id
    <2>1. i + 1 \in DOMAIN w.todo /\ w'.todo[i] = w.todo[i + 1] /\ i + 1 # 1 /\ 1 \in DOMAIN w.todo
      BY <1>3
    <2> QED BY <1>3, <1>4, <2>1 DEF Distinct
  <1>6. Distinct(w'.todo)
    <2> SUFFICES ASSUME NEW i \in DOMAIN w'.todo, NEW j \in DOMAIN w'.todo, i # j
                 PROVE  w'.todo[i].kind # w'.todo[j].kind /\ w'.todo[i].id # w'.todo[j].id
      BY DEF Distinct
    <2>1. i + 1 # j + 1
      BY <1>3
    <2> QED BY <1>4, <1>5, <2>1 DEF Distinct
  <1> QED BY <1>1, <1>2, <1>3, <1>5, <1>6 DEF Busy

\* The worker ends with its operation as it was.
LEMMA Ended ==
    ASSUME TypeInv, WorkerQueue, Busy(w), OpDone,
           DOMAIN ops' = DOMAIN ops,
           \A i \in DOMAIN ops : ops'[i].kind = ops[i].kind /\ ops'[i].id = ops[i].id
    PROVE  WorkerQueue' /\ \A k : Has(k) => Has(k)'
  <1>1. /\ w'.pc = "next" /\ ~Busy(w)' /\ Distinct(w'.todo)
        /\ \A i \in DOMAIN w'.todo : i + 1 \in DOMAIN w.todo /\ w'.todo[i] = w.todo[i + 1]
    BY NextTodo
  <1>2. \A k : Has(k) => Has(k)'
    BY DEF Has
  <1>3. w.pc # "idle"
    BY DEF Busy
  <1>4. \A i \in DOMAIN w'.todo : HasNext(w'.todo[i].kind)
    BY <1>1, <1>3 DEF WorkerQueue, Has, HasNext
  <1>5. \A i \in DOMAIN w'.todo, j \in DOMAIN ops' :
           w'.todo[i].id = ops'[j].id => w'.todo[i].kind = ops'[j].kind
    BY <1>1, <1>3 DEF WorkerQueue
  <1> QED BY <1>1, <1>2, <1>4, <1>5 DEF WorkerQueue, Has, HasNext, Distinct

\* The worker ends with its operation and takes it from the queue, where it is the first
\* or has been replaced.
LEMMA Finished ==
    ASSUME TypeInv, WorkerQueue, Busy(w), OpDone, removeOp
    PROVE  /\ WorkerQueue'
           /\ \A k : Has(k) /\ k # Op.kind => Has(k)'
           /\ ops' # <<>> => ops # <<>> /\ ops'[Len(ops')] = ops[Len(ops)]
           /\ ops # <<>> /\ ops[Len(ops)].id # Op.id => ops' # <<>>
  <1>1. /\ w'.pc = "next" /\ ~Busy(w)' /\ Distinct(w'.todo) /\ w.todo # <<>> /\ w.todo[1] = Op
        /\ 1 \in DOMAIN w.todo
        /\ \A i \in DOMAIN w'.todo : /\ i + 1 \in DOMAIN w.todo /\ w'.todo[i] = w.todo[i + 1]
                                     /\ w.todo[i + 1].kind # Op.kind /\ w.todo[i + 1].id # Op.id
    BY NextTodo
  <1>2. /\ ops \in Seq(PendingOp) /\ Distinct(ops) /\ w.pc # "idle"
        /\ DOMAIN ops = 1..Len(ops) /\ Len(ops) \in Nat
    BY DEF TypeInv, QueueTyped, Busy
  <1> DEFINE places == {i \in DOMAIN ops : ops[i].id = Op.id}
  <1>3. ops' = Without(ops, places)
    BY DEF removeOp, Op
  <1>4. CASE places = {}
    <2>1. ops' = ops
      BY <1>3, <1>4 DEF Without
    <2> HIDE DEF places
    <2>2. WorkerQueue' /\ \A k : Has(k) => Has(k)'
      BY <2>1, Ended
    <2> QED BY <2>1, <2>2
  <1>5. CASE places # {}
    <2>1. PICK p \in DOMAIN ops : ops[p].id = Op.id
      BY <1>5
    <2>2. Op.id \in IdsOf(ops) /\ ops # <<>> /\ Head(ops) = ops[1] /\ 1 \in DOMAIN ops
      BY <1>2, <2>1 DEF IdsOf
    <2>3. ops[1].id = Op.id
      BY <2>2 DEF WorkerQueue
    <2>4. places = {1}
      BY <1>2, <2>2, <2>3 DEF Distinct
    <2>5. ops[1].kind = Op.kind
      BY <1>1, <1>2, <2>2, <2>3 DEF WorkerQueue
    <2> HIDE DEF places
    <2>6. /\ Len(ops') = Len(ops) - 1 /\ ops' \in Seq(PendingOp) /\ Len(ops) \in Nat \ {0}
          /\ \A i \in 1..(Len(ops) - 1) : ops'[i] = ops[i + 1]
      <3>1. /\ Len(ops') = Len(ops) - 1 /\ ops' \in Seq(PendingOp)
            /\ \A i \in 1..(Len(ops) - 1) : ops'[i] = IF i < 1 THEN ops[i] ELSE ops[i + 1]
        BY <1>2, <1>3, <2>2, <2>4, WithoutPlace
      <3> QED BY <1>2, <2>2, <3>1
    <2>7. DOMAIN ops' = 1..(Len(ops) - 1)
      BY <2>6
    <2>8. \A i \in DOMAIN ops' : i + 1 \in DOMAIN ops /\ ops'[i] = ops[i + 1]
      BY <1>2, <2>6, <2>7
    <2>9. ASSUME NEW j \in DOMAIN ops, j # 1 PROVE \E i \in DOMAIN ops' : ops'[i] = ops[j]
      <3>1. j - 1 \in 1..(Len(ops) - 1) /\ (j - 1) + 1 = j
        BY <1>2, <2>9
      <3> QED BY <2>6, <2>7, <3>1
    <2>10. \A k : Has(k) /\ k # Op.kind => HasNext(k)
      BY <2>5, <2>9 DEF Has, HasNext
    <2>11. ops' # <<>> => ops'[Len(ops')] = ops[Len(ops)]
      <3>1. ops' # <<>> => Len(ops') \in 1..(Len(ops) - 1) /\ Len(ops') + 1 = Len(ops)
        BY <2>6
      <3> QED BY <2>6, <3>1
    <2>12. ops[Len(ops)].id # Op.id => ops' # <<>>
      <3>1. ops[Len(ops)].id # Op.id => Len(ops) # 1
        BY <2>3
      <3> QED BY <2>6, <3>1
    <2>13. \A i \in DOMAIN w'.todo : HasNext(w'.todo[i].kind)
      <3>1. \A i \in DOMAIN w.todo : Has(w.todo[i].kind)
        BY <1>2 DEF WorkerQueue
      <3> QED BY <1>1, <2>10, <3>1
    <2>14. \A i \in DOMAIN w'.todo, j \in DOMAIN ops' :
             w'.todo[i].id = ops'[j].id => w'.todo[i].kind = ops'[j].kind
      BY <1>1, <1>2, <2>8 DEF WorkerQueue
    <2>15. WorkerQueue'
      BY <1>1, <2>13, <2>14 DEF WorkerQueue, Has, HasNext, Distinct
    <2>16. \A k : Has(k) /\ k # Op.kind => Has(k)'
      BY <2>10 DEF Has, HasNext
    <2> QED BY <2>2, <2>11, <2>12, <2>15, <2>16
  <1> QED BY <1>4, <1>5

\* A failure that is counted leaves the operations and their order.
LEMMA Failed ==
    ASSUME TypeInv, WorkerQueue, Busy(w), opFailed, Quiet'
    PROVE  /\ WorkerQueue' /\ (\A k : Has(k) => Has(k)') /\ UNCHANGED mishaps
           /\ Len(ops') = Len(ops) /\ (ops # <<>> <=> ops' # <<>>)
           /\ ops # <<>> => ops'[Len(ops)].kind = ops[Len(ops)].kind
           /\ w'.pc = "next"
  <1>1. /\ OpDone /\ UNCHANGED mishaps
        /\ ops' = [i \in DOMAIN ops |-> IF ops[i].id = Head(w.todo).id
                     THEN [ops[i] EXCEPT !.retries = @ + 1] ELSE ops[i]]
    BY DEF opFailed, Quiet
  <1>2. ops \in Seq(PendingOp) /\ DOMAIN ops = 1..Len(ops) /\ Len(ops) \in Nat /\ QueueTyped'
    BY OpCounted DEF TypeInv, QueueTyped, DataTyped
  <1>3. \A i \in DOMAIN ops : ops'[i].id = ops[i].id /\ ops'[i].kind = ops[i].kind
    <2> SUFFICES ASSUME NEW i \in DOMAIN ops
                 PROVE  ops'[i].id = ops[i].id /\ ops'[i].kind = ops[i].kind
      OBVIOUS
    <2>1. ops[i] \in PendingOp
      BY <1>2
    <2> QED BY <1>1, <2>1 DEF PendingOp
  <1>4. DOMAIN ops' = DOMAIN ops
    BY <1>1
  <1>5. WorkerQueue' /\ \A k : Has(k) => Has(k)'
    BY <1>1, <1>3, <1>4, Ended
  <1>6. Len(ops') = Len(ops) /\ (ops # <<>> <=> ops' # <<>>)
    BY <1>2, <1>4 DEF QueueTyped
  <1>7. ops # <<>> => Len(ops) \in DOMAIN ops
    BY <1>2
  <1> QED BY <1>1, <1>3, <1>5, <1>6, <1>7, NextTodo

-----------------------------------------------------------------------------
(* The versions.                                                           *)

\* Heard and Newest after a step, of values from before it.
HeardNext(i, v) == v = Len(file'[i]) \/ i \in news'
NewestNext(i, v, t) == \A k \in (v + 1)..Len(file'[i]) : file'[i][k] # t

\* No version comes after the last one.
LEMMA LastIsNewest ==
    ASSUME file' \in [Ids -> Seq(MaybeText)], NEW i \in Ids, NEW v, v = Len(file'[i]), NEW t
    PROVE  HeardNext(i, v) /\ NewestNext(i, v, t)
  <1>1. v \in Nat
    OBVIOUS
  <1> QED BY <1>1 DEF HeardNext, NewestNext

\* A text stays the newest of its kind when another one is appended.
LEMMA NewestStays ==
    ASSUME file \in [Ids -> Seq(MaybeText)], NEW i \in Ids, NEW v \in Nat, NEW t, Newest(i, v, t),
           \/ UNCHANGED file
           \/ \E j \in Ids, x \in MaybeText :
                 (i = j => x # t) /\ file' = [file EXCEPT ![j] = Append(@, x)]
    PROVE  NewestNext(i, v, t)
  <1>1. CASE UNCHANGED file
    BY <1>1 DEF Newest, NewestNext
  <1>2. ASSUME NEW j \in Ids, NEW x \in MaybeText, i = j => x # t,
               file' = [file EXCEPT ![j] = Append(@, x)]
        PROVE  NewestNext(i, v, t)
    <2>1. /\ Grows /\ Len(file'[j]) = Len(file[j]) + 1 /\ file'[j][Len(file[j]) + 1] = x
          /\ \A k \in Ids \ {j} : file'[k] = file[k]
      BY <1>2, AppendGrows
    <2>2. CASE i # j
      BY <2>1, <2>2 DEF Newest, NewestNext
    <2>3. CASE i = j
      <3> SUFFICES ASSUME NEW k \in (v + 1)..Len(file'[i]) PROVE file'[i][k] # t
        BY DEF NewestNext
      <3>1. Len(file[i]) \in Nat
        OBVIOUS
      <3>2. CASE k = Len(file[i]) + 1
        BY <1>2, <2>1, <2>3, <3>2
      <3>3. CASE k # Len(file[i]) + 1
        <4>1. k \in (v + 1)..Len(file[i]) /\ k \in 1..Len(file[i])
          BY <2>1, <2>3, <3>1, <3>3
        <4>2. file'[i][k] = file[i][k]
          BY <2>1, <4>1 DEF Grows
        <4> QED BY <4>1, <4>2 DEF Newest
      <3> QED BY <3>2, <3>3
    <2> QED BY <2>2, <2>3
  <1> QED BY <1>1, <1>2

\* The row, untouched, stays what it is while versions are added.
LEMMA ShapeStays ==
    ASSUME TypeInv, Grows, RowShape, UNCHANGED <<row, shadow>>
    PROVE  RowShape' /\ RowText' = RowText
  <1>1. CASE row.id = NoId
    BY <1>1 DEF RowShape, RowText
  <1>2. CASE row.id # NoId
    <2>1. row.id \in Ids /\ row.version \in 1..Len(file[row.id])
      BY <1>2 DEF RowShape, TypeInv, DataTyped, Row
    <2>2. Len(file[row.id]) \in Nat /\ Len(file'[row.id]) \in Nat
      BY <2>1 DEF TypeInv, StoreTyped, Grows
    <2>3. row.version \in 1..Len(file'[row.id]) /\ file'[row.id][row.version] = file[row.id][row.version]
      BY <2>1, <2>2 DEF Grows
    <2> QED BY <1>2, <2>3 DEF RowShape, RowText
  <1> QED BY <1>1, <1>2

-----------------------------------------------------------------------------
(* The steps.                                                              *)

\* Nothing is quiet but what has always been.
LEMMA QuietBefore ==
    ASSUME [Next]_vars, Quiet'
    PROVE  Quiet /\ Calm'
  BY MishapsStay DEF Quiet, Calm, Apart

\* Steps of the user, the watcher, the scanner and the modes, which leave the server, the
\* row and the threads: a change of the file is queued or told of.
LEMMA FrameRests ==
    ASSUME TypeInv, Rests, UNCHANGED <<file, news, row, shadow, conflicts, w, d, u>>,
           WorkerQueue', LastFits', \A k : Has(k) => Has(k)',
           Queued => Queued', Busy(w) /\ Retold => Retold',
           \/ UNCHANGED disk
           \/ Queued' /\ (Busy(w) => Retold') /\ (row.id # NoId => disk' # row.hash)
    PROVE  Rests'
  <1>1. UNCHANGED <<RowText, Clear, Busy(d), Busy(w)>> /\ RowShape'
    BY DEF RowText, Clear, Busy, Rests, RowShape
  <1>2. row.id # NoId /\ disk # row.hash => disk' # row.hash
    OBVIOUS
  <1>3. Told'
    BY <1>1 DEF Rests, Told
  <1>4. RowNew'
    BY <1>1, <1>2 DEF Rests, RowNew, Newest, Clear
  <1>5. Has("delete") => Has("delete")'
    OBVIOUS
  <1>6. Has("upload") => Has("upload")'
    OBVIOUS
  <1>7. Awaited'
    BY <1>1, <1>2, <1>5, <1>6 DEF Rests, Awaited, Clear
  <1>8. WorkerTold'
    <2>1. w.pc \in {"row", "send", "save", "put", "saveMerged"} => Busy(w)
      BY DEF Busy
    <2> QED BY <2>1 DEF Rests, WorkerTold, Heard, Newest
  <1>9. WorkerNew'
    BY <1>1, <1>2, <1>5 DEF Rests, WorkerNew, Heard, Clear
  <1>10. DownloadRest'
    BY <1>1, <1>2 DEF Rests, DownloadRest, Heard, Newest, Same, Clear
  <1>11. DialogRest'
    BY DEF Rests, DialogRest, Heard, Newest, Same
  <1> QED BY <1>1, <1>3, <1>4, <1>7, <1>8, <1>9, <1>10, <1>11 DEF Rests

\* Every step of the user, the watcher and the scanner but those on the row and the threads.
LEMMA UserRests ==
    ASSUME TypeInv, Rests, MadeInv,
           \/ UNCHANGED vars \/ (\E e \in UserEdits : Save(e)) \/ Delete \/ setPaused \/ Start
           \/ onFsEvent \/ Scan \/ PollFails \/ (Poll /\ UNCHANGED <<news, d, mishaps>>)
    PROVE  Rests'
  <1>1. UNCHANGED <<file, news, row, shadow, conflicts, w, d, u>>
    BY DEF vars, Save, Delete, setPaused, Start, onFsEvent, Scan, PollFails, Poll, server, db, saved, tasks
  <1>2. /\ WorkerQueue /\ LastFits /\ events \in Seq({"modified", "deleted"})
        /\ row.id # NoId => row.hash \in Texts
    BY DEF Rests, RowShape, TypeInv, DataTyped
  <1>3. ASSUME UNCHANGED ops
        PROVE  WorkerQueue' /\ \A k : Has(k) => Has(k)'
    BY <1>1, <1>2, <1>3 DEF WorkerQueue, Has, Op, Busy, Distinct, IdsOf
  <1>4. CASE UNCHANGED <<ops, disk, events, mishaps>>
    <2>1. LastFits' /\ (Queued => Queued') /\ (Retold => Retold')
      BY <1>1, <1>2, <1>4 DEF LastFits, Queued, Retold, Signalled, Op
    <2> QED BY <1>1, <1>3, <1>4, <2>1, FrameRests
  <1>5. ASSUME NEW e, events' = Noticed(e) PROVE events' # <<>>
    BY <1>2, <1>5 DEF Noticed
  <1>6. CASE \E e \in UserEdits : Save(e)
    <2>1. PICK e \in UserEdits : Save(e)
      BY <1>6
    <2>2. row.id # NoId => disk' # row.hash
      <3>1. e \notin used /\ e \in disk'
        BY <2>1 DEF Save
      <3>2. row.id # NoId => row.hash \subseteq used
        BY <1>2, TextIsNotNothing DEF MadeInv, Made
      <3> QED BY <3>1, <3>2
    <2>3. Signalled'
      BY <1>5, <2>1 DEF Save, Signalled
    <2>4. WorkerQueue' /\ \A k : Has(k) => Has(k)'
      <3>1. CASE UNCHANGED ops
        BY <1>3, <3>1
      <3>2. CASE enqueueOp("upload", disk')
        BY <1>1, <1>2, <3>2, Queues
      <3> QED BY <2>1, <3>1, <3>2 DEF Save
    <2>5. LastFits' /\ Queued' /\ Retold'
      BY <2>3 DEF LastFits, Queued, Retold
    <2> QED BY <1>1, <2>2, <2>4, <2>5, FrameRests
  <1>7. CASE Delete
    <2>1. UNCHANGED ops /\ disk' = Nothing
      BY <1>7 DEF Delete, db
    <2>2. row.id # NoId => disk' # row.hash
      BY <1>2, <2>1, TextIsNotNothing
    <2>3. Signalled'
      BY <1>5, <1>7 DEF Delete, Signalled
    <2>4. LastFits' /\ Queued' /\ Retold'
      BY <2>3 DEF LastFits, Queued, Retold
    <2> QED BY <1>1, <1>3, <2>1, <2>2, <2>4, FrameRests
  <1>8. ASSUME NEW kind \in {"upload", "delete"}, enqueueOp(kind, disk), UNCHANGED disk
        PROVE  Rests'
    <2>1. /\ ops' # <<>> /\ ops'[Len(ops')].kind = kind
          /\ Busy(w) => ops'[Len(ops')].id # Op.id
          /\ \A k : Has(k) => Has(k)'
          /\ WorkerQueue'
      BY <1>1, <1>2, <1>8, Queues
    <2>2. LastFits'
      <3>1. CASE (kind = "delete") = (disk = Nothing)
        BY <1>8, <2>1, <3>1 DEF LastFits
      <3>2. CASE (kind = "delete") # (disk = Nothing)
        BY <1>8, <3>2 DEF LastFits, Signalled, enqueueOp
      <3> QED BY <3>1, <3>2
    <2>3. Queued' /\ (Busy(w) => Retold')
      BY <1>1, <2>1 DEF Queued, Retold, Op
    <2> QED BY <1>1, <1>8, <2>1, <2>2, <2>3, FrameRests
  <1>9. CASE onFsEvent \/ Scan
    <2>1. UNCHANGED disk
      BY <1>9 DEF onFsEvent, Scan, saved
    <2>2. CASE onFsEvent /\ paused
      <3>1. UNCHANGED ops /\ Signalled'
        BY <2>2 DEF onFsEvent, Signalled
      <3>2. LastFits' /\ Queued' /\ Retold'
        BY <3>1 DEF LastFits, Queued, Retold
      <3> QED BY <1>1, <1>3, <2>1, <3>1, <3>2, FrameRests
    <2>3. CASE ~(onFsEvent /\ paused)
      <3>1. enqueueOp("upload", disk) \/ enqueueOp("delete", disk)
        BY <1>9, <2>3 DEF onFsEvent, Scan
      <3> QED BY <1>8, <2>1, <3>1
    <2> QED BY <2>2, <2>3
  <1>10. CASE UNCHANGED vars \/ setPaused \/ Start \/ PollFails \/ (Poll /\ UNCHANGED <<news, d, mishaps>>)
    <2>1. UNCHANGED <<ops, disk, events, mishaps>>
      BY <1>10 DEF vars, setPaused, Start, PollFails, Poll, db, saved
    <2> QED BY <1>4, <2>1
  <1> QED BY <1>6, <1>7, <1>9, <1>10

\* onFileOpened makes a row without a file id, a stop puts back what is being downloaded.
LEMMA ModesRest ==
    ASSUME TypeInv, Holds, Rests, onFileOpened \/ Stop
    PROVE  Rests'
  <1>1. CASE onFileOpened
    <2>1. /\ UNCHANGED <<file, news, shadow, ops, conflicts, disk, events, w, d, u, mishaps>>
          /\ row = NoRow /\ row' = EmptyRow
      BY <1>1 DEF onFileOpened, server, saved, tasks
    <2>2. /\ row.id = NoId /\ row'.id = NoId /\ row.version = row'.version /\ row'.hash = Nothing
          /\ NoRow # EmptyRow
      BY <2>1 DEF NoRow, EmptyRow
    <2>3. ~Clear /\ ~Clear' /\ RowText = Nothing /\ RowText' = Nothing /\ RowShape'
      BY <2>2 DEF Clear, RowText, RowShape
    <2>4. UNCHANGED <<Signalled, Queued, Op, Busy(w), Retold>>
      BY <2>1 DEF Signalled, Queued, Retold, Op, Busy
    <2>5. Told' /\ LastFits' /\ RowNew' /\ Awaited' /\ WorkerNew'
      BY <2>1, <2>3, <2>4 DEF Rests, Told, LastFits, RowNew, Awaited, WorkerNew
    <2>6. WorkerQueue'
      BY <2>1, <2>4 DEF Rests, WorkerQueue, Has
    <2>7. WorkerTold'
      BY <2>1, <2>2, <2>4 DEF Rests, WorkerTold, Heard, Newest
    <2>8. DownloadRest'
      BY <2>1, <2>2, <2>3, <2>4 DEF Rests, DownloadRest, Heard, Newest, Same
    <2>9. DialogRest'
      BY <2>1, <2>2, <2>4 DEF Rests, DialogRest, Heard, Newest, Same
    <2> QED BY <2>3, <2>5, <2>6, <2>7, <2>8, <2>9 DEF Rests
  <1>2. CASE Stop
    <2>1. /\ UNCHANGED <<file, row, shadow, ops, conflicts, disk>>
          /\ w'.pc = "idle" /\ d'.pc = "idle" /\ u'.pc = "idle"
          /\ news \subseteq news' /\ (d.pc # "idle" => d.id \in news')
      BY <1>2 DEF Stop, Task, db, saved
    <2>2. /\ Signalled' = Signalled /\ Queued' = Queued
          /\ RowText' = RowText /\ Clear' = Clear /\ RowShape' /\ (\A k : Has(k)' = Has(k))
      <3>1. Signalled' <=> Signalled
        BY <1>2 DEF Stop, Signalled
      <3> QED BY <2>1, <3>1 DEF Signalled, Queued, RowText, Clear, Rests, RowShape, Has
    <2>3. WorkerQueue' /\ WorkerTold' /\ WorkerNew' /\ DownloadRest' /\ DialogRest' /\ ~Busy(w)'
      BY <2>1 DEF WorkerQueue, WorkerTold, WorkerNew, DownloadRest, DialogRest, Busy
    <2>4. Told' /\ LastFits' /\ RowNew'
      BY <2>1, <2>2 DEF Rests, Told, LastFits, RowNew, Newest
    <2>5. Awaited'
      <3>1. Busy(d) /\ row.id # NoId => row.id \in news'
        <4>1. Busy(d) => d.pc # "idle" /\ d.id \in Ids
          BY DEF Busy, TypeInv, DownloadTyped, IsVersion
        <4>2. Busy(d) /\ row.id # NoId => row.id = d.id
          BY <4>1, KnownTyped DEF Holds, OneId, Known
        <4> QED BY <2>1, <4>1, <4>2
      <3>2. Clear => row.id # NoId
        BY DEF Clear
      <3> QED BY <2>1, <2>2, <3>1, <3>2 DEF Rests, Awaited
    <2> QED BY <2>2, <2>3, <2>4, <2>5 DEF Rests
  <1> QED BY <1>1, <1>2

\* Another device writes: the change feed has it, and it is none of the texts here.
LEMMA OthersRest ==
    ASSUME TypeInv, Grows, Holds, Rests, MadeInv, Quiet', Others
    PROVE  Rests'
  <1>1. PICK i \in Ids : RemoteDelete(i) \/ \E e \in RemoteEdits : RemoteEdit(i, e)
    BY DEF Others
  <1>2. PICK x \in MaybeText : /\ RemoteWrite(i, x)
                               /\ \A t \in Texts : Made(t) => t # x
    <2>1. CASE RemoteDelete(i)
      <3>1. \A t \in Texts : t # Nothing
        BY TextIsNotNothing
      <3> QED BY <2>1, <3>1 DEF RemoteDelete, MaybeText
    <2>2. ASSUME NEW e \in RemoteEdits, RemoteEdit(i, e)
          PROVE  \E x \in MaybeText : RemoteWrite(i, x) /\ \A t \in Texts : Made(t) => t # x
      <3> DEFINE x == {e} \cup IF file[i] = <<>> THEN {} ELSE Text(Current(i))
      <3>1. RemoteWrite(i, x) /\ e \notin used
        BY <2>2 DEF RemoteEdit
      <3>2. x \in MaybeText /\ e \in x
        BY DEF MaybeText, Texts, Text, Edits
      <3> HIDE DEF x
      <3>3. \A t \in Texts : Made(t) => e \notin t
        BY <3>1, TextIsNotNothing DEF Made
      <3> QED BY <3>1, <3>2, <3>3
    <2> QED BY <1>1, <2>1, <2>2
  <1>3. /\ UNCHANGED <<row, ops, conflicts, disk, shadow, events, w, d, u>>
        /\ file' = [file EXCEPT ![i] = Append(@, x)] /\ news' = news \cup {i}
        /\ mishaps' = mishaps \cup Twin(i)
    BY <1>2 DEF RemoteWrite, db, saved, tasks
  <1>4. Twin(i) = {} /\ UNCHANGED mishaps
    BY <1>3, MishapNames DEF Quiet
  <1>5. \A j \in Ids \ {i} : ~Live(j) /\ j \notin Known
    BY <1>4 DEF Twin
  <1>6. /\ row.id # NoId => row.id = i
        /\ d.pc # "idle" => d.id = i
        /\ u.pc # "idle" => u.id = i
        /\ w.pc \in {"save", "saveMerged"} => w.id = i
    <2>1. row.id \in Known /\ d.id \in Known /\ u.id \in Known
      BY DEF Known
    <2>2. row.id # NoId => row.id = i
      BY <1>5, <2>1, KnownTyped
    <2>3. (d.pc # "idle" => d.id \in Ids) /\ (u.pc # "idle" => u.id \in Ids)
      BY DEF TypeInv, DownloadTyped, DialogTyped, IsVersion
    <2>4. w.pc = "save" => w.id \in Ids /\ (Live(w.id) \/ w.id \in Known)
      BY DEF Holds, WorkerHolds, IsVersion
    <2>5. w.pc = "saveMerged" => w.id \in Ids /\ w.id = row.id
      BY DEF Holds, WorkerHolds, TypeInv, WorkerTyped
    <2> QED BY <1>5, <2>1, <2>2, <2>3, <2>4, <2>5
  <1>7. ASSUME NEW v \in Nat, NEW t \in Texts, Made(t), Newest(i, v, t) PROVE NewestNext(i, v, t)
    BY <1>2, <1>3, <1>7, NewestStays DEF TypeInv, StoreTyped
  <1>8. \A v : HeardNext(i, v)
    BY <1>3 DEF HeardNext
  <1>9. RowShape' /\ RowText' = RowText /\ Clear' = Clear
    BY <1>3, ShapeStays DEF Rests, Clear
  <1>10. UNCHANGED <<Signalled, Queued, Op, Busy(w), Busy(d), Retold>> /\ (\A k : Has(k)' = Has(k))
    BY <1>3, <1>4 DEF Signalled, Queued, Retold, Op, Busy, Has
  <1>11. LastFits' /\ Told' /\ WorkerQueue'
    BY <1>3, <1>9, <1>10 DEF Rests, LastFits, Told, WorkerQueue, Has
  <1>12. w \in Thread(WorkerPlaces) /\ d \in Thread(DownloadPlaces) /\ u \in Thread(DialogPlaces) /\ row \in Row
    BY DEF TypeInv, WorkerTyped, DownloadTyped, DialogTyped, DataTyped
  <1>13. row.version \in Nat /\ w.ver \in Nat /\ d.ver \in Nat /\ u.ver \in Nat
    BY <1>12 DEF Thread, Row
  <1>14. Clear => row.id = i /\ row.hash \in Texts
    BY <1>6 DEF Clear, Rests, RowShape
  <1>15. RowNew'
    <2>1. Clear => NewestNext(row.id, row.version, row.hash)
      BY <1>7, <1>13, <1>14 DEF Rests, RowNew, MadeInv
    <2> QED BY <1>3, <1>9, <2>1 DEF RowNew, Newest, NewestNext, Rests
  <1>16. Awaited'
    BY <1>3, <1>9, <1>14 DEF Awaited
  <1>17. WorkerTold'
    <2>1. w.pc = "save" => HeardNext(w.id, w.ver) /\ NewestNext(w.id, w.ver, w.text)
      <3>1. w.pc = "save" => w.text \in Texts
        BY DEF TypeInv, WorkerTyped
      <3> QED BY <1>6, <1>7, <1>8, <1>13, <3>1 DEF Rests, WorkerTold, MadeInv
    <2>2. w.pc = "saveMerged" => HeardNext(w.id, w.ver) /\ NewestNext(w.id, w.ver, w.got)
      <3>1. w.pc = "saveMerged" => w.got \in Texts
        BY DEF TypeInv, WorkerTyped
      <3> QED BY <1>6, <1>7, <1>8, <1>13, <3>1 DEF Rests, WorkerTold, MadeInv
    <2> QED BY <1>3, <1>10, <2>1, <2>2 DEF Rests, WorkerTold, Heard, HeardNext, Newest, NewestNext
  <1>18. WorkerNew'
    <2>1. Clear => HeardNext(row.id, row.version)
      BY <1>8, <1>14
    <2>2. Clear => row.version # Len(file'[row.id])
      <3>1. Len(file'[i]) = Len(file[i]) + 1 /\ Len(file[i]) \in Nat
        BY <1>3, AppendGrows DEF TypeInv, StoreTyped
      <3>2. Clear => row.version \in 1..Len(file[i])
        BY <1>14 DEF Rests, RowShape, Clear
      <3> QED BY <1>14, <3>1, <3>2
    <2> QED BY <1>3, <1>9, <1>10, <2>1, <2>2 DEF Rests, WorkerNew, Heard, HeardNext
  <1>19. DownloadRest'
    <2>1. d.pc # "idle" => HeardNext(d.id, d.ver) /\ (d.got # Nothing => NewestNext(d.id, d.ver, d.got))
      <3>1. d.pc # "idle" /\ d.got # Nothing => d.got \in Texts
        BY <1>12 DEF Thread, MaybeText
      <3> QED BY <1>6, <1>7, <1>8, <1>13, <3>1 DEF Rests, DownloadRest, MadeInv
    <2> QED BY <1>3, <1>9, <1>10, <2>1 DEF Rests, DownloadRest, Heard, HeardNext, Newest, NewestNext, Same
  <1>20. DialogRest'
    <2>1. u.pc = "save" => HeardNext(u.id, u.ver) /\ NewestNext(u.id, u.ver, u.text)
      <3>1. u.pc = "save" => u.text \in Texts
        BY DEF TypeInv, DialogTyped
      <3> QED BY <1>6, <1>7, <1>8, <1>13, <3>1 DEF Rests, DialogRest, MadeInv
    <2>2. u.pc \in {"rename", "write", "saveRemote"} => HeardNext(u.id, u.ver) /\ NewestNext(u.id, u.ver, u.got)
      <3>1. u.pc \in {"rename", "write", "saveRemote"} => u.got \in Texts
        BY DEF TypeInv, DialogTyped
      <3> QED BY <1>6, <1>7, <1>8, <1>13, <3>1 DEF Rests, DialogRest, MadeInv
    <2> QED BY <1>3, <1>10, <2>1, <2>2 DEF Rests, DialogRest, Heard, HeardNext, Newest, NewestNext, Same
  <1> QED BY <1>9, <1>11, <1>15, <1>16, <1>17, <1>18, <1>19, <1>20 DEF Rests

\* A download begins where no other thread works, with the newest version.
LEMMA PollRests ==
    ASSUME TypeInv, Grows, Rests, Quiet', Poll \/ (\E i \in Ids : onWsEvent(i)),
           ~UNCHANGED <<news, d, mishaps>>
    PROVE  Rests'
  <1>1. UNCHANGED <<file, row, ops, conflicts, disk, shadow, events, w, u>>
    BY DEF Poll, onWsEvent, server, db, saved
  <1>2. PICK i \in news : /\ d' = [Task EXCEPT !.pc = "row", !.id = i, !.got = Current(i),
                                               !.ver = Len(file[i])]
                          /\ mishaps' = mishaps \cup Overlap({w, u})
    BY DEF Poll, onWsEvent
  <1>3. i \in Ids /\ d'.pc = "row" /\ d'.id = i /\ d'.ver = Len(file'[i]) /\ Busy(d)'
    BY <1>1, <1>2 DEF Task, Busy, TypeInv, StoreTyped
  <1>4. UNCHANGED mishaps /\ ~Busy(w) /\ ~Busy(u)
    BY <1>2, MishapNames DEF Quiet, Overlap
  <1>5. ~Busy(w)' /\ u'.pc = "idle"
    BY <1>1, <1>4 DEF Busy, TypeInv, DialogTyped, Thread, DialogPlaces
  <1>6. RowShape' /\ RowText' = RowText /\ Clear' = Clear
    BY <1>1, ShapeStays DEF Rests, Clear
  <1>7. LastFits' /\ Told' /\ WorkerQueue' /\ RowNew'
    BY <1>1, <1>4, <1>6 DEF Rests, LastFits, Told, WorkerQueue, RowNew, Newest, Signalled, Queued, Has, Busy,
                            Op, Distinct, IdsOf
  <1>8. Awaited'
    BY <1>3 DEF Awaited
  <1>9. DownloadRest'
    <2>1. HeardNext(d'.id, d'.ver) /\ NewestNext(d'.id, d'.ver, d'.got)
      BY <1>3, LastIsNewest DEF Grows
    <2> QED BY <1>3, <2>1 DEF DownloadRest, Heard, HeardNext, Newest, NewestNext
  <1> QED BY <1>5, <1>6, <1>7, <1>8, <1>9 DEF Rests, WorkerTold, WorkerNew, DialogRest, Busy

\* Replace tells the watcher of any change it makes.
LEMMA ReplaceSignals ==
    ASSUME TypeInv, NEW t, Replace(t), UNCHANGED mishaps
    PROVE  disk' = t /\ (Signalled' \/ (UNCHANGED <<disk, events>> /\ t = Nothing))
  <1>1. events \in Seq({"modified", "deleted"})
    BY DEF TypeInv, DataTyped
  <1>2. \A e : Noticed(e) # <<>>
    BY <1>1 DEF Noticed
  <1> QED BY <1>2 DEF Replace, Signalled

\* A download: the row it leaves is that of the newest version the device has heard of, and
\* the file is that version, or a change of it is told of.
LEMMA DownloadRests ==
    ASSUME TypeInv, Grows, Holds, Rests, Quiet', Downloader
    PROVE  Rests'
  <1>1. UNCHANGED <<file, news, ops, w, u, mishaps>> /\ d.pc # "idle" /\ Busy(d)
    BY DEF Downloader, CheckRow, CompareDisk, ApplyFile, ApplyRow, server, db, Busy
  <1>2. ~Busy(w) /\ ~Busy(u) /\ u.pc = "idle"
    BY <1>1 DEF Holds, OneBusy, Busy, TypeInv, DialogTyped, Thread, DialogPlaces
  <1>3. WorkerTold' /\ WorkerNew' /\ DialogRest' /\ WorkerQueue'
    <2>1. ~Busy(w)' /\ u'.pc = "idle"
      BY <1>1, <1>2 DEF Busy
    <2>2. WorkerQueue'
      BY <1>1, <1>2 DEF Rests, WorkerQueue, Has, Busy, Distinct
    <2> QED BY <2>1, <2>2 DEF WorkerTold, WorkerNew, DialogRest, Busy
  <1>4. /\ d \in Thread(DownloadPlaces) /\ d.id \in Ids /\ d.ver \in 1..Len(file[d.id])
        /\ file[d.id][d.ver] = d.got /\ d.got \in MaybeText /\ Len(file[d.id]) \in Nat /\ d.ver \in Nat
        /\ row \in Row /\ row.version \in Nat /\ d.st \in Row
    BY <1>1 DEF TypeInv, DownloadTyped, IsVersion, Thread, DataTyped, Row, StoreTyped
  <1>5. row.id # NoId => row.id = d.id
    BY <1>1, <1>4, KnownTyped DEF Holds, OneId, Known
  <1>6. Heard(d.id, d.ver) /\ (d.got # Nothing => Newest(d.id, d.ver, d.got))
    BY <1>1 DEF Rests, DownloadRest
  <1>7. HeardNext(d.id, d.ver) /\ (d.got # Nothing => NewestNext(d.id, d.ver, d.got))
    BY <1>1, <1>6 DEF Heard, HeardNext, Newest, NewestNext
  <1>8. Task.pc = "idle"
    BY DEF Task
  <1>9. CASE CheckRow
    <2>1. UNCHANGED <<row, conflicts, disk, shadow, events>>
      BY <1>9 DEF CheckRow, db, saved
    <2>2. RowShape' /\ RowText' = RowText /\ Clear' = Clear
      BY <2>1, ShapeStays DEF Rests, Clear
    <2>3. LastFits' /\ Told' /\ RowNew'
      BY <1>1, <2>1, <2>2 DEF Rests, LastFits, Told, RowNew, Newest, Signalled, Queued
    <2>4. CASE d' = Task /\ row # NoRow /\ row.version >= d.ver
      <3>1. DownloadRest'
        BY <1>8, <2>4 DEF DownloadRest
      <3>2. Clear /\ row.version # Len(file[row.id]) => row.id \in news
        <4> SUFFICES ASSUME Clear, row.version # Len(file[row.id]), d.ver = Len(file[d.id]) PROVE FALSE
          BY <1>5, <1>6 DEF Clear, Heard
        <4>1. row.id = d.id /\ row.version <= Len(file[d.id])
          BY <1>4, <1>5 DEF Clear, Rests, RowShape
        <4> QED BY <1>4, <2>4, <4>1
      <3>3. Awaited'
        BY <1>1, <2>1, <2>2, <3>2 DEF Awaited
      <3> QED BY <1>3, <2>2, <2>3, <3>1, <3>3 DEF Rests
    <2>5. CASE ~(row # NoRow /\ row.version >= d.ver)
      <3>1. /\ d'.pc \in {"write", "compare"} /\ d'.st = row /\ d'.id = d.id /\ d'.ver = d.ver
            /\ d'.got = d.got /\ Busy(d)'
        BY <1>4, <1>9, <2>5 DEF CheckRow, Thread, Busy
      <3>2. row.id # NoId => row.version < d.ver
        BY <1>4, <2>5, EmptyRows
      <3>3. DownloadRest'
        BY <1>7, <2>1, <3>1, <3>2
           DEF DownloadRest, Heard, HeardNext, Newest, NewestNext, Same
      <3>4. Awaited'
        BY <3>1 DEF Awaited
      <3> QED BY <1>3, <2>2, <2>3, <3>3, <3>4 DEF Rests
    <2> QED BY <1>9, <2>4, <2>5 DEF CheckRow
  <1>10. CASE CompareDisk
    <2>1. UNCHANGED <<row, disk, shadow, events>>
      BY <1>10 DEF CompareDisk
    <2>2. RowShape' /\ RowText' = RowText
      BY <2>1, ShapeStays DEF Rests
    <2>3. LastFits'
      BY <1>1, <2>1 DEF Rests, LastFits, Signalled
    <2>4. CASE d' = Task /\ addConflict(d.id, d.ver, "unsaved")
      <3>1. conflicts' # {}
        BY <2>4 DEF addConflict
      <3>2. ~Clear' /\ Told' /\ RowNew' /\ Awaited' /\ DownloadRest'
        BY <1>8, <2>4, <3>1 DEF Clear, Told, RowNew, Awaited, DownloadRest
      <3> QED BY <1>3, <2>2, <2>3, <3>2 DEF Rests
    <2>5. CASE d' = [d EXCEPT !.pc = "write"] /\ UNCHANGED conflicts
      <3>1. /\ d'.pc = "write" /\ d'.st = d.st /\ d'.id = d.id /\ d'.ver = d.ver /\ d'.got = d.got
            /\ Busy(d)'
        BY <1>4, <2>5 DEF Thread, Busy
      <3>2. Clear' = Clear
        BY <2>1, <2>5 DEF Clear
      <3>3. Told' /\ RowNew' /\ Awaited'
        BY <1>1, <2>1, <2>2, <2>5, <3>1, <3>2 DEF Rests, Told, RowNew, Newest, Signalled, Queued, Awaited
      <3>4. DownloadRest'
        <4>1. Same(d.st) /\ (row.id # NoId => row.version < d.ver)
          BY <1>10 DEF CompareDisk, Rests, DownloadRest
        <4> QED BY <1>7, <2>1, <3>1, <4>1
                DEF DownloadRest, Heard, HeardNext, Newest, NewestNext, Same
      <3> QED BY <1>3, <2>2, <2>3, <3>3, <3>4 DEF Rests
    <2> QED BY <1>10, <2>4, <2>5 DEF CompareDisk
  <1>11. CASE ApplyFile
    <2>1. UNCHANGED <<row, conflicts, shadow>> /\ Replace(d.got) /\ d' = [d EXCEPT !.pc = "save"]
      BY <1>11 DEF ApplyFile, db
    <2>2. /\ d'.pc = "save" /\ d'.st = d.st /\ d'.id = d.id /\ d'.ver = d.ver /\ d'.got = d.got
          /\ Busy(d)'
      BY <1>4, <2>1 DEF Thread, Busy
    <2>3. disk' = d.got /\ (Signalled' \/ UNCHANGED <<disk, events>>)
      BY <1>1, <2>1, ReplaceSignals
    <2>4. RowShape' /\ RowText' = RowText /\ Clear' = Clear
      BY <2>1, ShapeStays DEF Rests, Clear
    <2>5. LastFits' /\ Told' /\ Awaited'
      <3>1. CASE Signalled'
        BY <2>2, <3>1 DEF LastFits, Told, Awaited, Queued
      <3>2. CASE UNCHANGED <<disk, events>>
        BY <1>1, <2>1, <2>2, <2>4, <3>2 DEF Rests, LastFits, Told, Awaited, Queued, Signalled
      <3> QED BY <2>3, <3>1, <3>2
    <2>6. Same(d.st) /\ (row.id # NoId => row.version < d.ver)
      BY <1>11 DEF ApplyFile, Rests, DownloadRest
    <2>7. Clear => d.got # row.hash
      <3>1. Clear => /\ row.id = d.id /\ row.version < d.ver
                     /\ \A k \in (row.version + 1)..Len(file[row.id]) : file[row.id][k] # row.hash
        BY <1>5, <2>6 DEF Clear, Rests, RowNew, Newest
      <3> QED BY <1>4, <3>1
    <2>8. RowNew'
      BY <1>1, <2>1, <2>3, <2>4, <2>7 DEF Rests, RowNew, Newest
    <2>9. DownloadRest'
      BY <1>7, <2>1, <2>2, <2>3, <2>4, <2>6, <2>7
         DEF DownloadRest, Heard, HeardNext, Newest, NewestNext, Same
    <2> QED BY <1>3, <2>4, <2>5, <2>8, <2>9 DEF Rests
  <1>12. CASE ApplyRow
    <2>1. d.pc = "save" /\ UNCHANGED <<conflicts, disk, events>> /\ d' = Task
      BY <1>12 DEF ApplyRow
    <2>2. /\ Same(d.st) /\ (row.id # NoId => row.version < d.ver) /\ (disk = d.got \/ Queued)
          /\ Clear /\ d.got = Nothing => disk # row.hash
      BY <2>1 DEF Rests, DownloadRest
    <2>3. DownloadRest'
      BY <1>8, <2>1 DEF DownloadRest
    <2>4. Queued' = Queued /\ LastFits'
      BY <1>1, <2>1 DEF Rests, LastFits, Queued, Signalled
    <2>5. ASSUME row'.id = d.id, row'.version = d.ver, row'.hash \in Texts, shadow' = row'.hash,
                 d.got \in {row'.hash, Nothing},
                 NewestNext(d.id, d.ver, row'.hash),
                 d.got = Nothing /\ conflicts = {} => disk # row'.hash
          PROVE  Rests'
      <3>1. d.id # NoId
        BY <1>4, KnownTyped
      <3>2. RowText' = d.got
        BY <1>1, <1>4, <2>5, <3>1 DEF RowText
      <3>3. RowShape'
        BY <1>1, <1>4, <2>5, <3>1, <3>2 DEF RowShape
      <3>4. Told'
        BY <2>1, <2>2, <2>4, <3>2 DEF Told
      <3>5. RowNew'
        BY <2>1, <2>5, <3>2 DEF RowNew, Newest, NewestNext, Clear
      <3>6. Awaited'
        BY <1>7, <2>5 DEF Awaited, HeardNext
      <3> QED BY <1>3, <2>3, <2>4, <3>3, <3>4, <3>5, <3>6 DEF Rests
    <2>6. ASSUME row'.id = NoId, row'.hash = Nothing, d.got = Nothing PROVE Rests'
      <3>1. RowText' = Nothing /\ RowShape' /\ ~Clear'
        BY <2>6 DEF RowText, RowShape, Clear
      <3>2. Told' /\ RowNew' /\ Awaited'
        BY <2>1, <2>2, <2>4, <2>6, <3>1 DEF Told, RowNew, Awaited
      <3> QED BY <1>3, <2>3, <2>4, <3>1, <3>2 DEF Rests
    <2>7. CASE d.got # Nothing
      <3>1. /\ row' = [id |-> d.id, hash |-> d.got, version |-> d.ver, deleted |-> FALSE]
            /\ shadow' = d.got
        BY <1>12, <2>7 DEF ApplyRow
      <3>2. d.got \in Texts
        BY <1>4, <2>7 DEF MaybeText
      <3>3. row'.id = d.id /\ row'.version = d.ver /\ row'.hash = d.got
        BY <3>1
      <3> QED BY <1>7, <2>5, <2>7, <3>1, <3>2, <3>3
    <2>8. CASE d.got = Nothing /\ d.st = NoRow
      <3>1. UNCHANGED row
        BY <1>12, <2>8 DEF ApplyRow
      <3>2. row.id = NoId /\ row.hash = Nothing
        BY <2>2, <2>8 DEF Same, NoRow, EmptyRow
      <3> QED BY <2>6, <2>8, <3>1, <3>2
    <2>9. CASE d.got = Nothing /\ d.st # NoRow
      <3>1. d.st = row /\ row' = [row EXCEPT !.deleted = TRUE, !.version = d.ver] /\ UNCHANGED shadow
        BY <1>12, <2>2, <2>9 DEF ApplyRow, Same
      <3>2. row'.id = row.id /\ row'.hash = row.hash /\ row'.version = d.ver
        BY <1>4, <3>1 DEF Row
      <3>3. CASE row.id = NoId
        <4>1. row.hash = Nothing
          BY <3>3 DEF Rests, RowShape
        <4> QED BY <2>6, <2>9, <3>2, <3>3, <4>1
      <3>4. CASE row.id # NoId
        <4>1. row.id = d.id /\ row.hash \in Texts /\ shadow = row.hash /\ row.version < d.ver
          BY <1>5, <2>2, <3>4 DEF Rests, RowShape
        <4>2. conflicts = {} => disk # row.hash
          BY <2>2, <2>9, <3>4 DEF Clear
        <4>3. CASE conflicts = {}
          <5>1. \A k \in (row.version + 1)..Len(file[row.id]) : file[row.id][k] # row.hash
            BY <3>4, <4>3 DEF Rests, RowNew, Clear, Newest
          <5>2. NewestNext(d.id, d.ver, row.hash)
            BY <1>1, <1>4, <4>1, <5>1 DEF NewestNext
          <5> QED BY <2>5, <2>9, <3>1, <3>2, <4>1, <4>2, <5>2
        <4>4. CASE conflicts # {}
          <5>1. RowText' = Nothing
            BY <1>1, <1>4, <2>9, <3>2, <3>4, <4>1 DEF RowText
          <5>2. RowShape'
            BY <1>1, <1>4, <3>1, <3>2, <3>4, <4>1, <5>1 DEF RowShape
          <5>3. Told' /\ RowNew' /\ Awaited'
            BY <2>1, <4>4 DEF Told, RowNew, Awaited, Clear
          <5> QED BY <1>3, <2>3, <2>4, <5>2, <5>3 DEF Rests
        <4> QED BY <4>3, <4>4
      <3> QED BY <3>3, <3>4
    <2> QED BY <2>7, <2>8, <2>9
  <1> QED BY <1>9, <1>10, <1>11, <1>12 DEF Downloader

\* The dialog: as long as it is at the file the conflict is there, and the file it leaves is
\* told of.
LEMMA DialogRests ==
    ASSUME TypeInv, Grows, Holds, Rests, Quiet', Calm', Dialog \/ PutLocalLost
    PROVE  Rests'
  <1>1. UNCHANGED <<news, ops, w, d>>
    BY DEF Dialog, KeepLocal, FetchRemote, PutLocal, PutLocalLost, SaveLocal, SaveRemote, Resolved,
           RenameCopy, WriteRemote, server, db
  <1>2. events \in Seq({"modified", "deleted"}) /\ \A e : Noticed(e) # <<>>
    BY DEF TypeInv, DataTyped, Noticed
  <1>3. ASSUME ~Busy(w), ~Busy(d)
        PROVE  WorkerTold' /\ WorkerNew' /\ DownloadRest' /\ WorkerQueue'
    <2>1. ~Busy(w)' /\ d'.pc = "idle"
      BY <1>1, <1>3 DEF Busy, TypeInv, DownloadTyped, Thread, DownloadPlaces
    <2>2. WorkerQueue'
      BY <1>1, <1>3 DEF Rests, WorkerQueue, Has, Busy, Distinct
    <2> QED BY <2>1, <2>2 DEF WorkerTold, WorkerNew, DownloadRest, Busy
  <1>4. u.pc # "idle" => ~Busy(w) /\ ~Busy(d) /\ u.id \in Ids /\ u.id # NoId /\ conflicts # {}
    BY KnownTyped DEF Holds, OneBusy, Busy, TypeInv, DialogTyped, Thread, DialogPlaces, Rests, DialogRest
  <1>5. u \in Thread(DialogPlaces) /\ u.st \in Row /\ row \in Row /\ Task.pc = "idle"
    BY DEF TypeInv, DialogTyped, Thread, DataTyped, Task
  <1>6. ASSUME UNCHANGED <<row, shadow, conflicts>>, conflicts # {}, ~Busy(w), ~Busy(d), LastFits',
               DialogRest'
        PROVE  Rests'
    <2>1. RowShape' /\ Told' /\ RowNew' /\ Awaited'
      BY <1>6, ShapeStays DEF Rests, Told, RowNew, Awaited, Clear
    <2> QED BY <1>3, <1>6, <2>1 DEF Rests
  <1>7. UNCHANGED <<disk, events, mishaps>> => LastFits' /\ Queued' = Queued
    BY <1>1 DEF Rests, LastFits, Signalled, Queued
  <1>8. Signalled' => LastFits' /\ Queued'
    BY DEF LastFits, Queued
  <1>9. ASSUME NEW c \in conflicts, KeepLocal(c) \/ \E s \in Strategies : FetchRemote(c, s)
        PROVE  Rests'
    <2>1. UNCHANGED <<file, row, shadow, conflicts>> /\ mishaps' = mishaps \cup Overlap({w, d})
      BY <1>9 DEF KeepLocal, FetchRemote, server, db, saved
    <2>2. ~Busy(w) /\ ~Busy(d) /\ UNCHANGED mishaps
      BY <2>1, MishapNames DEF Quiet, Overlap
    <2>3. LastFits' /\ DialogRest'
      <3>1. CASE KeepLocal(c)
        <4>1. u'.pc = "put" /\ u'.st = row /\ events' # <<>>
          BY <1>2, <3>1 DEF KeepLocal, Task
        <4>2. LastFits' /\ Queued'
          BY <1>8, <4>1 DEF Signalled
        <4> QED BY <1>9, <2>1, <4>1, <4>2 DEF DialogRest, Same
      <3>2. ASSUME NEW s \in Strategies, FetchRemote(c, s) PROVE LastFits' /\ DialogRest'
        <4>1. /\ u'.pc \in {"rename", "write"} /\ u'.id = c.id /\ u'.ver = Len(file'[c.id])
              /\ UNCHANGED <<disk, events>> /\ c.id \in Ids
          BY <2>1, <3>2 DEF FetchRemote, Task, saved, TypeInv, DataTyped, ConflictState
        <4>2. HeardNext(u'.id, u'.ver) /\ NewestNext(u'.id, u'.ver, u'.got)
          BY <4>1, LastIsNewest DEF Grows
        <4> QED BY <1>7, <1>9, <2>1, <2>2, <4>1, <4>2
                DEF DialogRest, Heard, HeardNext, Newest, NewestNext
      <3> QED BY <1>9, <3>1, <3>2
    <2> QED BY <1>6, <1>9, <2>1, <2>2, <2>3
  <1>10. CASE PutLocal
    <2> DEFINE a == Upload(u.id, u.base, u.text)
    <2>1. /\ u.pc = "put" /\ u.text \in Texts /\ u.base \in Nat /\ u.id \in Ids /\ StoreTyped
          /\ UNCHANGED <<row, shadow, conflicts, disk, events>>
      BY <1>5, <1>10 DEF PutLocal, TypeInv, DialogTyped, Thread, db, saved
    <2>2. /\ Applied(a) /\ Answer(a, u.id, u.base, u.text)
          /\ u' = IF a.code \in {"ok", "replay"} THEN [u EXCEPT !.pc = "save", !.ver = a.ver] ELSE Task
          /\ mishaps' = mishaps \cup Outdated(a, u.id, u.text)
      BY <1>10, <2>1, UploadAnswer DEF PutLocal
    <2> HIDE DEF a
    <2>3. UNCHANGED mishaps
      BY <2>2, MishapNames DEF Quiet
    <2>4. LastFits' /\ Queued'
      BY <1>7, <2>1, <2>3 DEF Rests, DialogRest
    <2>5. DialogRest'
      <3>1. CASE u' = Task
        BY <1>5, <3>1 DEF DialogRest
      <3>2. CASE a.code \in {"ok", "replay"} /\ u' = [u EXCEPT !.pc = "save", !.ver = a.ver]
        <4>1. u'.pc = "save" /\ u'.st = u.st /\ u'.id = u.id /\ u'.ver = a.ver /\ u'.text = u.text
          BY <1>5, <3>2 DEF Thread
        <4>2. a.ver = Len(file'[u.id])
          BY <2>1, <2>2, <3>2, AnswerIsVersion
        <4>3. HeardNext(u'.id, u'.ver) /\ NewestNext(u'.id, u'.ver, u'.text)
          BY <2>1, <4>1, <4>2, LastIsNewest DEF Grows
        <4>4. Same(u.st)
          BY <2>1 DEF Rests, DialogRest
        <4> QED BY <1>4, <2>1, <2>4, <4>1, <4>3, <4>4
                DEF DialogRest, Heard, HeardNext, Newest, NewestNext, Same
      <3> QED BY <2>2, <3>1, <3>2
    <2> QED BY <1>4, <1>6, <2>1, <2>4, <2>5
  <1>11. CASE PutLocalLost
    <2>1. u.pc = "put" /\ u' = Task /\ UNCHANGED <<row, shadow, conflicts, disk, events, mishaps>>
      BY <1>11 DEF PutLocalLost, db, saved
    <2>2. LastFits' /\ DialogRest'
      BY <1>5, <1>7, <2>1 DEF DialogRest
    <2> QED BY <1>4, <1>6, <2>1, <2>2
  <1>12. ASSUME NEW st \in Row, NEW text \in Texts, Resolved(st, text), u.pc # "idle", Queued,
                st = NoRow => row.id = NoId,
                st.id \in {NoId, u.id}, IsVersion(u.id, u.ver, text), Heard(u.id, u.ver),
                Newest(u.id, u.ver, text)
         PROVE  Rests'
    <2>1. u' = Task /\ UNCHANGED <<file, disk, events>>
      BY <1>12 DEF Resolved, server
    <2>2. UNCHANGED mishaps /\ (st = NoRow \/ st.id = u.id)
      BY <1>12 DEF Resolved, Quiet
    <2>3. LastFits' /\ Told' /\ DialogRest'
      BY <1>5, <1>7, <1>12, <2>1, <2>2 DEF Told, DialogRest
    <2>4. RowShape' /\ RowNew' /\ Awaited'
      <3>1. CASE st = NoRow
        <4>1. UNCHANGED <<row, shadow>> /\ row.id = NoId
          BY <1>12, <3>1 DEF Resolved
        <4> QED BY <4>1, ShapeStays DEF Rests, RowNew, Awaited, Clear
      <3>2. CASE st # NoRow
        <4>1. row' = [st EXCEPT !.hash = text, !.version = u.ver] /\ shadow' = text /\ st.id = u.id
          BY <1>12, <2>2, <3>2 DEF Resolved
        <4>2. row'.id = u.id /\ row'.hash = text /\ row'.version = u.ver
          BY <1>12, <4>1 DEF Row
        <4>3. RowText' = text /\ text # Nothing
          BY <1>4, <1>12, <2>1, <4>2, TextIsNotNothing DEF RowText, IsVersion
        <4>4. RowShape'
          BY <1>4, <1>12, <2>1, <4>1, <4>2, <4>3 DEF RowShape, IsVersion
        <4>5. RowNew'
          BY <1>12, <2>1, <4>2, <4>3 DEF RowNew, Newest
        <4>6. Awaited'
          BY <1>1, <1>12, <2>1, <4>2 DEF Awaited, Heard
        <4> QED BY <4>4, <4>5, <4>6
      <3> QED BY <3>1, <3>2
    <2> QED BY <1>3, <1>4, <1>12, <2>3, <2>4 DEF Rests
  <1>13. CASE SaveLocal
    <2>1. u.pc = "save" /\ Resolved(u.st, u.text)
      BY <1>13 DEF SaveLocal
    <2>2. u.text \in Texts /\ u.st.id \in {NoId, u.id} /\ IsVersion(u.id, u.ver, u.text)
      BY <2>1 DEF Holds, DialogHolds, TypeInv, DialogTyped
    <2>3. Queued /\ Heard(u.id, u.ver) /\ Newest(u.id, u.ver, u.text) /\ Same(u.st)
      BY <2>1 DEF Rests, DialogRest
    <2>4. u.st = NoRow => row.id = NoId
      BY <2>3, EmptyRows DEF Same
    <2> QED BY <1>5, <1>12, <2>1, <2>2, <2>3, <2>4
  <1>14. CASE SaveRemote
    <2>1. u.pc = "saveRemote" /\ Resolved(row, u.got)
      BY <1>14 DEF SaveRemote
    <2>2. u.got \in Texts /\ IsVersion(u.id, u.ver, u.got)
      BY <2>1 DEF TypeInv, DialogTyped
    <2>3. Queued /\ Heard(u.id, u.ver) /\ Newest(u.id, u.ver, u.got)
      BY <2>1 DEF Rests, DialogRest
    <2>4. row.id \in {NoId, u.id}
      BY <1>4, <2>1 DEF Holds, OneId, Known
    <2> QED BY <1>5, <1>12, <2>1, <2>2, <2>3, <2>4, EmptyRows
  <1>15. CASE RenameCopy \/ WriteRemote
    <2>1. /\ u.pc \in {"rename", "write"} /\ UNCHANGED <<file, row, shadow, conflicts, mishaps>>
          /\ u'.id = u.id /\ u'.ver = u.ver /\ u'.got = u.got /\ u'.pc \in {"write", "saveRemote"}
      BY <1>5, <1>15 DEF RenameCopy, WriteRemote, server, db, Thread
    <2>2. LastFits' /\ (u'.pc = "saveRemote" => Queued')
      <3>1. CASE RenameCopy
        <4>1. UNCHANGED <<disk, events>> /\ u'.pc = "write"
          BY <1>5, <3>1 DEF RenameCopy, Thread
        <4> QED BY <1>7, <2>1, <4>1
      <3>2. CASE WriteRemote
        <4>1. u.got \in Texts /\ Replace(u.got)
          BY <3>2 DEF WriteRemote, TypeInv, DialogTyped
        <4>2. Signalled'
          BY <2>1, <4>1, ReplaceSignals, TextIsNotNothing
        <4> QED BY <1>8, <4>2
      <3> QED BY <1>15, <3>1, <3>2
    <2>3. Heard(u.id, u.ver) /\ Newest(u.id, u.ver, u.got)
      BY <2>1 DEF Rests, DialogRest
    <2>4. DialogRest'
      BY <1>1, <1>4, <2>1, <2>2, <2>3 DEF DialogRest, Heard, Newest
    <2> QED BY <1>4, <1>6, <2>1, <2>2, <2>4
  <1> QED BY <1>9, <1>10, <1>11, <1>13, <1>14, <1>15 DEF Dialog

\* A conflict is what the server answers to another version than its last.
LEMMA ConflictAnswer ==
    ASSUME NEW i, NEW base, NEW text, Upload(i, base, text).code = "conflict"
    PROVE  base # Len(file[i])
  BY DEF Upload

\* A text merged from one that differs from the base differs from the base.
LEMMA MergedIsNew ==
    ASSUME NEW b, NEW l, NEW r, r # b, NEW m \in Merged(b, l, r), Nothing # b
    PROVE  m # b
  <1>1. (l \cap r) \cup (l \ b) \cup (r \ b) = b => l = r
    OBVIOUS
  <1> QED BY <1>1 DEF Merged

\* A text that differs from the row's reaches the server, or not: the operation that brought
\* it there is still queued.
LEMMA SentRests ==
    ASSUME TypeInv, Grows, Rests, UNCHANGED <<news, row, shadow, conflicts, ops, disk, events, mishaps>>,
           NEW i \in Ids, NEW x \in MaybeText,
           UNCHANGED file \/ file' = [file EXCEPT ![i] = Append(@, x)],
           Clear => x # row.hash /\ (Has("delete") \/ (Has("upload") /\ disk # row.hash))
    PROVE  RowShape' /\ LastFits' /\ Told' /\ RowNew' /\ Awaited' /\ Clear' = Clear
  <1>1. RowShape' /\ RowText' = RowText /\ Clear' = Clear
    BY ShapeStays DEF Rests, Clear
  <1>2. LastFits' /\ Told'
    BY <1>1 DEF Rests, LastFits, Told, Signalled, Queued
  <1>3. Clear => NewestNext(row.id, row.version, row.hash)
    <2> SUFFICES ASSUME Clear PROVE NewestNext(row.id, row.version, row.hash)
      OBVIOUS
    <2>1. row.id \in Ids /\ row.version \in Nat /\ Newest(row.id, row.version, row.hash)
      BY DEF Clear, TypeInv, DataTyped, Row, Rests, RowNew
    <2> QED BY <2>1, NewestStays DEF TypeInv, StoreTyped
  <1>4. RowNew'
    BY <1>1, <1>3 DEF Rests, RowNew, Newest, NewestNext
  <1>5. Awaited'
    BY <1>1 DEF Awaited, Has
  <1> QED BY <1>1, <1>2, <1>4, <1>5

\* An operation ends with the row and the file as they are: a later operation, an event or
\* the change feed knows what is left to do.
LEMMA FailedRests ==
    ASSUME TypeInv, Grows, Rests, Busy(w), opFailed, Quiet', d'.pc = "idle", u'.pc = "idle", ~Busy(d),
           UNCHANGED <<file, news, row, shadow, conflicts, disk, events>>
    PROVE  Rests'
  <1>1. /\ WorkerQueue' /\ (\A k : Has(k) => Has(k)') /\ UNCHANGED mishaps
        /\ Len(ops') = Len(ops) /\ (ops # <<>> <=> ops' # <<>>)
        /\ ops # <<>> => ops'[Len(ops)].kind = ops[Len(ops)].kind
        /\ w'.pc = "next"
    BY Failed DEF Rests
  <1>2. RowShape' /\ RowText' = RowText /\ Clear' = Clear
    BY ShapeStays DEF Rests, Clear
  <1>3. LastFits' /\ Told' /\ RowNew'
    BY <1>1, <1>2 DEF Rests, LastFits, Told, RowNew, Newest, Signalled, Queued
  <1>4. (Has("delete") => Has("delete")') /\ (Has("upload") => Has("upload")')
    BY <1>1
  <1>5. Awaited'
    BY <1>2, <1>4 DEF Rests, Awaited
  <1> QED BY <1>1, <1>2, <1>3, <1>5
          DEF Rests, WorkerTold, WorkerNew, DownloadRest, DialogRest

\* The worker takes its operation from the queue: what the row and the file must be for
\* nothing to be forgotten.
LEMMA FinishedRests ==
    ASSUME TypeInv, Rests, Busy(w), OpDone, removeOp, d'.pc = "idle", u'.pc = "idle",
           UNCHANGED <<disk, events, mishaps>>, RowShape', RowNew', Awaited',
           conflicts' # {} \/ Retold \/ disk = RowText'
    PROVE  Rests'
  <1>1. /\ WorkerQueue'
        /\ ops' # <<>> => ops # <<>> /\ ops'[Len(ops')] = ops[Len(ops)]
        /\ ops # <<>> /\ ops[Len(ops)].id # Op.id => ops' # <<>>
    BY Finished DEF Rests
  <1>2. w'.pc = "next"
    BY DEF OpDone, Task
  <1>3. LastFits'
    BY <1>1 DEF Rests, LastFits, Signalled
  <1>4. Told'
    BY <1>1 DEF Told, Queued, Retold, Signalled
  <1> QED BY <1>1, <1>2, <1>3, <1>4
          DEF Rests, WorkerTold, WorkerNew, DownloadRest, DialogRest

\* The worker.
LEMMA WorkerRests ==
    ASSUME TypeInv, Grows, Holds, Rests, Quiet', Calm',
           \/ Worker \/ UploadLost \/ DeleteLost \/ OpFails \/ PutMergedLost
    PROVE  Rests'
  <1>1. UNCHANGED <<news, d, u>>
    BY DEF Worker, workerLoop, NextOp, ReadFile, ReadRow, UploadAnswered, SaveUpload, DeleteAnswered,
       removeFile, FetchCurrent, MergeLocal, WriteMerged, PutMerged, SaveMerged, ConflictCopy,
       UploadLost, DeleteLost, OpFails, PutMergedLost, server
  <1>2. w \in Thread(WorkerPlaces) /\ w.base \in Nat /\ w.ver \in Nat /\ StoreTyped /\ NoId \notin Ids
    BY KnownTyped DEF TypeInv, WorkerTyped, Thread
  <1>3. /\ row \in Row /\ (row.id # NoId => row.id \in Ids /\ row.hash \in Texts) /\ row.version \in Nat
        /\ WorkerQueue
    BY DEF TypeInv, DataTyped, Row, Rests, RowShape
  <1>4. OpDone => w'.pc = "next" /\ ~Busy(w)'
    BY DEF OpDone, Task, Busy
  <1>5. ASSUME Busy(w) PROVE d'.pc = "idle" /\ u'.pc = "idle" /\ ~Busy(d) /\ DownloadRest' /\ DialogRest'
    <2>1. ~Busy(d) /\ ~Busy(u)
      BY <1>5 DEF Holds, OneBusy
    <2>2. d'.pc = "idle" /\ u'.pc = "idle"
      BY <1>1, <2>1 DEF Busy, TypeInv, DownloadTyped, DialogTyped, Thread, DownloadPlaces, DialogPlaces
    <2> QED BY <2>1, <2>2 DEF DownloadRest, DialogRest
  <1>6. ASSUME Busy(w)
        PROVE  /\ Has(Op.kind) /\ w.todo # <<>>
               /\ w.pc \notin {"delete", "forget"} => Op.kind = "upload"
               /\ w.pc \in {"delete", "forget"} => Op.kind = "delete"
    <2>1. w.todo \in Seq(PendingOp) /\ w.todo # <<>> /\ w.pc # "idle"
      BY <1>2, <1>6 DEF TypeInv, WorkerTyped, Thread, Busy
    <2>2. 1 \in DOMAIN w.todo /\ w.todo[1] = Op /\ Op \in PendingOp
      BY <2>1 DEF Op
    <2> QED BY <1>3, <1>6, <2>1, <2>2 DEF WorkerQueue, PendingOp
  <1>7. CASE workerLoop
    <2>1. /\ UNCHANGED <<file, row, ops, conflicts, disk, shadow, events, mishaps>>
          /\ w'.pc = "next" /\ w'.todo = ops /\ w.pc = "idle"
      BY <1>7 DEF workerLoop, Task, server, db, saved
    <2>2. ~Busy(w) /\ ~Busy(w)'
      BY <2>1 DEF Busy
    <2>3. WorkerQueue'
      BY <2>1, <2>2 DEF WorkerQueue, Has, Distinct, TypeInv, QueueTyped
    <2>4. RowShape' /\ RowText' = RowText /\ Clear' = Clear
      BY <2>1, ShapeStays DEF Rests, Clear
    <2>5. LastFits' /\ Told' /\ RowNew' /\ Awaited'
      BY <1>1, <2>1, <2>4 DEF Rests, LastFits, Told, RowNew, Newest, Awaited, Signalled, Queued, Has
    <2>6. DownloadRest' /\ DialogRest'
      BY <1>1, <2>1, <2>4 DEF Rests, DownloadRest, DialogRest, Heard, Newest, Same, Queued, Signalled
    <2> QED BY <2>1, <2>3, <2>4, <2>5, <2>6 DEF Rests, WorkerTold, WorkerNew
  <1>8. CASE NextOp
    <2>1. UNCHANGED <<file, row, ops, conflicts, disk, shadow, events>> /\ w.pc = "next"
      BY <1>8 DEF NextOp, server, db, saved
    <2>2. UNCHANGED mishaps
      BY <1>8, MishapNames DEF NextOp, Quiet
    <2>3. RowShape' /\ RowText' = RowText /\ Clear' = Clear
      BY <2>1, ShapeStays DEF Rests, Clear
    <2>4. LastFits' /\ Told' /\ RowNew' /\ Awaited'
      BY <1>1, <2>1, <2>2, <2>3 DEF Rests, LastFits, Told, RowNew, Newest, Awaited, Signalled, Queued, Has
    <2>5. DownloadRest' /\ DialogRest'
      BY <1>1, <2>1, <2>2, <2>3 DEF Rests, DownloadRest, DialogRest, Heard, Newest, Same, Queued, Signalled
    <2>6. WorkerQueue' /\ w'.pc \in {"idle", "read", "delete"}
      <3>1. CASE w' = Task
        BY <3>1 DEF WorkerQueue, Task, Busy
      <3>2. CASE w' # Task
        <4>1. /\ w' = [w EXCEPT !.pc = IF Op.kind = "upload" THEN "read" ELSE "delete"]
              /\ w.todo # <<>> /\ (ops # <<>> => Op.id \notin IdsOf(ops) \ {Head(ops).id})
          BY <1>8, <3>2 DEF NextOp, Quiet, Op
        <4>2. /\ w'.pc = (IF Op.kind = "upload" THEN "read" ELSE "delete") /\ w'.todo = w.todo
              /\ Op' = Op /\ Op.kind \in {"upload", "delete"}
          <5>1. Head(w.todo) \in PendingOp
            BY <1>2, <4>1 DEF Thread
          <5>2. w'.pc = (IF Op.kind = "upload" THEN "read" ELSE "delete") /\ w'.todo = w.todo
            BY <1>2, <4>1 DEF Thread
          <5> QED BY <5>1, <5>2 DEF Op, PendingOp
        <4>3. Op.id \in IdsOf(ops) => Head(ops).id = Op.id
          BY <4>1 DEF IdsOf
        <4> QED BY <1>3, <2>1, <4>2, <4>3 DEF WorkerQueue, Has, Busy
      <3> QED BY <3>1, <3>2
    <2> QED BY <2>3, <2>4, <2>5, <2>6 DEF Rests, WorkerTold, WorkerNew
  <1>9. CASE ReadFile
    <2>1. w.pc = "read" /\ Busy(w) /\ UNCHANGED <<file, row, conflicts, disk, shadow, events>>
      BY <1>9 DEF ReadFile, server, saved, Busy
    <2>2. CASE opFailed
      BY <1>1, <1>5, <2>1, <2>2, FailedRests
    <2>3. CASE ~opFailed
      <3>1. /\ UNCHANGED <<ops, mishaps>> /\ w'.pc = "row" /\ w'.text = disk /\ w'.todo = w.todo
            /\ Op' = Op
        BY <1>2, <1>9, <2>3 DEF ReadFile, Thread, Op
      <3>2. RowShape' /\ RowText' = RowText /\ Clear' = Clear
        BY <2>1, ShapeStays DEF Rests, Clear
      <3>3. LastFits' /\ Told' /\ RowNew' /\ Awaited'
        BY <1>1, <2>1, <3>1, <3>2
           DEF Rests, LastFits, Told, RowNew, Newest, Awaited, Signalled, Queued, Has
      <3>4. WorkerQueue'
        BY <1>3, <2>1, <3>1 DEF WorkerQueue, Has, Busy
      <3>5. WorkerTold'
        BY <2>1, <3>1 DEF WorkerTold
      <3>6. Clear /\ disk = row.hash => RowText # Nothing /\ (Heard(row.id, row.version) \/ Has("delete"))
        BY <1>5, <2>1 DEF Rests, RowNew, Awaited, Heard
      <3>7. WorkerNew'
        BY <1>1, <2>1, <3>1, <3>2, <3>6 DEF WorkerNew, Heard, Has
      <3> QED BY <1>5, <2>1, <3>2, <3>3, <3>4, <3>5, <3>7 DEF Rests
    <2> QED BY <2>2, <2>3
  <1>10. CASE ReadRow
    <2>1. /\ w.pc = "row" /\ Busy(w) /\ UNCHANGED <<file, row, conflicts, disk, shadow, events, mishaps>>
          /\ w.text \in Texts
      BY <1>10 DEF ReadRow, server, saved, Busy, TypeInv, WorkerTyped
    <2>2. RowShape' /\ RowText' = RowText /\ Clear' = Clear
      BY <2>1, ShapeStays DEF Rests, Clear
    <2>3. RowNew'
      BY <1>1, <2>1, <2>2 DEF Rests, RowNew, Newest
    <2>4. CASE row # NoRow /\ row.hash = w.text
      <3>1. OpDone /\ removeOp
        BY <1>10, <2>4 DEF ReadRow
      <3>2. row.id # NoId
        BY <2>1, <2>4, TextIsNotNothing DEF Rests, RowShape
      <3>3. conflicts = {} => /\ RowText # Nothing /\ (Heard(row.id, row.version) \/ Has("delete"))
                              /\ disk = w.text \/ Retold
        BY <2>1, <2>4, <3>2 DEF Rests, WorkerNew, WorkerTold, Clear
      <3>4. Has("delete") => Has("delete")'
        BY <1>3, <1>6, <2>1, <3>1, Finished
      <3>5. Awaited'
        BY <1>1, <2>1, <2>2, <3>3, <3>4 DEF Awaited, Clear, Heard
      <3>6. conflicts' # {} \/ Retold \/ disk = RowText'
        BY <2>1, <2>2, <2>4, <3>2, <3>3 DEF Rests, RowShape
      <3> QED BY <1>5, <2>1, <2>2, <2>3, <3>1, <3>5, <3>6, FinishedRests
    <2>5. CASE ~(row # NoRow /\ row.hash = w.text)
      <3>1. /\ UNCHANGED ops /\ w'.pc = "send" /\ w'.text = w.text /\ w'.todo = w.todo /\ Op' = Op
            /\ w'.base = IF row = NoRow THEN 0 ELSE row.version
        BY <1>2, <1>10, <2>5 DEF ReadRow, Thread, Op
      <3>2. w'.base = row.version
        BY <3>1 DEF NoRow, EmptyRow
      <3>3. LastFits' /\ Told' /\ Awaited'
        BY <1>1, <2>1, <2>2, <3>1 DEF Rests, LastFits, Told, Awaited, Signalled, Queued, Has
      <3>4. WorkerQueue'
        BY <1>3, <2>1, <3>1 DEF WorkerQueue, Has, Busy
      <3>5. WorkerTold'
        BY <2>1, <3>1, <3>2 DEF Rests, WorkerTold, Retold, Signalled
      <3>6. Clear => w.text # row.hash /\ disk # row.hash
        BY <2>1, <2>5, EmptyRows DEF Clear, Rests, WorkerNew
      <3>7. WorkerNew'
        BY <2>1, <2>2, <3>1, <3>6 DEF WorkerNew
      <3> QED BY <1>5, <2>1, <2>2, <2>3, <3>3, <3>4, <3>5, <3>7 DEF Rests
    <2> QED BY <2>4, <2>5
  <1>11. CASE UploadAnswered \/ UploadLost
    <2> DEFINE a == Upload(w.id, w.base, w.text)
    <2>1. /\ w.pc = "send" /\ Busy(w) /\ w.text \in Texts /\ w.text \in MaybeText /\ w.id \in Ids
          /\ UNCHANGED <<row, conflicts, disk, shadow, events>>
      BY <1>11 DEF UploadAnswered, UploadLost, db, saved, Busy, TypeInv, WorkerTyped, MaybeText
    <2>2. /\ Answer(a, w.id, w.base, w.text) /\ MaybeApplied(a)
          /\ UNCHANGED file \/ file' = [file EXCEPT ![w.id] = Append(@, w.text)]
      <3>1. MaybeApplied(a)
        BY <1>11 DEF UploadAnswered, UploadLost, MaybeApplied
      <3> QED BY <1>2, <2>1, <3>1, UploadAnswer, UploadAdds
    <2>3. Clear => w.text # row.hash /\ disk # row.hash /\ Has("upload")
      BY <1>6, <2>1 DEF Rests, WorkerNew
    <2>4. ASSUME UNCHANGED <<ops, mishaps>>
          PROVE  RowShape' /\ LastFits' /\ Told' /\ RowNew' /\ Awaited' /\ Clear' = Clear
      BY <1>1, <2>1, <2>2, <2>3, <2>4, SentRests
    <2>5. a.code = "conflict" => w.base # Len(file[w.id])
      BY ConflictAnswer
    <2>6. UploadAnswered => /\ Applied(a)
                            /\ \/ opFailed /\ a.code = "refused"
                               \/ /\ a.code # "refused" /\ UNCHANGED ops
                                  /\ w' = [w EXCEPT !.pc = IF a.code = "conflict" THEN "fetch" ELSE "save",
                                                    !.ver = a.ver]
                                  /\ mishaps' = mishaps \cup Outdated(a, w.id, w.text) \cup
                                                 IF a.code = "ok" THEN Twin(w.id) ELSE {}
      BY DEF UploadAnswered
    <2> HIDE DEF a
    <2>7. CASE UploadLost
      <3>1. OpDone /\ UNCHANGED <<ops, mishaps>>
        BY <2>7 DEF UploadLost, db
      <3>2. WorkerQueue'
        BY <1>3, <2>1, <3>1, Ended
      <3> QED BY <1>4, <1>5, <2>1, <2>4, <3>1, <3>2 DEF Rests, WorkerTold, WorkerNew
    <2>8. CASE UploadAnswered /\ opFailed /\ a.code = "refused"
      <3>1. UNCHANGED file
        BY <2>2, <2>6, <2>8 DEF Answer, Applied
      <3> QED BY <1>1, <1>5, <2>1, <2>8, <3>1, FailedRests
    <2>9. CASE UploadAnswered /\ a.code # "refused"
      <3>1. /\ Applied(a) /\ UNCHANGED ops
            /\ w' = [w EXCEPT !.pc = IF a.code = "conflict" THEN "fetch" ELSE "save", !.ver = a.ver]
            /\ Outdated(a, w.id, w.text) \subseteq mishaps'
        BY <2>6, <2>9
      <3>2. UNCHANGED mishaps
        BY <2>6, <2>9, MishapNames DEF Quiet
      <3>3. /\ w'.pc = (IF a.code = "conflict" THEN "fetch" ELSE "save") /\ w'.ver = a.ver
            /\ w'.id = w.id /\ w'.text = w.text /\ w'.todo = w.todo /\ Op' = Op
        BY <1>2, <3>1 DEF Thread, Op
      <3>4. WorkerQueue'
        BY <1>3, <2>1, <3>1, <3>3 DEF WorkerQueue, Has, Busy
      <3>5. CASE a.code = "conflict"
        <4>1. UNCHANGED file
          BY <2>2, <3>1, <3>5 DEF Answer, Applied
        <4>2. Clear => row.version # Len(file[row.id])
          <5>1. w.base = row.version
            BY <2>1 DEF Rests, WorkerTold
          <5>2. Clear => row.id = w.id
            BY <2>1 DEF Clear, Holds, WorkerHolds
          <5> QED BY <2>5, <3>5, <5>1, <5>2
        <4>3. WorkerTold' /\ WorkerNew'
          BY <2>1, <2>3, <2>4, <3>1, <3>2, <3>3, <3>5, <4>1, <4>2 DEF WorkerTold, WorkerNew
        <4> QED BY <1>5, <2>1, <2>4, <3>1, <3>2, <3>4, <4>3 DEF Rests
      <3>6. CASE a.code \in {"ok", "replay"}
        <4>1. a.ver = Len(file'[w.id])
          BY <1>2, <2>1, <2>2, <3>1, <3>6, AnswerIsVersion
        <4>2. HeardNext(w'.id, w'.ver) /\ NewestNext(w'.id, w'.ver, w'.text)
          BY <2>1, <3>3, <4>1, LastIsNewest DEF Grows
        <4>3. disk = w.text \/ Retold
          BY <2>1 DEF Rests, WorkerTold
        <4>4. WorkerTold'
          BY <2>1, <3>1, <3>2, <3>3, <3>6, <4>2, <4>3
             DEF WorkerTold, Retold, Signalled, Heard, HeardNext, Newest, NewestNext
        <4>5. WorkerNew'
          <5>1. w'.pc = "save" /\ Clear' = Clear
            BY <2>4, <3>1, <3>2, <3>3, <3>6
          <5> QED BY <2>1, <2>3, <5>1 DEF WorkerNew
        <4> QED BY <1>5, <2>1, <2>4, <3>1, <3>2, <3>4, <4>4, <4>5 DEF Rests
      <3> QED BY <2>2, <2>9, <3>5, <3>6 DEF Answer
    <2> QED BY <1>11, <2>6, <2>7, <2>8, <2>9
  <1>12. CASE SaveUpload \/ SaveMerged
    <2> DEFINE t == IF w.pc = "save" THEN w.text ELSE w.got
    <2>1. /\ w.pc \in {"save", "saveMerged"} /\ Busy(w) /\ OpDone /\ removeOp
          /\ UNCHANGED <<file, conflicts, disk, events, mishaps>>
          /\ row'.id = w.id /\ row'.version = w.ver /\ row'.hash = t /\ shadow' = t
      BY <1>12 DEF SaveUpload, SaveMerged, server, Busy
    <2>2. t \in Texts /\ IsVersion(w.id, w.ver, t)
      BY <2>1 DEF TypeInv, WorkerTyped, Holds, WorkerHolds
    <2>3. Heard(w.id, w.ver) /\ Newest(w.id, w.ver, t) /\ (disk = t \/ Retold)
      BY <2>1 DEF Rests, WorkerTold
    <2> HIDE DEF t
    <2>4. RowText' = t /\ t # Nothing /\ w.id # NoId
      BY <1>2, <2>1, <2>2, TextIsNotNothing DEF RowText, IsVersion
    <2>5. RowShape'
      BY <2>1, <2>2, <2>4 DEF RowShape, IsVersion
    <2>6. RowNew'
      BY <2>1, <2>3, <2>4 DEF RowNew, Newest
    <2>7. Awaited'
      BY <1>1, <2>1, <2>3 DEF Awaited, Heard
    <2> QED BY <1>5, <2>1, <2>3, <2>4, <2>5, <2>6, <2>7, FinishedRests
  <1>13. CASE DeleteAnswered \/ DeleteLost
    <2>1. w.pc = "delete" /\ Busy(w) /\ UNCHANGED <<row, ops, conflicts, disk, shadow, events, mishaps>>
      BY <1>13 DEF DeleteAnswered, DeleteLost, db, saved, Busy
    <2>2. UNCHANGED file \/ (row.id # NoId /\ file' = Tombstoned(row.id))
      BY <1>13 DEF DeleteAnswered, DeleteLost
    <2>3. RowShape' /\ LastFits' /\ Told' /\ RowNew' /\ Awaited'
      <3> DEFINE i == IF row.id = NoId THEN 1 ELSE row.id
      <3>1. i \in Ids /\ Nothing \in MaybeText
        BY <1>3, EngineAssumption DEF MaybeText
      <3>2. UNCHANGED file \/ file' = [file EXCEPT ![i] = Append(@, Nothing)]
        <4>1. row.id # NoId /\ file[row.id] = <<>> => Tombstoned(row.id) = file
          BY <1>3 DEF Tombstoned, TypeInv, StoreTyped
        <4>2. row.id # NoId /\ file[row.id] # <<>> =>
                 Tombstoned(row.id) = [file EXCEPT ![row.id] = Append(@, Nothing)]
          BY DEF Tombstoned
        <4> QED BY <2>2, <4>1, <4>2
      <3>3. Clear => Nothing # row.hash /\ Has("delete")
        BY <1>3, <1>6, <2>1, TextIsNotNothing DEF Clear
      <3> HIDE DEF i
      <3> QED BY <1>1, <2>1, <3>1, <3>2, <3>3, SentRests
    <2>4. CASE DeleteAnswered
      <3>1. w'.pc = "forget" /\ w'.todo = w.todo /\ Op' = Op
        BY <1>2, <2>4 DEF DeleteAnswered, Thread, Op
      <3>2. WorkerQueue'
        BY <1>3, <2>1, <3>1 DEF WorkerQueue, Has, Busy
      <3> QED BY <1>5, <2>1, <2>3, <3>1, <3>2 DEF Rests, WorkerTold, WorkerNew
    <2>5. CASE DeleteLost
      <3>1. OpDone
        BY <2>5 DEF DeleteLost
      <3>2. WorkerQueue'
        BY <1>3, <2>1, <3>1, Ended
      <3> QED BY <1>4, <1>5, <2>1, <2>3, <3>1, <3>2 DEF Rests, WorkerTold, WorkerNew
    <2> QED BY <1>13, <2>4, <2>5
  <1>14. CASE removeFile
    <2>1. /\ w.pc = "forget" /\ Busy(w) /\ OpDone /\ removeOp /\ row' = NoRow
          /\ UNCHANGED <<file, conflicts, disk, shadow, events, mishaps>>
      BY <1>14 DEF removeFile, server, saved, Busy
    <2>2. row'.id = NoId /\ row'.hash = Nothing
      BY <2>1 DEF NoRow, EmptyRow, NoId
    <2>3. RowShape' /\ RowText' = Nothing /\ RowNew' /\ Awaited'
      BY <2>2 DEF RowShape, RowText, RowNew, Awaited, Clear
    <2>4. Retold \/ disk = Nothing
      <3>1. Op.kind = "delete" /\ Has("delete") /\ w.todo # <<>> /\ w.todo \in Seq(PendingOp)
        BY <1>2, <1>6, <2>1 DEF Thread
      <3>2. ops # <<>> /\ Len(ops) \in DOMAIN ops
        BY <3>1 DEF Has, TypeInv, QueueTyped
      <3>3. Signalled \/ (ops[Len(ops)].kind = "delete") = (disk = Nothing)
        BY <3>2 DEF Rests, LastFits
      <3>4. CASE Signalled \/ ops[Len(ops)].kind = "delete"
        BY <3>3, <3>4 DEF Retold
      <3>5. CASE ops[Len(ops)].kind # "delete"
        <4>1. 1 \in DOMAIN w.todo /\ w.todo[1] = Op /\ w.pc # "idle"
          BY <2>1, <3>1 DEF Op
        <4>2. ops[Len(ops)].id # Op.id
          BY <1>3, <3>1, <3>2, <3>5, <4>1 DEF WorkerQueue
        <4> QED BY <3>2, <4>2 DEF Retold
      <3> QED BY <3>4, <3>5
    <2> QED BY <1>5, <2>1, <2>3, <2>4, FinishedRests
  <1>15. CASE FetchCurrent \/ OpFails
    <2>1. Busy(w) /\ UNCHANGED <<file, row, conflicts, disk, shadow, events>>
      BY <1>15 DEF FetchCurrent, OpFails, server, saved, Busy
    <2>2. CASE opFailed
      BY <1>1, <1>5, <2>1, <2>2, FailedRests
    <2>3. CASE ~opFailed
      <3>1. /\ w.pc = "fetch" /\ Live(w.id) /\ w' = [w EXCEPT !.pc = "merge", !.got = Current(w.id)]
            /\ UNCHANGED <<ops, mishaps>>
        BY <1>15, <2>3 DEF FetchCurrent, OpFails
      <3>2. w'.pc = "merge" /\ w'.got = Current(w.id) /\ w'.todo = w.todo /\ Op' = Op
        BY <1>2, <3>1 DEF Thread, Op
      <3>3. RowShape' /\ RowText' = RowText /\ Clear' = Clear
        BY <2>1, ShapeStays DEF Rests, Clear
      <3>4. LastFits' /\ Told' /\ RowNew' /\ Awaited'
        BY <1>1, <2>1, <3>1, <3>3
           DEF Rests, LastFits, Told, RowNew, Newest, Awaited, Signalled, Queued, Has
      <3>5. WorkerQueue'
        BY <1>3, <2>1, <3>1, <3>2 DEF WorkerQueue, Has, Busy
      <3>6. Clear => Current(w.id) # row.hash
        <4> SUFFICES ASSUME Clear PROVE Current(w.id) # row.hash
          OBVIOUS
        <4>1. w.id = row.id /\ row.version # Len(file[row.id]) /\ row.version \in 1..Len(file[row.id])
              /\ Newest(row.id, row.version, row.hash)
          BY <3>1 DEF Holds, WorkerHolds, Rests, WorkerNew, RowShape, RowNew, Clear
        <4>2. Len(file[row.id]) \in (row.version + 1)..Len(file[row.id])
          BY <1>3, <4>1 DEF Clear, TypeInv, StoreTyped
        <4> QED BY <4>1, <4>2 DEF Newest, Current
      <3>7. Clear => disk # row.hash
        BY <3>1 DEF Rests, WorkerNew
      <3>8. WorkerTold' /\ WorkerNew'
        BY <2>1, <3>2, <3>3, <3>6, <3>7 DEF WorkerTold, WorkerNew
      <3> QED BY <1>5, <2>1, <3>3, <3>4, <3>5, <3>8 DEF Rests
    <2> QED BY <2>2, <2>3
  <1>16. CASE MergeLocal
    <2>1. /\ w.pc = "merge" /\ Busy(w)
          /\ UNCHANGED <<file, row, ops, conflicts, disk, shadow, events, mishaps>>
      BY <1>16 DEF MergeLocal, server, db, saved, Busy
    <2>2. PICK m \in Merged(Text(shadow), Text(disk), w.got) :
             w' = [w EXCEPT !.text = Text(disk), !.got = m,
                            !.pc = IF m = Nothing THEN "copy" ELSE "write"]
      BY <1>16 DEF MergeLocal
    <2>3. w'.pc \in {"copy", "write"} /\ w'.got = m /\ w'.todo = w.todo /\ Op' = Op
      BY <1>2, <2>2 DEF Thread, Op
    <2>4. RowShape' /\ RowText' = RowText /\ Clear' = Clear
      BY <2>1, ShapeStays DEF Rests, Clear
    <2>5. LastFits' /\ Told' /\ RowNew' /\ Awaited'
      BY <1>1, <2>1, <2>4
         DEF Rests, LastFits, Told, RowNew, Newest, Awaited, Signalled, Queued, Has
    <2>6. WorkerQueue'
      BY <1>3, <2>1, <2>3 DEF WorkerQueue, Has, Busy
    <2>7. Clear => m # row.hash /\ disk # row.hash
      <3> SUFFICES ASSUME Clear PROVE m # row.hash /\ disk # row.hash
        OBVIOUS
      <3>1. row.hash \in Texts /\ shadow = row.hash /\ w.got # row.hash /\ disk # row.hash
        BY <2>1 DEF Clear, Rests, RowShape, WorkerNew
      <3>2. Text(shadow) = row.hash /\ Nothing # row.hash
        BY <3>1, TextIsNotNothing
      <3> QED BY <2>2, <3>1, <3>2, MergedIsNew
    <2>8. WorkerTold' /\ WorkerNew'
      BY <2>1, <2>3, <2>4, <2>7 DEF WorkerTold, WorkerNew
    <2> QED BY <1>5, <2>1, <2>4, <2>5, <2>6, <2>8 DEF Rests
  <1>17. CASE WriteMerged
    <2>1. /\ w.pc = "write" /\ Busy(w) /\ UNCHANGED <<file, row, ops, conflicts, shadow, mishaps>>
          /\ disk' = w.got /\ events' = Noticed("modified") /\ w' = [w EXCEPT !.pc = "put"]
      BY <1>17 DEF WriteMerged, server, db, Busy
    <2>2. w'.pc = "put" /\ w'.got = w.got /\ w'.todo = w.todo /\ Op' = Op
      BY <1>2, <2>1 DEF Thread, Op
    <2>3. Signalled'
      <3>1. events \in Seq({"modified", "deleted"})
        BY DEF TypeInv, DataTyped
      <3>2. events' # <<>>
        BY <2>1, <3>1 DEF Noticed
      <3> QED BY <3>2 DEF Signalled
    <2>4. RowShape' /\ RowText' = RowText /\ Clear' = Clear
      BY <2>1, ShapeStays DEF Rests, Clear
    <2>5. Clear => w.got # row.hash /\ Has("upload")
      BY <1>6, <2>1 DEF Rests, WorkerNew
    <2>6. LastFits' /\ Told' /\ RowNew' /\ Awaited'
      BY <1>1, <2>1, <2>3, <2>4, <2>5 DEF Rests, LastFits, Told, RowNew, Newest, Awaited, Queued, Has
    <2>7. WorkerQueue'
      BY <1>3, <2>1, <2>2 DEF WorkerQueue, Has, Busy
    <2>8. WorkerTold' /\ WorkerNew'
      BY <2>1, <2>2, <2>4, <2>5 DEF WorkerTold, WorkerNew
    <2> QED BY <1>5, <2>1, <2>4, <2>6, <2>7, <2>8 DEF Rests
  <1>18. CASE PutMerged \/ PutMergedLost
    <2> DEFINE a == Upload(w.id, w.ver, w.got)
    <2>1. /\ w.pc = "put" /\ Busy(w) /\ w.got \in Texts /\ w.got \in MaybeText /\ w.id \in Ids
          /\ UNCHANGED <<row, ops, conflicts, disk, shadow, events>>
      BY <1>18 DEF PutMerged, PutMergedLost, db, saved, Busy, TypeInv, WorkerTyped, MaybeText
    <2>2. /\ Answer(a, w.id, w.ver, w.got)
          /\ UNCHANGED file \/ file' = [file EXCEPT ![w.id] = Append(@, w.got)]
      <3>1. MaybeApplied(a)
        BY <1>18 DEF PutMerged, PutMergedLost, MaybeApplied
      <3> QED BY <1>2, <2>1, <3>1, UploadAnswer, UploadAdds
    <2>3. \/ UNCHANGED mishaps /\ w' = [w EXCEPT !.pc = "copy"]
          \/ /\ Applied(a) /\ mishaps' = mishaps \cup Outdated(a, w.id, w.got)
             /\ \/ w' = [w EXCEPT !.pc = "copy"]
                \/ a.code \in {"ok", "replay"} /\ w' = [w EXCEPT !.pc = "saveMerged", !.ver = a.ver]
      BY <1>18 DEF PutMerged, PutMergedLost
    <2> HIDE DEF a
    <2>4. UNCHANGED mishaps
      BY <2>3, MishapNames DEF Quiet
    <2>5. Clear => w.got # row.hash /\ disk # row.hash /\ Has("upload")
      BY <1>6, <2>1 DEF Rests, WorkerNew
    <2>6. RowShape' /\ LastFits' /\ Told' /\ RowNew' /\ Awaited' /\ Clear' = Clear
      BY <1>1, <2>1, <2>2, <2>4, <2>5, SentRests
    <2>7. /\ w'.pc \in {"copy", "saveMerged"} /\ w'.id = w.id /\ w'.got = w.got
          /\ w'.todo = w.todo /\ Op' = Op
      BY <1>2, <2>3 DEF Thread, Op
    <2>8. WorkerQueue'
      BY <1>3, <2>1, <2>7 DEF WorkerQueue, Has, Busy
    <2>9. WorkerNew'
      BY <2>1, <2>5, <2>6, <2>7 DEF WorkerNew
    <2>10. WorkerTold'
      <3>1. CASE w' = [w EXCEPT !.pc = "copy"]
        <4>1. w'.pc = "copy"
          BY <1>2, <3>1 DEF Thread
        <4> QED BY <4>1 DEF WorkerTold
      <3>2. CASE /\ Applied(a) /\ mishaps' = mishaps \cup Outdated(a, w.id, w.got)
                 /\ a.code \in {"ok", "replay"} /\ w' = [w EXCEPT !.pc = "saveMerged", !.ver = a.ver]
        <4>1. w'.pc = "saveMerged" /\ w'.ver = a.ver
          BY <1>2, <3>2 DEF Thread
        <4>2. a.ver = Len(file'[w.id])
          BY <1>2, <2>1, <2>2, <3>2, AnswerIsVersion
        <4>3. HeardNext(w'.id, w'.ver) /\ NewestNext(w'.id, w'.ver, w'.got)
          BY <2>1, <2>7, <4>1, <4>2, LastIsNewest DEF Grows
        <4>4. disk = w.got \/ Retold
          BY <2>1 DEF Rests, WorkerTold
        <4> QED BY <2>1, <2>4, <2>7, <4>1, <4>3, <4>4
                DEF WorkerTold, Retold, Signalled, Heard, HeardNext, Newest, NewestNext
      <3> QED BY <2>3, <3>1, <3>2
    <2> QED BY <1>5, <2>1, <2>6, <2>8, <2>9, <2>10 DEF Rests
  <1>19. CASE ConflictCopy
    <2>1. /\ Busy(w) /\ OpDone /\ removeOp /\ conflicts' # {}
          /\ UNCHANGED <<file, row, shadow, disk, events, mishaps>>
      BY <1>19 DEF ConflictCopy, addConflict, server, Busy
    <2>2. RowShape' /\ RowNew' /\ Awaited'
      BY <2>1, ShapeStays DEF Rests, RowNew, Awaited, Clear
    <2> QED BY <1>5, <2>1, <2>2, FinishedRests
  <1> QED BY <1>7, <1>8, <1>9, <1>10, <1>11, <1>12, <1>13, <1>14, <1>15, <1>16, <1>17, <1>18, <1>19
          DEF Worker

-----------------------------------------------------------------------------
(* At rest.                                                                *)

\* The first state: no file, or one that is the version of its row.
LEMMA RestInvInit == Init => RestInv
  <1> SUFFICES ASSUME Init PROVE Rests
    BY DEF RestInv
  <1>1. ops = <<>> /\ w.pc = "idle" /\ d.pc = "idle" /\ u.pc = "idle"
    BY DEF Init, Task
  <1>2. LastFits /\ WorkerQueue /\ WorkerTold /\ WorkerNew /\ DownloadRest /\ DialogRest
    BY <1>1 DEF LastFits, WorkerQueue, WorkerTold, WorkerNew, DownloadRest, DialogRest, Busy
  <1>3. CASE row = NoRow /\ disk = Nothing
    <2>1. row.id = NoId /\ row.hash = Nothing
      BY <1>3 DEF NoRow, EmptyRow, NoId
    <2> QED BY <1>2, <1>3, <2>1 DEF Rests, RowShape, RowText, Told, RowNew, Awaited, Clear
  <1>4. CASE /\ file = [i \in Ids |-> IF i = 1 THEN <<{}>> ELSE <<>>]
             /\ row = [id |-> 1, hash |-> {}, version |-> 1, deleted |-> FALSE]
             /\ disk = {} /\ shadow = {}
    <2>1. row.id = 1 /\ row.hash = {} /\ row.version = 1 /\ 1 # NoId /\ {} \in Texts
      BY <1>4 DEF NoId, Texts
    <2>2. file[1] = <<{}>>
      BY <1>4, EngineAssumption
    <2>3. Len(file[1]) = 1 /\ file[1][1] = {}
      BY <2>2
    <2>4. RowText = {} /\ {} # Nothing
      BY <2>1, <2>3 DEF RowText, Nothing
    <2>5. RowShape /\ Told
      BY <1>4, <2>1, <2>3, <2>4 DEF RowShape, Told
    <2>6. RowNew /\ Awaited
      BY <2>1, <2>3, <2>4 DEF RowNew, Awaited, Newest
    <2> QED BY <1>2, <2>5, <2>6 DEF Rests
  <1> QED BY <1>3, <1>4 DEF Init

\* Every step leaves something that remembers what is left to do.
LEMMA RestInvNext ==
    ASSUME TypeInv, RowInv, MadeInv, RestInv, [Next]_vars
    PROVE  RestInv'
  <1> SUFFICES ASSUME Quiet' PROVE Rests'
    BY DEF RestInv
  <1>1. Rests /\ Holds /\ Calm' /\ Grows
    BY QuietBefore, TypeInvNext DEF RestInv, RowInv, Quiet, Calm, Apart
  <1>2. CASE Poll
    <2>1. CASE UNCHANGED <<news, d, mishaps>>
      BY <1>1, <1>2, <2>1, UserRests
    <2>2. CASE ~UNCHANGED <<news, d, mishaps>>
      BY <1>1, <1>2, <2>2, PollRests
    <2> QED BY <2>1, <2>2
  <1>3. CASE \E i \in Ids : onWsEvent(i)
    <2>1. ~UNCHANGED <<news, d, mishaps>>
      BY <1>3 DEF onWsEvent, Task
    <2> QED BY <1>1, <1>3, <2>1, PollRests
  <1> QED BY <1>1, <1>2, <1>3, UserRests, ModesRest, OthersRest, DownloadRests, DialogRests, WorkerRests
          DEF Next, Faults, User

\* When nothing is queued, unread, unresolved or under way, the file on disk is the newest
\* version on the server, whatever was lost, failed or interleaved, unless a mishap happened:
\* no step of the engine takes an operation from the queue, an id from the feed or a
\* conflict from its table while the file or the row is behind.
THEOREM AtRestSyncedCorrect == Spec => []AtRestSynced
  <1>1. TypeInv /\ RestInv => AtRestSynced
    <2> SUFFICES ASSUME TypeInv, RestInv, AtRest, mishaps = {} PROVE Synced
      BY DEF AtRestSynced
    <2>1. Rests
      BY DEF RestInv, Quiet
    <2>2. /\ events = <<>> /\ ops = <<>> /\ news = {} /\ conflicts = {} /\ ~Busy(d)
          /\ \A k : ~Has(k)
      BY DEF AtRest, Busy, Has
    <2>3. disk = RowText
      BY <2>1, <2>2 DEF Rests, Told, Queued, Signalled
    <2>4. CASE row.id = NoId
      BY <2>3, <2>4 DEF RowText, Synced
    <2>5. CASE row.id # NoId
      <3>1. row.version \in 1..Len(file[row.id]) /\ row.version = Len(file[row.id])
        BY <2>1, <2>2, <2>5 DEF Rests, RowShape, Awaited, Clear
      <3>2. file[row.id] # <<>>
        BY <3>1
      <3> QED BY <2>3, <2>5, <3>1, <3>2 DEF RowText, Synced, Current
    <2> QED BY <2>4, <2>5
  <1>2. /\ TypeInv /\ RowInv /\ MadeInv /\ RestInv /\ [Next]_vars
           => TypeInv' /\ RowInv' /\ MadeInv' /\ RestInv'
    BY TypeInvNext, RowInvNext, MadeInvNext, RestInvNext
  <1> QED BY <1>1, <1>2, TypeInvInit, RowInvInit, MadeInvInit, RestInvInit, PTL DEF Spec

=============================================================================
