----------------------------- MODULE SyncEngine -----------------------------
(***************************************************************************)
(* The sync engine of one device (plugin/src/SyncEngine.cpp with           *)
(* LocalDb.cpp and FolderWatcher.cpp), for one path of a sync root: the    *)
(* user and the watcher that queue operations, the worker that uploads,    *)
(* merges and deletes, the thread that downloads, the dialog that resolves *)
(* conflicts and the scanner.  They share the disk and the database and    *)
(* hold no lock across their steps.                                        *)
(*                                                                         *)
(* A text is the set of edits it contains: saving adds one to what is on   *)
(* disk, and equal texts have equal hashes.  The server and the other      *)
(* devices are the environment; SyncServer and ChangeDelivery are about    *)
(* them.  "paused" stands for settings_->pauseSync || !isSignedIn().       *)
(***************************************************************************)
EXTENDS Naturals, FiniteSets, Sequences

CONSTANTS
    UserEdits,     \* edits the user of this device may make, each once
    RemoteEdits,   \* edits the other devices may make, each once
    Ids,           \* file ids (UUIDs), numbered so that "the next one" is unique
    Strategies,    \* the ways to resolve a conflict in use
    TimeAccepted,  \* whether the server decodes modified_at "" (this one does not)
    MaxRetries,    \* an operation with more failures behind it than this (25) is dropped
    MaxFaults,     \* bound: requests or answers lost, writes failed, events overflown
    MaxDeletes,    \* bound: deletions, local and remote
    MaxCommands    \* bound: times the user resolves, pauses or closes Notepad++ (or it dies)

Edits == UserEdits \cup RemoteEdits

ASSUME EngineAssumption ==
    /\ "none" \notin Edits
    /\ Ids \subseteq Nat \ {0} /\ 1 \in Ids
    /\ Strategies \subseteq {"keepLocal", "keepRemote", "keepBoth"}
    /\ TimeAccepted \in BOOLEAN
    /\ MaxRetries \in Nat /\ MaxFaults \in Nat /\ MaxDeletes \in Nat /\ MaxCommands \in Nat

VARIABLES
    file,       \* server: the versions of each file id, oldest first
    idem,       \* server: idempotency keys and the version they were answered with
    news,       \* ids in the change feed that this device has not read yet
    row,        \* the files table
    ops,        \* the pending_ops table, in order of id
    conflicts,  \* the conflicts table
    disk,       \* the file in the sync root
    shadow,     \* base\<hash>.shadow: the last synchronized text
    copy,       \* the conflict copies beside the file
    backups,    \* the texts in the backups directory
    events,     \* watcher events not handled yet
    running, paused, online,
    w, d, u,    \* worker, downloading thread, conflict dialog
    used,       \* history: edits made so far
    discarded,  \* history: edits in a file its user deleted
    trampled,   \* history: edits overwritten unread, and never backed up
    mishaps,    \* history: what can leave device and server apart, see Mishaps
    faults, deletes, commands

server == <<file, idem, news>>
db == <<row, ops, conflicts>>
saved == <<disk, shadow, copy, backups>>
mode == <<running, paused, online>>
tasks == <<w, d, u>>
lost == <<discarded, trampled>>
bounds == <<used, faults, deletes, commands>>
vars == <<server, db, saved, events, mode, tasks, lost, mishaps, bounds>>

-----------------------------------------------------------------------------
(* Data.                                                                   *)

\* No file, no hash, no shadow, a tombstone.
Nothing == {"none"}
Texts == SUBSET Edits
Text(t) == t \cap Edits

\* LocalFileState.  hash: localHash and remoteHash, always written together.
NoId == 0
Row == [id : Ids \cup {NoId}, hash : Texts \cup {Nothing}, version : Nat, deleted : BOOLEAN]
EmptyRow == [id |-> NoId, hash |-> Nothing, version |-> 0, deleted |-> FALSE]
NoRow == [EmptyRow EXCEPT !.deleted = TRUE]    \* no row of the table looks like this

PendingOp == [id : Nat, kind : {"upload", "delete"}, retries : Nat]
Copies == {"device", "unsaved", "dated"}
ConflictState == [id : Ids, version : Nat, copy : Copies]

\* The local variables of a thread.  todo: the operations read at the start of a
\* cycle, the first one at hand; text: what is uploaded; got: the server's text or
\* the merged one; st: the row as read; base: base_version; ver: as answered.
Task == [pc |-> "idle", todo |-> <<>>, id |-> NoId, text |-> Nothing, got |-> Nothing,
         st |-> NoRow, base |-> 0, ver |-> 0, copy |-> "device"]

\* unseen: the file changed and no operation was queued for it since; dropped: an
\* operation was given up; reordered: one was carried out before an older one that had
\* failed; replay: an outdated answer was given again; twin: a second file id for the
\* path, the first not forgotten; overlap: two threads worked on the file at once;
\* unnamed: a row without a file id was given the version of a resolved conflict.
Mishaps == {"unseen", "dropped", "reordered", "replay", "twin", "overlap", "unnamed"}

Current(i) == file[i][Len(file[i])]
Live(i) == file[i] # <<>> /\ Current(i) # Nothing

\* Something outside fails.
Fault == faults < MaxFaults /\ faults' = faults + 1

Command == commands < MaxCommands /\ commands' = commands + 1

Busy(t) == t.pc \notin {"idle", "next"}
\* A thread turns to the file while another is at it.
Overlap(others) == IF \E t \in others : Busy(t) THEN {"overlap"} ELSE {}

-----------------------------------------------------------------------------
(* The server and the other devices.                                       *)

Unused == {i \in Ids : file[i] = <<>> /\ row.id # i /\ w.id # i}
NewId == CHOOSE i \in Unused : \A j \in Unused : i <= j

\* The answer to POST and PUT /sync/files.  The idempotency key is a hash of path,
\* base_version and text; it does not name the file id.
Upload(i, base, text) ==
    LET hits == {k \in idem : k.base = base /\ k.text = text}
        answer(code, ver) == [code |-> code, ver |-> ver, file |-> file, idem |-> idem]
        ver == Len(file[i]) + 1
    IN IF ~TimeAccepted THEN answer("refused", 0)
       ELSE IF hits # {} THEN answer("replay", (CHOOSE k \in hits : TRUE).ver)
       ELSE IF (base = 0) # (file[i] = <<>>) THEN answer("refused", 0)
       ELSE IF base # Len(file[i]) THEN answer("conflict", Len(file[i]))
       ELSE [code |-> "ok", ver |-> ver, file |-> [file EXCEPT ![i] = Append(@, text)],
             idem |-> idem \cup {[base |-> base, text |-> text, ver |-> ver]}]

\* A replayed answer may no longer describe the file, or be about another one.
Outdated(a, i, text) ==
    IF a.code = "replay" /\ (a.ver # Len(file[i]) \/ Current(i) # text) THEN {"replay"} ELSE {}

\* The request is carried out (or, lost on its way, is not).
Applied(a) == file' = a.file /\ idem' = a.idem
MaybeApplied(a) == Applied(a) \/ UNCHANGED <<file, idem>>

\* A second file id for the path: the first is live, or this device has to do with it.
Known == news \cup {row.id, d.id, u.id} \cup {c.id : c \in conflicts}
Twin(i) == IF \E j \in Ids \ {i} : Live(j) \/ j \in Known THEN {"twin"} ELSE {}

\* Another device edits the newest text, deletes it, or creates a file at this path.
RemoteWrite(i, text) ==
    /\ file' = [file EXCEPT ![i] = Append(@, text)]
    /\ news' = news \cup {i}
    /\ mishaps' = mishaps \cup Twin(i)
    /\ UNCHANGED <<idem, db, saved, events, mode, tasks, lost, faults, commands>>

RemoteEdit(i, e) ==
    /\ e \in RemoteEdits \ used
    /\ file[i] # <<>> \/ (Cardinality(Unused) > 1 /\ i = NewId)
    /\ RemoteWrite(i, {e} \cup IF file[i] = <<>> THEN {} ELSE Text(Current(i)))
    /\ used' = used \cup {e} /\ UNCHANGED deletes

RemoteDelete(i) ==
    /\ Live(i) /\ deletes < MaxDeletes
    /\ RemoteWrite(i, Nothing)
    /\ deletes' = deletes + 1 /\ UNCHANGED used

-----------------------------------------------------------------------------
(* Queueing.                                                               *)

IdsOf(q) == {q[i].id : i \in DOMAIN q}
LeastNotIn(S) == CHOOSE n \in 1..(Cardinality(S) + 1) :
                    n \notin S /\ \A m \in 1..(n - 1) : m \in S
\* Mutant: without AUTOINCREMENT an id is used again once its row is gone.
NewOpIdReused(others) == LeastNotIn(IdsOf(others))
\* AUTOINCREMENT: an id that nobody else knows, the worker's copy included.
NewOpId(others) == LeastNotIn(IdsOf(others) \cup IdsOf(w.todo))

\* The queue without the operation at one of these places: no two have one kind, or one id.
Without(q, places) ==
    IF places = {} THEN q
    ELSE LET p == CHOOSE p \in places : TRUE
         IN [i \in 1..(Len(q) - 1) |-> IF i < p THEN q[i] ELSE q[i + 1]]

\* An operation queued before for the same path and kind is replaced.  now: the file.
enqueueOp(kind, now) ==
    LET others == Without(ops, {i \in DOMAIN ops : ops[i].kind = kind})
    IN /\ ops' = Append(others, [id |-> NewOpId(others), kind |-> kind, retries |-> 0])
       /\ mishaps' = IF (kind = "delete") = (now = Nothing) THEN mishaps \ {"unseen"}
                     ELSE mishaps \cup {"unseen"}

\* What the watcher has to report (the same event twice changes nothing).
Noticed(e) == IF events # <<>> /\ events[Len(events)] = e THEN events ELSE Append(events, e)

\* The user saves in Notepad++ (onFileSaved), or something else writes the file:
\* then only the watcher, if it runs and its buffer does not overflow, will tell.
Save(e) ==
    /\ e \in UserEdits \ used
    /\ used' = used \cup {e}
    /\ disk' = Text(disk) \cup {e}
    /\ \/ /\ running /\ ~paused /\ enqueueOp("upload", disk')
          /\ events' = Noticed("modified") /\ UNCHANGED faults
       \/ running /\ events' = Noticed("modified") /\ UNCHANGED <<ops, mishaps, faults>>
       \/ /\ IF running THEN Fault ELSE UNCHANGED faults
          /\ mishaps' = mishaps \cup {"unseen"} /\ UNCHANGED <<ops, events>>
    /\ UNCHANGED <<server, row, conflicts, shadow, copy, backups, mode, tasks, lost,
                   deletes, commands>>

\* The user deletes the file, or renames it: the old name of a rename is ignored.
Delete ==
    /\ disk # Nothing /\ deletes < MaxDeletes
    /\ deletes' = deletes + 1
    /\ disk' = Nothing /\ discarded' = discarded \cup disk
    /\ \/ running /\ events' = Noticed("deleted") /\ UNCHANGED mishaps
       \/ mishaps' = mishaps \cup {"unseen"} /\ UNCHANGED events
    /\ UNCHANGED <<server, db, shadow, copy, backups, mode, tasks, trampled, used, faults,
                   commands>>

onFsEvent ==
    /\ running /\ events # <<>>
    /\ events' = Tail(events)
    /\ IF paused THEN mishaps' = mishaps \cup {"unseen"} /\ UNCHANGED ops
       ELSE enqueueOp(IF Head(events) = "modified" THEN "upload" ELSE "delete", disk)
    /\ UNCHANGED <<server, row, conflicts, saved, mode, tasks, lost, bounds>>

\* scannerLoop queues the files the database does not know, and no others.
Scan ==
    /\ running /\ ~paused /\ disk # Nothing /\ row = NoRow
    /\ enqueueOp("upload", disk)
    /\ UNCHANGED <<server, row, conflicts, saved, events, mode, tasks, lost, bounds>>

onFileOpened ==
    /\ running /\ disk # Nothing /\ row = NoRow
    /\ row' = EmptyRow
    /\ UNCHANGED <<server, ops, conflicts, saved, events, mode, tasks, lost, mishaps, bounds>>

-----------------------------------------------------------------------------
(* The worker: workerLoop and processPendingOp.                            *)

workerLoop ==
    /\ running /\ ~paused /\ w.pc = "idle" /\ ops # <<>>
    /\ w' = [Task EXCEPT !.pc = "next", !.todo = ops]
    /\ UNCHANGED <<server, db, saved, events, mode, d, u, lost, mishaps, bounds>>

NextOp ==
    /\ w.pc = "next"
    /\ IF w.todo = <<>> \/ ~online THEN w' = Task /\ UNCHANGED mishaps
       ELSE /\ w' = [w EXCEPT !.pc = IF Head(w.todo).kind = "upload" THEN "read" ELSE "delete"]
            /\ LET ahead == ops # <<>> /\ Head(w.todo).id \in IdsOf(ops) \ {Head(ops).id}
               IN mishaps' = mishaps \cup Overlap({d, u}) \cup
                             IF ahead THEN {"reordered"} ELSE {}
    /\ UNCHANGED <<server, db, saved, events, mode, d, u, lost, bounds>>

OpDone == w' = [Task EXCEPT !.pc = "next", !.todo = Tail(w.todo)]

\* By id: an operation queued for the path meanwhile has another one.
removeOp == ops' = Without(ops, {i \in DOMAIN ops : ops[i].id = Head(w.todo).id})

\* Mutant: the failures are not counted.
opFailedUncounted == OpDone /\ UNCHANGED <<ops, mishaps>>

\* markOpFailed.  The count compared is the one read at the start of the cycle.
opFailed ==
    /\ OpDone
    /\ IF Head(w.todo).retries > MaxRetries
       THEN removeOp /\ mishaps' = mishaps \cup {"dropped"}
       ELSE /\ ops' = [i \in DOMAIN ops |-> IF ops[i].id = Head(w.todo).id
                          THEN [ops[i] EXCEPT !.retries = @ + 1] ELSE ops[i]]
            /\ UNCHANGED mishaps

\* uploadFile reads the file ...
ReadFile ==
    /\ w.pc = "read"
    /\ IF disk = Nothing THEN opFailed
       ELSE w' = [w EXCEPT !.pc = "row", !.text = disk] /\ UNCHANGED <<ops, mishaps>>
    /\ UNCHANGED <<server, row, conflicts, saved, events, mode, d, u, lost, bounds>>

\* ... then its row, and builds the payload: a new id for every attempt to create.
ReadRow ==
    /\ w.pc = "row"
    /\ IF row # NoRow /\ row.hash = w.text THEN OpDone /\ removeOp
       ELSE /\ row.id # NoId \/ Unused # {}
            /\ w' = [w EXCEPT !.pc = "send", !.base = IF row = NoRow THEN 0 ELSE row.version,
                              !.id = IF row.id = NoId THEN NewId ELSE row.id]
            /\ UNCHANGED ops
    /\ UNCHANGED <<server, row, conflicts, saved, events, mode, d, u, lost, mishaps, bounds>>

UploadAnswered ==
    /\ w.pc = "send"
    /\ online' = TRUE
    /\ LET a == Upload(w.id, w.base, w.text)
       IN /\ Applied(a)
          /\ IF a.code = "refused" THEN opFailed
             ELSE /\ w' = [w EXCEPT !.pc = IF a.code = "conflict" THEN "fetch" ELSE "save",
                                    !.ver = a.ver]
                  /\ mishaps' = mishaps \cup Outdated(a, w.id, w.text) \cup
                                 IF a.code = "ok" THEN Twin(w.id) ELSE {}
                  /\ UNCHANGED ops
    /\ UNCHANGED <<news, row, conflicts, saved, events, running, paused, d, u, lost, bounds>>

\* "offline" leaves the operation as it is and ends the cycle.
UploadLost ==
    /\ w.pc = "send" /\ Fault
    /\ MaybeApplied(Upload(w.id, w.base, w.text))
    /\ OpDone /\ online' = FALSE
    /\ UNCHANGED <<news, db, saved, events, running, paused, d, u, lost, mishaps, used, deletes,
                   commands>>

SaveUpload ==
    /\ w.pc = "save"
    /\ row' = [id |-> w.id, hash |-> w.text, version |-> w.ver, deleted |-> FALSE]
    /\ shadow' = w.text
    /\ OpDone /\ removeOp
    /\ UNCHANGED <<server, conflicts, disk, copy, backups, events, mode, d, u, lost, mishaps,
                   bounds>>

Tombstoned(i) == [file EXCEPT ![i] = IF @ = <<>> THEN @ ELSE Append(@, Nothing)]

\* deleteRemote: DELETE names no version, and 404 is as good as 200.
DeleteAnswered ==
    /\ w.pc = "delete"
    /\ w' = [w EXCEPT !.pc = "forget"]
    /\ IF row.id = NoId THEN UNCHANGED <<file, online>>
       ELSE /\ online' = TRUE
            /\ file' = Tombstoned(row.id)
    /\ UNCHANGED <<idem, news, db, saved, events, running, paused, d, u, lost, mishaps, bounds>>

DeleteLost ==
    /\ w.pc = "delete" /\ row.id # NoId /\ Fault
    /\ file' \in {file, Tombstoned(row.id)}
    /\ OpDone /\ online' = FALSE
    /\ UNCHANGED <<idem, news, db, saved, events, running, paused, d, u, lost, mishaps, used,
                   deletes, commands>>

removeFile ==
    /\ w.pc = "forget"
    /\ row' = NoRow
    /\ OpDone /\ removeOp
    /\ UNCHANGED <<server, conflicts, saved, events, mode, d, u, lost, mishaps, bounds>>

-----------------------------------------------------------------------------
(* handleConflict.                                                         *)

\* GET of the current text.  A tombstone has none to decrypt.
FetchCurrent ==
    /\ w.pc = "fetch"
    /\ IF Live(w.id) THEN /\ w' = [w EXCEPT !.pc = "merge", !.got = Current(w.id)]
                          /\ UNCHANGED <<ops, mishaps>>
       ELSE opFailed
    /\ UNCHANGED <<server, row, conflicts, saved, events, mode, d, u, lost, bounds>>

\* ThreeWayMerge::merge, abstractly (module Merge has the algorithm): changes on
\* both sides may or may not overlap.
Merged(b, l, r) ==
    IF l = r \/ r = b THEN {l} ELSE IF l = b THEN {r}
    ELSE {(l \cap r) \cup (l \ b) \cup (r \ b), Nothing}

\* The file is read again; a missing shadow is an empty base.
MergeLocal ==
    /\ w.pc = "merge"
    /\ \E m \in Merged(Text(shadow), Text(disk), w.got) :
          w' = [w EXCEPT !.text = Text(disk), !.got = m,
                         !.pc = IF m = Nothing THEN "copy" ELSE "write"]
    /\ UNCHANGED <<server, db, saved, events, mode, d, u, lost, mishaps, bounds>>

\* Edits on disk that the thread replacing the file has not read.
Trample(known) == trampled' = trampled \cup (Text(disk) \ known)

\* The name of a backup has the time in seconds, and no backup replaces another.
SameSecond == backups # {} /\ UNCHANGED backups

\* The merged text is written, and only then a backup made (of the merged text).
WriteMerged ==
    /\ w.pc = "write"
    /\ disk' = w.got /\ events' = Noticed("modified")
    /\ backups' = backups \cup {w.got} \/ SameSecond
    /\ Trample(w.text)
    /\ w' = [w EXCEPT !.pc = "put"]
    /\ UNCHANGED <<server, db, shadow, copy, mode, d, u, discarded, mishaps, bounds>>

\* POST, PUT or DELETE is answered with an error, the GET fails, or the file cannot be
\* written: the operation is tried again.
OpFails ==
    /\ w.pc \in {"send", "fetch", "write"} \/ (w.pc = "delete" /\ row.id # NoId)
    /\ Fault
    /\ opFailed
    /\ online' = (online \/ w.pc \in {"send", "delete"})
    /\ UNCHANGED <<server, row, conflicts, saved, events, running, paused, d, u, lost,
                   used, deletes, commands>>

\* Any answer but 200 makes it a conflict after all.
PutMerged ==
    /\ w.pc = "put"
    /\ LET a == Upload(w.id, w.ver, w.got)
       IN /\ Applied(a)
          /\ w' = IF a.code \in {"ok", "replay"}
                  THEN [w EXCEPT !.pc = "saveMerged", !.ver = a.ver]
                  ELSE [w EXCEPT !.pc = "copy"]
          /\ mishaps' = mishaps \cup Outdated(a, w.id, w.got)
    /\ UNCHANGED <<news, db, saved, events, mode, d, u, lost, bounds>>

PutMergedLost ==
    /\ w.pc = "put" /\ Fault
    /\ MaybeApplied(Upload(w.id, w.ver, w.got))
    /\ w' = [w EXCEPT !.pc = "copy"]
    /\ UNCHANGED <<news, db, saved, events, mode, d, u, lost, mishaps, used, deletes, commands>>

\* Mutant: the hash is that of the local text, as after an upload.
SaveMergedUnmerged ==
    /\ w.pc = "saveMerged"
    /\ row' = [id |-> w.id, hash |-> w.text, version |-> w.ver,
               deleted |-> row # NoRow /\ row.deleted]
    /\ shadow' = w.got
    /\ OpDone /\ removeOp
    /\ UNCHANGED <<server, conflicts, disk, copy, backups, events, mode, d, u, lost, mishaps,
                   bounds>>

SaveMerged ==
    /\ w.pc = "saveMerged"
    /\ row' = [id |-> w.id, hash |-> w.got, version |-> w.ver,
               deleted |-> row # NoRow /\ row.deleted]
    /\ shadow' = w.got
    /\ OpDone /\ removeOp
    /\ UNCHANGED <<server, conflicts, disk, copy, backups, events, mode, d, u, lost, mishaps,
                   bounds>>

\* One row per file id.
addConflict(i, v, c) ==
    conflicts' = {x \in conflicts : x.id # i} \cup {[id |-> i, version |-> v, copy |-> c]}

ConflictCopy ==
    /\ w.pc = "copy"
    /\ copy' = [copy EXCEPT !["device"] = w.text]
    /\ addConflict(w.id, w.ver, "device")
    /\ OpDone /\ removeOp
    /\ UNCHANGED <<server, row, disk, shadow, backups, events, mode, d, u, lost, mishaps, bounds>>

-----------------------------------------------------------------------------
(* The downloading thread: pullChanges and applyRemoteFile.                *)

\* Mutant: an answered poll does not mean that the server is back.
PollStaysOffline ==
    /\ running /\ ~paused /\ d.pc = "idle"
    /\ \E i \in news :
          /\ news' = news \ {i}
          /\ d' = [Task EXCEPT !.pc = "row", !.id = i, !.got = Current(i), !.ver = Len(file[i])]
          /\ mishaps' = mishaps \cup Overlap({w, u})
    /\ UNCHANGED <<file, idem, db, saved, events, mode, w, u, lost, bounds>>

\* A page of the feed with one foreign change, or none.
Poll ==
    /\ running /\ ~paused /\ d.pc = "idle"
    /\ online' = TRUE
    /\ \/ news = {} /\ UNCHANGED <<news, d, mishaps>>
       \/ \E i \in news :
             /\ news' = news \ {i}
             /\ d' = [Task EXCEPT !.pc = "row", !.id = i, !.got = Current(i),
                                  !.ver = Len(file[i])]
             /\ mishaps' = mishaps \cup Overlap({w, u})
    /\ UNCHANGED <<file, idem, db, saved, events, running, paused, w, u, lost, bounds>>

\* A websocket event about a change the poller has not read: it is handled while paused,
\* too, and the cursor stays where it is.  Unpaused it is one more Poll (the threads that
\* download at the same time are the subject of ChangeDelivery).
onWsEvent(i) ==
    /\ running /\ paused /\ d.pc = "idle" /\ i \in news
    /\ online' = TRUE
    /\ d' = [Task EXCEPT !.pc = "row", !.id = i, !.got = Current(i), !.ver = Len(file[i])]
    /\ mishaps' = mishaps \cup Overlap({w, u})
    /\ UNCHANGED <<server, db, saved, events, running, paused, w, u, lost, bounds>>

PollFails ==
    /\ running /\ ~paused /\ d.pc = "idle" /\ Fault
    /\ online' = FALSE
    /\ UNCHANGED <<server, db, saved, events, running, paused, tasks, lost, mishaps, used, deletes,
                   commands>>

\* The row is found by path, whatever its file id.
CheckRow ==
    /\ d.pc = "row"
    /\ d' = IF row # NoRow /\ row.version >= d.ver THEN Task
            ELSE [d EXCEPT !.st = row, !.pc = IF d.got = Nothing THEN "write" ELSE "compare"]
    /\ UNCHANGED <<server, db, saved, events, mode, w, u, lost, mishaps, bounds>>

\* A file with unsynchronized edits is a conflict.
CompareDisk ==
    /\ d.pc = "compare"
    /\ IF disk \notin {Nothing, d.st.hash} /\ d.st.hash # Nothing
       THEN /\ copy' = [copy EXCEPT !["unsaved"] = disk]
            /\ addConflict(d.id, d.ver, "unsaved")
            /\ d' = Task
       ELSE d' = [d EXCEPT !.pc = "write"] /\ UNCHANGED <<copy, conflicts>>
    /\ UNCHANGED <<server, row, ops, disk, shadow, backups, events, mode, w, u, lost, mishaps,
                   bounds>>

\* Mutant: no backup.
ReplaceUnsaved(text) ==
    /\ disk' = text /\ UNCHANGED <<backups, trampled>>
    /\ events' = IF text # Nothing THEN Noticed("modified")
                 ELSE IF disk # Nothing THEN Noticed("deleted") ELSE events

\* backupReplaced, then DeleteFileW or writeFileAtomic.  The watcher reports both.  The
\* oldest of more than 5 backups go; these bounds have fewer.
Replace(text) ==
    /\ \/ disk = Nothing /\ UNCHANGED <<backups, trampled>>
       \/ disk # Nothing /\ backups' = backups \cup {disk} /\ UNCHANGED trampled
       \/ disk # Nothing /\ SameSecond /\ Trample(text)
    /\ disk' = text
    /\ events' = IF text # Nothing THEN Noticed("modified")
                 ELSE IF disk # Nothing THEN Noticed("deleted") ELSE events

ApplyFile ==
    /\ d.pc = "write"
    /\ Replace(d.got)
    /\ d' = [d EXCEPT !.pc = "save"]
    /\ UNCHANGED <<server, db, shadow, copy, mode, w, u, discarded, mishaps, bounds>>

\* upsertFile over the row as it was read.  A tombstone of an unknown file leaves
\* no row.
ApplyRow ==
    /\ d.pc = "save"
    /\ IF d.got # Nothing
       THEN /\ row' = [id |-> d.id, hash |-> d.got, version |-> d.ver, deleted |-> FALSE]
            /\ shadow' = d.got
       ELSE /\ row' = IF d.st = NoRow THEN row
                      ELSE [d.st EXCEPT !.deleted = TRUE, !.version = d.ver]
            /\ UNCHANGED shadow
    /\ d' = Task
    /\ UNCHANGED <<server, ops, conflicts, disk, copy, backups, events, mode, w, u, lost,
                   mishaps, bounds>>

-----------------------------------------------------------------------------
(* resolveConflict, called by the conflicts dialog.                        *)

\* keepLocal: the copy replaces the file, without a backup, before the PUT.
KeepLocal(c) ==
    /\ "keepLocal" \in Strategies /\ running /\ u.pc = "idle" /\ Command
    /\ copy[c.copy] # Nothing
    /\ disk' = copy[c.copy] /\ events' = Noticed("modified")
    /\ Trample(copy[c.copy])
    /\ u' = [Task EXCEPT !.pc = "put", !.id = c.id, !.text = copy[c.copy], !.st = row,
                         !.base = c.version]
    /\ mishaps' = mishaps \cup Overlap({w, d})
    /\ UNCHANGED <<server, db, shadow, copy, backups, mode, w, d, discarded, used, faults,
                   deletes>>

\* A refused or lost PUT leaves the conflict where it was.
PutLocal ==
    /\ u.pc = "put"
    /\ LET a == Upload(u.id, u.base, u.text)
       IN /\ Applied(a)
          /\ u' = IF a.code \in {"ok", "replay"} THEN [u EXCEPT !.pc = "save", !.ver = a.ver]
                  ELSE Task
          /\ mishaps' = mishaps \cup Outdated(a, u.id, u.text)
    /\ UNCHANGED <<news, db, saved, events, mode, w, d, lost, bounds>>

PutLocalLost ==
    /\ u.pc = "put" /\ Fault
    /\ MaybeApplied(Upload(u.id, u.base, u.text))
    /\ u' = Task
    /\ UNCHANGED <<news, db, saved, events, mode, w, d, lost, mishaps, used, deletes, commands>>

\* The end of resolveConflict, where the row, if there is one, is rewritten from st.  Its
\* file id is not: a row that onFileOpened made since the file was deleted has none.
Resolved(st, text) ==
    /\ IF st = NoRow THEN UNCHANGED <<row, shadow, mishaps>>
       ELSE /\ row' = [st EXCEPT !.hash = text, !.version = u.ver] /\ shadow' = text
            /\ mishaps' = mishaps \cup IF st.id = NoId THEN {"unnamed"} ELSE {}
    /\ conflicts' = {c \in conflicts : c.id # u.id}
    /\ u' = Task
    /\ UNCHANGED <<server, ops, disk, copy, backups, events, mode, w, d, lost, bounds>>

SaveLocal == u.pc = "save" /\ Resolved(u.st, u.text)

\* keepRemote and keepBoth fetch the current text first (a tombstone has none).
FetchRemote(c, strategy) ==
    /\ strategy \in Strategies \ {"keepLocal"} /\ running /\ u.pc = "idle" /\ Command
    /\ Live(c.id)
    /\ u' = [Task EXCEPT !.pc = IF strategy = "keepBoth" THEN "rename" ELSE "write",
                         !.id = c.id, !.got = Current(c.id), !.ver = Len(file[c.id]),
                         !.copy = c.copy]
    /\ mishaps' = mishaps \cup Overlap({w, d})
    /\ UNCHANGED <<server, db, saved, events, mode, w, d, lost, used, faults, deletes>>

\* MOVEFILE_REPLACE_EXISTING to a name that holds the date: the copy kept for
\* another conflict of that day goes.
RenameCopy ==
    /\ u.pc = "rename"
    /\ LET c == copy[u.copy]
       IN IF c = Nothing THEN UNCHANGED <<copy, trampled>>
          ELSE /\ copy' = [copy EXCEPT ![u.copy] = Nothing, !["dated"] = c]
               /\ trampled' = trampled \cup (Text(copy["dated"]) \ c)
    /\ u' = [u EXCEPT !.pc = "write"]
    /\ UNCHANGED <<server, db, disk, shadow, backups, events, mode, w, d, discarded, mishaps,
                   bounds>>

WriteRemote ==
    /\ u.pc = "write"
    /\ Replace(u.got)
    /\ u' = [u EXCEPT !.pc = "saveRemote"]
    /\ UNCHANGED <<server, db, shadow, copy, mode, w, d, discarded, mishaps, bounds>>

SaveRemote == u.pc = "saveRemote" /\ Resolved(row, u.got)

-----------------------------------------------------------------------------
(* Modes.                                                                  *)

setPaused ==
    /\ running /\ paused' = ~paused
    /\ IF paused THEN UNCHANGED commands ELSE Command
    /\ UNCHANGED <<server, db, saved, events, running, online, tasks, lost, mishaps, used, faults,
                   deletes>>

\* Notepad++ ends between any two steps; the disk and the database stay, and with it
\* the cursor, which moves at the end of pullChanges.
Stop ==
    /\ running /\ Command
    /\ running' = FALSE
    /\ w' = Task /\ d' = Task /\ u' = Task
    /\ events' = <<>>
    /\ mishaps' = IF events = <<>> THEN mishaps ELSE mishaps \cup {"unseen"}
    /\ news' = IF d.pc = "idle" THEN news ELSE news \cup {d.id}
    /\ UNCHANGED <<file, idem, db, saved, paused, online, lost, used, faults,
                   deletes>>

Start ==
    /\ ~running
    /\ running' = TRUE /\ online' = TRUE
    /\ UNCHANGED <<server, db, saved, events, paused, tasks, lost, mishaps, bounds>>

-----------------------------------------------------------------------------
\* No file, or an empty one of another device that has been downloaded.
Init ==
    /\ \/ /\ file = [i \in Ids |-> <<>>] /\ row = NoRow
          /\ disk = Nothing /\ shadow = Nothing
       \/ /\ file = [i \in Ids |-> IF i = 1 THEN <<{}>> ELSE <<>>]
          /\ row = [id |-> 1, hash |-> {}, version |-> 1, deleted |-> FALSE]
          /\ disk = {} /\ shadow = {}
    /\ idem = {} /\ news = {} /\ ops = <<>> /\ conflicts = {}
    /\ copy = [c \in Copies |-> Nothing] /\ backups = {}
    /\ events = <<>>
    /\ running = TRUE /\ paused = FALSE /\ online = TRUE
    /\ w = Task /\ d = Task /\ u = Task
    /\ discarded = {} /\ trampled = {} /\ mishaps = {}
    /\ used = {} /\ faults = 0 /\ deletes = 0 /\ commands = 0

Worker ==
    \/ workerLoop \/ NextOp \/ ReadFile \/ ReadRow \/ UploadAnswered \/ SaveUpload
    \/ DeleteAnswered \/ removeFile \/ FetchCurrent \/ MergeLocal \/ WriteMerged
    \/ PutMerged \/ SaveMerged \/ ConflictCopy
Downloader == CheckRow \/ CompareDisk \/ ApplyFile \/ ApplyRow
Dialog ==
    \/ \E c \in conflicts : KeepLocal(c) \/ \E s \in Strategies : FetchRemote(c, s)
    \/ PutLocal \/ SaveLocal \/ RenameCopy \/ WriteRemote \/ SaveRemote
Faults ==
    UploadLost \/ DeleteLost \/ OpFails \/ PutMergedLost \/ PutLocalLost \/ PollFails
User == (\E e \in UserEdits : Save(e)) \/ Delete \/ onFileOpened \/ setPaused \/ Stop \/ Start
Others == \E i \in Ids : RemoteDelete(i) \/ \E e \in RemoteEdits : RemoteEdit(i, e)

Next ==
    \/ Worker \/ Poll \/ (\E i \in Ids : onWsEvent(i)) \/ Downloader \/ Dialog
    \/ onFsEvent \/ Scan \/ Faults \/ User \/ Others

Spec == Init /\ [][Next]_vars

\* The threads loop while Notepad++ runs.  Nothing is assumed of the user, of the
\* other devices and of the dialog; requests get answers once MaxFaults are spent.
Fairness == WF_vars(Worker) /\ WF_vars(Poll \/ Downloader) /\ WF_vars(onFsEvent)
FairSpec == Spec /\ Fairness
-----------------------------------------------------------------------------
(* Properties.                                                             *)

\* Every variable holds a value of its type.
TypeOK ==
    /\ file \in [Ids -> Seq(Texts \cup {Nothing})]
    /\ news \subseteq Ids
    /\ row \in Row
    /\ ops \in Seq(PendingOp) /\ Len(ops) <= 2
    /\ conflicts \subseteq ConflictState
    /\ disk \in Texts \cup {Nothing} /\ shadow \in Texts \cup {Nothing}
    /\ copy \in [Copies -> Texts \cup {Nothing}]
    /\ events \in Seq({"modified", "deleted"})
    /\ backups \subseteq Texts /\ used \subseteq Edits /\ mishaps \subseteq Mishaps

InTexts(S) == UNION {Text(t) : t \in S}
Stored == InTexts(UNION {{file[i][v] : v \in DOMAIN file[i]} : i \in Ids})
Copied == InTexts({copy[c] : c \in Copies} \cup backups)

\* No edit disappears: whatever the order in which user, worker, downloading thread
\* and dialog replace the file, every edit made on any device is on disk, in a version
\* on the server, in a conflict copy or in a backup - unless the user deleted the file
\* with it, a thread overwrote a save it had not seen (SyncEngine.cpp 854, 930, 1009) or
\* replaced the file twice within a second (657).
EditsKept ==
    used \subseteq Text(disk) \cup Stored \cup Copied \cup discarded \cup trampled

AtRest ==
    /\ running /\ ~paused /\ events = <<>> /\ ops = <<>> /\ news = {} /\ conflicts = {}
    /\ w.pc = "idle" /\ d.pc = "idle" /\ u.pc = "idle"
    /\ disk = Nothing \/ row # NoRow     \* nothing for the scanner

Synced == IF row.id = NoId THEN disk = Nothing ELSE file[row.id] # <<>> /\ disk = Current(row.id)

\* When nothing is queued, unread, unresolved or under way, the file on disk is the
\* newest version on the server.  The mishaps are the only ways out, and each has a
\* place in the code: a change no event told of, an operation given up after
\* MaxRetries or overtaken by a later one, an outdated replayed answer, a second file
\* id, two threads at once, a version without a file id.
AtRestSynced == AtRest /\ mishaps = {} => Synced

\* The row never claims what the server does not have: the version it names exists,
\* and its hash, against which local edits are detected, is that version's text.
RowTrue ==
    row.id # NoId /\ row.version # 0 /\ mishaps \cap {"replay", "twin", "overlap"} = {} =>
       /\ row.version <= Len(file[row.id])
       /\ row.deleted \/ file[row.id][row.version] = row.hash

\* While the engine runs unpaused the queue empties: an operation is carried out, or
\* dropped after MaxRetries failures, whatever was lost and queued meanwhile.
QueueDrains == ops # <<>> ~> ops = <<>> \/ paused \/ ~running

\* An edit made here reaches the server, or a copy the user can see, unless the engine
\* is paused or stopped, or a mishap happened to the file.
EditsArrive ==
    \A e \in UserEdits :
       e \in used ~> \/ e \in Stored \cup Copied \cup discarded \cup trampled
                    \/ paused \/ ~running \/ mishaps # {}

\* SyncEngine.cpp:711 "server assigns when empty": no upload is given up because of
\* what it says about its time.
UploadsAccepted == "dropped" \notin mishaps
=============================================================================
