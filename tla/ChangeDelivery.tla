--------------------------- MODULE ChangeDelivery ---------------------------
(***************************************************************************)
(* How a write of one device reaches the disk of another: the transaction  *)
(* that commits it (server/internal/store), the websocket hub              *)
(* (server/internal/ws), the delta feed (GET /sync/changes) and the two    *)
(* threads of the plugin that download, the poller and the websocket       *)
(* thread (plugin/src/SyncEngine.cpp).                                     *)
(*                                                                         *)
(* One receiving device.  Its user edits nothing and every write modelled  *)
(* is another device's, so the checks of origin_device_id let everything   *)
(* through and its upload worker has nothing to do.  A content is named by *)
(* the version it was written as, and two contents have different hashes.  *)
(***************************************************************************)
EXTENDS Naturals, FiniteSets, Sequences

CONSTANTS
    Files,
    Txs,          \* request goroutines of the server that write
    Backend,      \* "mem" (one mutex) or "postgres" (a row lock per file)
    PageLimit,    \* rows in one answer of /sync/changes (1000)
    QueueLimit,   \* capacity of a connection's send channel (64)
    WebSocket,    \* settings.webSocketEnabled
    Unreliable,   \* whether a download may fail
    MaxVersion,   \* bound: versions of a file
    MaxSeq,       \* bound: change numbers taken when a transaction begins
    MaxRestarts   \* bound: times Notepad++ is closed or dies

ASSUME DeliveryAssumption ==
    /\ Backend \in {"mem", "postgres"}
    /\ PageLimit \in Nat \ {0} /\ QueueLimit \in Nat
    /\ WebSocket \in BOOLEAN /\ Unreliable \in BOOLEAN
    /\ MaxVersion \in Nat /\ MaxSeq \in Nat /\ MaxRestarts \in Nat

VARIABLES
    head,      \* files table: committed version and deleted flag
    changes,   \* changes table, committed rows
    nextSeq,   \* changes_change_seq_seq
    tx,        \* the server's goroutines
    conn,      \* the device's websocket connection and its send channel
    cursor,    \* last_change_seq in the device's database
    row,       \* the device's files table: remote version and hash of the content
    disk,      \* the content on disk, 0 = no file
    conflict,  \* files with a row in the device's conflicts table
    th,        \* the plugin's threads
    restarts,
    excused,   \* history variable: the version of a file at its last known mishap
    overlapped \* history variable: files that two threads have downloaded at once

storeVars == <<head, changes, nextSeq>>
deviceVars == <<cursor, row, disk, conflict>>
obsVars == <<restarts, excused, overlapped>>
vars == <<storeVars, tx, conn, deviceVars, th, obsVars>>

Threads == {"poller"} \cup IF WebSocket THEN {"ws"} ELSE {}

Change == [seq : Nat, file : Files, version : Nat]
HeadRow == [version : Nat, deleted : BOOLEAN]
\* hash: localHash; it and remoteHash are always written together.
Row == [version : Nat, hash : Nat]
NoRow == [version |-> 0, hash |-> 0]

Tx == [pc : {"locked", "numbered", "committed"}, file : Files, deleted : BOOLEAN, seq : Nat]
IdleTx == [pc |-> "idle"]

\* pulling: in pullChanges, as opposed to one event; since: the cursor the page was
\* asked with; latest: its latest_seq; todo: files still to download; got: the
\* answer to GET /sync/files/{id} for the file at hand; st: its local row.
ThreadPCs == {"idle", "pull", "item", "check", "compare", "write", "save"}
Thread == [pc : ThreadPCs, pulling : BOOLEAN, since : Nat, latest : Nat,
           todo : Seq(Files), got : HeadRow, st : Row]
Idle == [pc |-> "idle", pulling |-> FALSE, since |-> 0, latest |-> 0, todo |-> <<>>,
         got |-> [version |-> 0, deleted |-> FALSE], st |-> NoRow]

\* What a file with this head has on disk.
Content(h) == IF h.deleted THEN 0 ELSE h.version
-----------------------------------------------------------------------------
(* The server.                                                             *)

\* What a commit makes visible.
Commit(f, d, seq) ==
    /\ head' = [head EXCEPT ![f] = [version |-> @.version + 1, deleted |-> d]]
    /\ changes' = changes \cup {[seq |-> seq, file |-> f, version |-> head[f].version + 1]}

\* store.Mem: the whole write under m.mu.
MemWrite(t, f, d) ==
    /\ Backend = "mem" /\ tx[t] = IdleTx /\ head[f].version < MaxVersion
    /\ Commit(f, d, nextSeq)
    /\ nextSeq' = nextSeq + 1
    /\ tx' = [tx EXCEPT ![t] = [pc |-> "committed", file |-> f, deleted |-> d, seq |-> nextSeq]]
    /\ UNCHANGED <<conn, deviceVars, th, obsVars>>

\* store.Postgres: the UPDATE (or the INSERT of a new id) locks the row until the
\* transaction ends and takes a number for files.change_seq ...
LockRow(t, f, d) ==
    /\ Backend = "postgres" /\ tx[t] = IdleTx
    /\ head[f].version < MaxVersion /\ nextSeq < MaxSeq
    /\ \A u \in Txs : tx[u].pc \in {"locked", "numbered"} => tx[u].file # f
    /\ nextSeq' = nextSeq + 1
    /\ tx' = [tx EXCEPT ![t] = [pc |-> "locked", file |-> f, deleted |-> d, seq |-> nextSeq]]
    /\ UNCHANGED <<head, changes, conn, deviceVars, th, obsVars>>

\* ... insertChangeRow takes the next one for the row of the feed ...
InsertChangeRow(t) ==
    /\ tx[t].pc = "locked"
    /\ nextSeq' = nextSeq + 1
    /\ tx' = [tx EXCEPT ![t].pc = "numbered", ![t].seq = nextSeq]
    /\ UNCHANGED <<head, changes, conn, deviceVars, th, obsVars>>

\* ... and both become visible when the transaction commits.  (Mishap: a higher
\* number is visible already.)
CommitTx(t) ==
    /\ tx[t].pc = "numbered"
    /\ Commit(tx[t].file, tx[t].deleted, tx[t].seq)
    /\ tx' = [tx EXCEPT ![t].pc = "committed"]
    /\ excused' = IF \E c \in changes : c.seq > tx[t].seq
                  THEN [excused EXCEPT ![tx[t].file] = head[tx[t].file].version + 1]
                  ELSE excused
    /\ UNCHANGED <<nextSeq, conn, deviceVars, th, restarts, overlapped>>

\* The goroutine ends early: an open transaction is rolled back, the numbers it
\* took are lost, a committed write stays without its event.
Die(t) ==
    /\ tx[t] # IdleTx
    /\ tx' = [tx EXCEPT ![t] = IdleTx]
    /\ UNCHANGED <<storeVars, conn, deviceVars, th, obsVars>>

\* Mutant: the channel grows instead of dropping.
PublishUnbounded(t) ==
    /\ tx[t].pc = "committed"
    /\ tx' = [tx EXCEPT ![t] = IdleTx]
    /\ conn' = IF conn.up THEN [conn EXCEPT !.queue = Append(@, tx[t].file)] ELSE conn
    /\ UNCHANGED <<storeVars, deviceVars, th, obsVars>>

\* Hub.Publish: the event is dropped when the send channel is full.
Publish(t) ==
    /\ tx[t].pc = "committed"
    /\ tx' = [tx EXCEPT ![t] = IdleTx]
    /\ conn' = IF conn.up /\ Len(conn.queue) < QueueLimit
               THEN [conn EXCEPT !.queue = Append(@, tx[t].file)] ELSE conn
    /\ UNCHANGED <<storeVars, deviceVars, th, obsVars>>

-----------------------------------------------------------------------------
(* The websocket connection.                                               *)

Connect ==
    /\ WebSocket /\ ~conn.up
    /\ conn' = [up |-> TRUE, queue |-> <<>>]
    /\ UNCHANGED <<storeVars, tx, deviceVars, th, obsVars>>

\* Events in the channel of a connection that breaks are gone.
Disconnect ==
    /\ conn.up
    /\ conn' = [up |-> FALSE, queue |-> <<>>]
    /\ UNCHANGED <<storeVars, tx, deviceVars, th, obsVars>>

\* onWsEvent: the websocket thread turns to the event's file.
onWsEvent ==
    /\ WebSocket /\ th["ws"].pc = "idle" /\ conn.queue # <<>>
    /\ conn' = [conn EXCEPT !.queue = Tail(@)]
    /\ th' = [th EXCEPT !["ws"].pc = "item", !["ws"].todo = <<Head(conn.queue)>>]
    /\ UNCHANGED <<storeVars, tx, deviceVars, obsVars>>

-----------------------------------------------------------------------------
(* pullChanges and applyRemoteFile.  No lock is held across their steps.   *)

Pulling == [Idle EXCEPT !.pc = "pull", !.pulling = TRUE, !.since = cursor]

\* pollerLoop's timer.
Poll ==
    /\ th["poller"].pc = "idle"
    /\ th' = [th EXCEPT !["poller"] = Pulling]
    /\ UNCHANGED <<storeVars, tx, conn, deviceVars, obsVars>>

\* ListChangesSince: the first PageLimit rows beyond `since' ...
Newer(since) == {c \in changes : c.seq > since}
FirstRows(since) ==
    {c \in Newer(since) : Cardinality({d \in Newer(since) : d.seq < c.seq}) < PageLimit}

\* ... in order.  Numbers are distinct, so there is one such sequence.
Pages(since) ==
    LET rows == FirstRows(since)
    IN {p \in [1..Cardinality(rows) -> rows] :
          /\ \A i, j \in DOMAIN p : i < j => p[i].seq < p[j].seq
          /\ \A c \in rows : \E i \in DOMAIN p : p[i] = c}

\* Mutant: latest_seq is that of the feed, not of the page.
PullReplyLatestOfFeed(t) ==
    /\ th[t].pc = "pull"
    /\ \E page \in Pages(th[t].since) :
          th' = [th EXCEPT ![t].pc = "item",
                           ![t].todo = [i \in DOMAIN page |-> page[i].file],
                           ![t].latest = nextSeq - 1]
    /\ UNCHANGED <<storeVars, tx, conn, deviceVars, obsVars>>

\* handleChanges answers a page and the number of its last row.
PullReply(t) ==
    /\ th[t].pc = "pull"
    /\ \E page \in Pages(th[t].since) :
          th' = [th EXCEPT ![t].pc = "item",
                           ![t].todo = [i \in DOMAIN page |-> page[i].file],
                           ![t].latest = IF page = <<>> THEN th[t].since
                                         ELSE page[Len(page)].seq]
    /\ UNCHANGED <<storeVars, tx, conn, deviceVars, obsVars>>

PullFail(t) ==
    /\ th[t].pc = "pull"
    /\ th' = [th EXCEPT ![t] = Idle]
    /\ UNCHANGED <<storeVars, tx, conn, deviceVars, obsVars>>

\* Mutant: the cursor is never saved.
FinishPullForgets(t) ==
    /\ th[t].pc = "item" /\ th[t].todo = <<>>
    /\ th' = [th EXCEPT ![t] = Idle]
    /\ UNCHANGED <<storeVars, tx, conn, deviceVars, obsVars>>

\* The end of pullChanges: the cursor moves whatever became of the items.
FinishPull(t) ==
    /\ th[t].pc = "item" /\ th[t].todo = <<>>
    /\ cursor' = IF th[t].pulling /\ th[t].latest > 0 THEN th[t].latest ELSE cursor
    /\ th' = [th EXCEPT ![t] = Idle]
    /\ UNCHANGED <<storeVars, tx, conn, row, disk, conflict, obsVars>>

\* applyRemoteFile, in steps.  The file at hand is the first of todo.
FileAt(t) == Head(th[t].todo)
Mishap(f) == [excused EXCEPT ![f] = head[f].version]
ItemDone(t) == [th[t] EXCEPT !.pc = "item", !.todo = Tail(@)]

\* (Mishap: the other thread is at the same file.)
Applying(t, f) ==
    th[t].pc \in {"check", "compare", "write", "save"} /\ FileAt(t) = f

GetFile(t) ==
    /\ th[t].pc = "item" /\ th[t].todo # <<>>
    /\ th' = [th EXCEPT ![t].pc = "check", ![t].got = head[FileAt(t)]]
    /\ IF \E u \in Threads : Applying(u, FileAt(t))
       THEN excused' = Mishap(FileAt(t)) /\ overlapped' = overlapped \cup {FileAt(t)}
       ELSE UNCHANGED <<excused, overlapped>>
    /\ UNCHANGED <<storeVars, tx, conn, deviceVars, restarts>>

CheckRow(t) ==
    /\ th[t].pc = "check"
    /\ LET st == row[FileAt(t)]
       IN th' = [th EXCEPT ![t] =
             IF st.version >= th[t].got.version THEN ItemDone(t)
             ELSE [th[t] EXCEPT !.st = st,
                   !.pc = IF th[t].got.deleted THEN "write" ELSE "compare"]]
    /\ UNCHANGED <<storeVars, tx, conn, deviceVars, obsVars>>

\* Mutant: the file on disk is compared with the download, not with the row.
CompareDiskWithDownload(t) ==
    /\ th[t].pc = "compare"
    /\ LET f == FileAt(t)
           edited == disk[f] # 0 /\ th[t].st.hash # 0 /\ disk[f] # th[t].got.version
       IN /\ conflict' = IF edited THEN conflict \cup {f} ELSE conflict
          /\ th' = [th EXCEPT ![t] = IF edited THEN ItemDone(t)
                                     ELSE [th[t] EXCEPT !.pc = "write"]]
    /\ UNCHANGED <<storeVars, tx, conn, cursor, row, disk, obsVars>>

\* A file on disk that is not the one the row describes counts as edited.
CompareDisk(t) ==
    /\ th[t].pc = "compare"
    /\ LET f == FileAt(t)
           edited == disk[f] # 0 /\ th[t].st.hash # 0 /\ disk[f] # th[t].st.hash
       IN /\ conflict' = IF edited THEN conflict \cup {f} ELSE conflict
          /\ th' = [th EXCEPT ![t] = IF edited THEN ItemDone(t)
                                     ELSE [th[t] EXCEPT !.pc = "write"]]
    /\ UNCHANGED <<storeVars, tx, conn, cursor, row, disk, obsVars>>

\* DeleteFileW, whose failure goes unnoticed, or writeFileAtomic.
WriteDisk(t) ==
    /\ th[t].pc = "write"
    /\ \/ disk' = [disk EXCEPT ![FileAt(t)] = Content(th[t].got)] /\ UNCHANGED excused
       \/ /\ Unreliable /\ th[t].got.deleted
          /\ UNCHANGED disk /\ excused' = Mishap(FileAt(t))
    /\ th' = [th EXCEPT ![t].pc = "save"]
    /\ UNCHANGED <<storeVars, tx, conn, cursor, row, conflict, restarts, overlapped>>

\* upsertFile.  A tombstone of a file without a row leaves none.
SaveRow(t) ==
    /\ th[t].pc = "save"
    /\ LET g == th[t].got
       IN row' = [row EXCEPT ![FileAt(t)] =
             IF ~g.deleted THEN [version |-> g.version, hash |-> g.version]
             ELSE IF th[t].st = NoRow THEN @ ELSE [th[t].st EXCEPT !.version = g.version]]
    /\ th' = [th EXCEPT ![t] = ItemDone(t)]
    /\ UNCHANGED <<storeVars, tx, conn, cursor, disk, conflict, obsVars>>

\* Mutant: the result of writeFileAtomic is ignored.
ApplyFailIgnored(t) ==
    /\ Unreliable
    /\ th[t].pc = "write"
    /\ th' = [th EXCEPT ![t].pc = "save"]
    /\ UNCHANGED <<storeVars, tx, conn, deviceVars, obsVars>>

\* applyRemoteFile returns false: no answer, not found, undecryptable, path
\* refused, write failed.  pullChanges goes on; an event falls back to the feed.
ApplyFail(t) ==
    /\ Unreliable
    /\ \/ th[t].pc = "write" /\ ~th[t].got.deleted
       \/ th[t].pc = "item" /\ th[t].todo # <<>>
    /\ th' = [th EXCEPT ![t] = IF th[t].pulling THEN ItemDone(t) ELSE Pulling]
    /\ excused' = IF th[t].pulling THEN Mishap(FileAt(t)) ELSE excused
    /\ UNCHANGED <<storeVars, tx, conn, deviceVars, restarts, overlapped>>

\* Notepad++ ends; what is on disk and in the database stays.
Restart ==
    /\ restarts < MaxRestarts
    /\ restarts' = restarts + 1
    /\ th' = [t \in Threads |-> Idle]
    /\ conn' = [up |-> FALSE, queue |-> <<>>]
    /\ UNCHANGED <<storeVars, tx, deviceVars, excused, overlapped>>

ThreadStep(t) ==
    \/ PullReply(t) \/ FinishPull(t) \/ GetFile(t) \/ CheckRow(t)
    \/ CompareDisk(t) \/ WriteDisk(t) \/ SaveRow(t)

-----------------------------------------------------------------------------
Init ==
    /\ head = [f \in Files |-> [version |-> 0, deleted |-> FALSE]]
    /\ changes = {} /\ nextSeq = 1
    /\ tx = [t \in Txs |-> IdleTx]
    /\ conn = [up |-> FALSE, queue |-> <<>>]
    /\ cursor = 0 /\ conflict = {}
    /\ row = [f \in Files |-> NoRow]
    /\ disk = [f \in Files |-> 0]
    /\ th = [t \in Threads |-> Idle]
    /\ restarts = 0
    /\ excused = [f \in Files |-> 0] /\ overlapped = {}

Next ==
    \/ \E t \in Txs, f \in Files, d \in BOOLEAN : MemWrite(t, f, d) \/ LockRow(t, f, d)
    \/ \E t \in Txs : InsertChangeRow(t) \/ CommitTx(t) \/ Die(t) \/ Publish(t)
    \/ Connect \/ Disconnect \/ onWsEvent
    \/ Poll
    \/ \E t \in Threads : ThreadStep(t) \/ PullFail(t) \/ ApplyFail(t)
    \/ Restart

\* The poller thread runs until the plugin stops, and a server that can be reached
\* again and again is reached in the end.
Fairness ==
    /\ WF_vars(Poll \/ ThreadStep("poller"))
    /\ SF_vars(PullReply("poller"))

Spec == Init /\ [][Next]_vars /\ Fairness
-----------------------------------------------------------------------------
(* Properties.                                                             *)

\* Every variable holds a value of its type, and a connection's channel never more
\* than its capacity.
TypeOK ==
    /\ head \in [Files -> HeadRow]
    /\ changes \subseteq Change
    /\ nextSeq \in Nat
    /\ tx \in [Txs -> Tx \cup {IdleTx}]
    /\ conn.up \in BOOLEAN /\ conn.queue \in Seq(Files) /\ Len(conn.queue) <= QueueLimit
    /\ cursor \in Nat
    /\ row \in [Files -> Row]
    /\ disk \in [Files -> Nat]
    /\ conflict \subseteq Files
    /\ th \in [Threads -> Thread]
    /\ restarts \in 0..MaxRestarts
    /\ excused \in [Files -> Nat] /\ overlapped \subseteq Files

UpToDate(f) == disk[f] = Content(head[f])

\* At rest, with the cursor past every change of the file.
ReadTo(f) ==
    /\ \A t \in Threads : th[t].pc = "idle"
    /\ \A c \in changes : c.file = f => c.seq <= cursor

\* Nothing is skipped: once the device is at rest and its cursor is past every
\* change of a file, the file on disk is the newest version, or a tombstone's
\* absence, or a conflict was recorded.  Events may be dropped or never sent, pages
\* cut, Notepad++ closed between any two steps.
NothingSkipped ==
    \A f \in Files : ReadTo(f) => UpToDate(f) \/ f \in conflict

\* With every mishap allowed, those are the only causes of a gap, and the next
\* write to the file closes it: a file that is behind was last written no later
\* than its last mishap.
GapsAreExcused ==
    \A f \in Files : ReadTo(f) =>
       UpToDate(f) \/ f \in conflict \/ excused[f] = head[f].version

\* The device's database does not take a content for downloaded that is newer than
\* the file on disk: a failure or crash between the two writes leaves the row
\* behind, not ahead (overlapping threads apart), and the edit check of the next
\* download compares with it.
RowNeverAhead ==
    \A f \in Files : disk[f] # 0 => disk[f] >= row[f].hash \/ excused[f] >= row[f].hash

\* A conflict nobody's edit caused comes from a restart or from two threads at the
\* same file, and from nothing else: failed downloads, tombstones, late commits and
\* dropped events cause none.
ConflictsHaveCause == restarts > 0 \/ conflict \subseteq overlapped

\* When the writes stop, the device ends up with the newest version of every file.
EventuallyDelivered == <>[](\A f \in Files : UpToDate(f) \/ f \in conflict)
=============================================================================
