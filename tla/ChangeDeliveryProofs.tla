------------------------ MODULE ChangeDeliveryProofs ------------------------
(***************************************************************************)
(* Proofs about ChangeDelivery, for any number of files, goroutines and     *)
(* versions, any page and channel size: a file that stays behind has an     *)
(* excuse, and without the things that excuse it nothing is skipped; the    *)
(* database never claims a newer content than the disk has; and conflicts   *)
(* nobody's edit caused come from restarts and overlapping threads only.    *)
(***************************************************************************)
EXTENDS ChangeDelivery, FiniteSetTheorems, TLAPS

Places == {"check", "compare", "write", "save"}
Busy(t) == th[t].pc \in Places
\* Thread t has read the row and works on f.
Decided(t, f) == th[t].pc \in {"compare", "write", "save"} /\ FileAt(t) = f
Saving(t, f) == th[t].pc = "save" /\ FileAt(t) = f

Sound(r) == /\ r.pc = "idle" => r = Idle
            /\ r.pc \in Places => r.todo # <<>>
\* Beyond the types: a thread at rest remembers nothing, one at a file has a file.
TypeInv ==
    /\ TypeOK
    /\ conn \in [up : BOOLEAN, queue : Seq(Files)]
    /\ IsFiniteSet(changes)
    /\ \A t \in Threads : Sound(th[t])

\* Numbers are taken in order, and a number a device has read up to is that of a
\* visible row, so that a row with a number taken later is beyond it.
Known(n) == n = 0 \/ \E c \in changes : c.seq = n
Numbered(t) == tx[t].pc = "numbered"
SeqInv ==
    /\ nextSeq >= 1
    /\ \A c \in changes : c.seq < nextSeq
    /\ \A t \in Txs : Numbered(t) =>
          /\ tx[t].seq >= 1 /\ tx[t].seq < nextSeq
          /\ \A c \in changes : c.seq # tx[t].seq
          /\ \A u \in Txs : Numbered(u) /\ u # t => tx[u].seq # tx[t].seq
    /\ Known(cursor) /\ \A t \in Threads : Known(th[t].since) /\ Known(th[t].latest)

\* Nothing on the device is newer than the server's version.
VersionInv ==
    /\ \A f \in Files :
          /\ row[f].hash <= row[f].version /\ row[f].version <= head[f].version
          /\ disk[f] <= head[f].version /\ excused[f] <= head[f].version
    /\ \A t \in Threads, f \in Files : Applying(t, f) =>
          /\ th[t].got.version <= head[f].version
          /\ th[t].got.version = head[f].version => th[t].got = head[f]

\* Two threads at a file: the mishap was noted when the second came.
OverlapInv ==
    \A t, u \in Threads, f \in Files : t # u /\ Applying(t, f) /\ Applying(u, f) =>
       f \in overlapped /\ excused[f] >= th[t].got.version

\* The row a thread has read is still there, and what it wrote is still on disk,
\* unless another thread came by.
StepInv ==
    \A t \in Threads, f \in Files :
       /\ Decided(t, f) =>
             /\ th[t].st.hash <= th[t].st.version /\ th[t].st.version < th[t].got.version
             /\ \/ row[f] = th[t].st
                \/ /\ excused[f] >= th[t].got.version /\ excused[f] >= row[f].version
                   /\ f \in overlapped
       /\ Saving(t, f) /\ ~th[t].got.deleted =>
             disk[f] = th[t].got.version \/ excused[f] >= th[t].got.version

\* Without restarts and overlaps the disk has what the row describes, except
\* between the write and the row's.
Between(f) == \E t \in Threads : Saving(t, f) /\ ~th[t].got.deleted
CauseInv ==
    restarts = 0 => \A f \in Files \ overlapped :
       /\ f \notin conflict
       /\ \A t \in Threads : Saving(t, f) /\ ~th[t].got.deleted => disk[f] = th[t].got.version
       /\ ~Between(f) /\ disk[f] # 0 /\ row[f].hash # 0 => disk[f] = row[f].hash

\* The file is settled until its next version: delivered with nobody about to
\* overwrite it, in conflict, or excused.
Firm(f) ==
    \/ f \in conflict
    \/ excused[f] = head[f].version
    \/ UpToDate(f) /\ \A t \in Threads : Applying(t, f) => th[t].got.version = head[f].version

\* Thread t has f before it, and will see its newest version.
Pending(t, f) ==
    \E i \in DOMAIN th[t].todo :
       th[t].todo[i] = f /\ (Busy(t) /\ i = 1 => th[t].got.version = head[f].version)
\* The pull of thread t will not take the cursor past change c without applying its file.
Sees(t, c) ==
    /\ th[t].pc = "pull" => c.seq > th[t].since
    /\ th[t].pulling /\ th[t].pc \notin {"idle", "pull"} =>
          c.seq > th[t].latest \/ Pending(t, c.file)
Awaited(f) ==
    \E c \in changes : c.file = f /\ c.seq > cursor /\ \A t \in Threads : Sees(t, c)

\* A file that is not settled has a change every pull still sees.
FeedInv ==
    \A f \in Files :
       /\ Firm(f) \/ Awaited(f)
       /\ row[f].version = head[f].version => Firm(f)
       /\ \A t \in Threads :
             Saving(t, f) /\ th[t].got.version = head[f].version => Firm(f)

\* The poller alone, against the store with one mutex, without failures.
Calm == Backend = "mem" /\ WebSocket = FALSE /\ Unreliable = FALSE
CalmInv == /\ \A f \in Files : excused[f] = 0
           /\ \A t \in Txs : tx[t].pc # "numbered" /\ tx[t].pc # "locked"

-----------------------------------------------------------------------------
(* Types.                                                                  *)

\* The poller is there always, the other thread with the setting.
LEMMA ThreadsThere == "poller" \in Threads /\ (WebSocket => "ws" \in Threads)
BY DEF Threads

\* A thread that takes a sound step leaves the threads well-typed.
LEMMA ThreadTyped ==
    ASSUME th \in [Threads -> Thread], \A t \in Threads : Sound(th[t]),
           NEW t \in Threads, NEW r \in Thread, Sound(r), th' = [th EXCEPT ![t] = r]
    PROVE  th' \in [Threads -> Thread] /\ \A u \in Threads : Sound(th'[u])
OBVIOUS

\* A thread at rest is a thread.
LEMMA RestTyped == Idle \in Thread /\ Sound(Idle)
<1>1. NoRow \in Row  BY DEF NoRow, Row
<1>2. [version |-> 0, deleted |-> FALSE] \in HeadRow  BY DEF HeadRow
<1>3. <<>> \in Seq(Files) /\ "idle" \in ThreadPCs  BY DEF ThreadPCs
<1>4. Idle \in Thread  BY <1>1, <1>2, <1>3 DEF Idle, Thread
<1> QED  BY <1>4 DEF Sound, Places, Idle

\* A pull that starts is a thread.
LEMMA PullTyped == cursor \in Nat => Pulling \in Thread /\ Sound(Pulling)
<1> SUFFICES ASSUME cursor \in Nat PROVE Pulling \in Thread /\ Sound(Pulling)  OBVIOUS
<1>1. "pull" \in ThreadPCs  BY DEF ThreadPCs
<1>2. Idle \in Thread  BY RestTyped
<1>3. Pulling = [Idle EXCEPT !.pc = "pull", !.pulling = TRUE, !.since = cursor]  BY DEF Pulling
<1>4. Pulling \in Thread /\ Pulling.pc = "pull"  BY <1>1, <1>2, <1>3 DEF Thread
<1> QED  BY <1>4 DEF Sound, Places

\* The next item, and the next place of the same item.
LEMMA DoneTyped ==
    ASSUME NEW t \in Threads, th[t] \in Thread, th[t].todo # <<>>
    PROVE  /\ ItemDone(t) \in Thread /\ Sound(ItemDone(t)) /\ ItemDone(t).pc = "item"
           /\ ItemDone(t).todo = Tail(th[t].todo)
           /\ \A k \in {"pulling", "since", "latest", "got", "st"} : ItemDone(t)[k] = th[t][k]
<1>1. "item" \in ThreadPCs /\ Tail(th[t].todo) \in Seq(Files)  BY DEF ThreadPCs, Thread
<1>2. ItemDone(t) \in Thread /\ ItemDone(t).pc = "item"  BY <1>1 DEF ItemDone, Thread
<1>3. ItemDone(t).todo = Tail(th[t].todo)  BY DEF ItemDone, Thread
<1>4. \A k \in {"pulling", "since", "latest", "got", "st"} : ItemDone(t)[k] = th[t][k]
  BY DEF ItemDone, Thread
<1> QED  BY <1>2, <1>3, <1>4 DEF Sound, Places

\* A page lists changes, and finitely many.
LEMMA PageTyped ==
    ASSUME TypeInv, NEW since \in Nat, NEW page \in Pages(since)
    PROVE  /\ IsFiniteSet(Newer(since)) /\ FirstRows(since) \subseteq Newer(since)
           /\ Newer(since) \subseteq changes /\ changes \subseteq Change
           /\ page \in Seq(FirstRows(since))
           /\ Len(page) \in Nat /\ DOMAIN page = 1..Len(page)
           /\ \A i \in 1..Len(page) : page[i] \in FirstRows(since)
<1>1. Newer(since) \subseteq changes /\ IsFiniteSet(changes)  BY DEF Newer, TypeInv
<1>2. IsFiniteSet(Newer(since))  BY <1>1, FS_Subset
<1>3. FirstRows(since) \subseteq Newer(since)  BY DEF FirstRows
<1>4. IsFiniteSet(FirstRows(since))  BY <1>2, <1>3, FS_Subset
<1>5. Cardinality(FirstRows(since)) \in Nat  BY <1>4, FS_CardinalityType
<1>6. page \in [1..Cardinality(FirstRows(since)) -> FirstRows(since)]  BY DEF Pages
<1>7. page \in Seq(FirstRows(since))  BY <1>5, <1>6
<1>8. changes \subseteq Change  BY DEF TypeInv, TypeOK
<1> QED  BY <1>1, <1>2, <1>3, <1>7, <1>8

\* What a server step may do to the types.
LEMMA ServerTyped ==
    ASSUME TypeInv, NEW t \in Txs,
           \/ \E f \in Files, d \in BOOLEAN : MemWrite(t, f, d) \/ LockRow(t, f, d)
           \/ InsertChangeRow(t) \/ CommitTx(t) \/ Die(t)
    PROVE  TypeInv'
<1> USE DEF TypeInv, TypeOK, deviceVars, obsVars, storeVars
<1>0. /\ "locked" # "idle" /\ "numbered" # "idle" /\ "committed" # "idle"
      /\ tx[t].pc \in {"locked", "numbered"} => tx[t] \in Tx  BY DEF Tx, IdleTx
<1>1. ASSUME NEW f \in Files, NEW d \in BOOLEAN, NEW n \in Nat, Commit(f, d, n)
      PROVE  /\ head' \in [Files -> HeadRow] /\ changes' \subseteq Change
             /\ IsFiniteSet(changes')
  <2> DEFINE c == [seq |-> n, file |-> f, version |-> head[f].version + 1]
  <2>1. head[f] \in HeadRow  OBVIOUS
  <2>2. head[f].version + 1 \in Nat  BY <2>1 DEF HeadRow
  <2>3. c \in Change  BY <2>2 DEF Change
  <2>4. changes' = changes \cup {c}  BY <1>1 DEF Commit
  <2>5. IsFiniteSet(changes')  BY <2>4, FS_AddElement
  <2>6. [version |-> head[f].version + 1, deleted |-> d] \in HeadRow  BY <2>2 DEF HeadRow
  <2>7. head' = [head EXCEPT ![f] = [version |-> head[f].version + 1, deleted |-> d]]
    BY <1>1 DEF Commit
  <2> QED  BY <2>3, <2>4, <2>5, <2>6, <2>7
<1>2. CASE \E f \in Files, d \in BOOLEAN : MemWrite(t, f, d)
  <2>1. PICK f \in Files, d \in BOOLEAN : MemWrite(t, f, d)  BY <1>2
  <2>2. [pc |-> "committed", file |-> f, deleted |-> d, seq |-> nextSeq] \in Tx  BY DEF Tx
  <2>3. tx' \in [Txs -> Tx \cup {IdleTx}]  BY <2>1, <2>2 DEF MemWrite
  <2>4. nextSeq' \in Nat  BY <2>1 DEF MemWrite
  <2> QED  BY <1>1, <2>1, <2>3, <2>4 DEF MemWrite
<1>3. CASE \E f \in Files, d \in BOOLEAN : LockRow(t, f, d)
  <2>1. PICK f \in Files, d \in BOOLEAN : LockRow(t, f, d)  BY <1>3
  <2>2. [pc |-> "locked", file |-> f, deleted |-> d, seq |-> nextSeq] \in Tx  BY DEF Tx
  <2>3. tx' \in [Txs -> Tx \cup {IdleTx}]  BY <2>1, <2>2 DEF LockRow
  <2>4. nextSeq' \in Nat  BY <2>1 DEF LockRow
  <2> QED  BY <2>1, <2>3, <2>4 DEF LockRow
<1>4. CASE InsertChangeRow(t)
  <2>1. tx[t] \in Tx  BY <1>0, <1>4 DEF InsertChangeRow
  <2>2. [tx[t] EXCEPT !.pc = "numbered", !.seq = nextSeq] \in Tx  BY <2>1 DEF Tx
  <2>3. tx' = [tx EXCEPT ![t] = [tx[t] EXCEPT !.pc = "numbered", !.seq = nextSeq]]
    BY <1>4 DEF InsertChangeRow
  <2>4. tx' \in [Txs -> Tx \cup {IdleTx}]  BY <2>2, <2>3
  <2>5. nextSeq' \in Nat /\ UNCHANGED <<head, changes, conn, deviceVars, th, obsVars>>
    BY <1>4 DEF InsertChangeRow
  <2> QED  BY <2>4, <2>5
<1>5. CASE CommitTx(t)
  <2>1. tx[t] \in Tx  BY <1>0, <1>5 DEF CommitTx
  <2>2. [tx[t] EXCEPT !.pc = "committed"] \in Tx  BY <2>1 DEF Tx
  <2>3. tx' = [tx EXCEPT ![t] = [tx[t] EXCEPT !.pc = "committed"]]  BY <1>5 DEF CommitTx
  <2>4. tx' \in [Txs -> Tx \cup {IdleTx}]  BY <2>2, <2>3
  <2>5. tx[t].file \in Files /\ tx[t].deleted \in BOOLEAN /\ tx[t].seq \in Nat  BY <2>1 DEF Tx
  <2>6. /\ head' \in [Files -> HeadRow] /\ changes' \subseteq Change /\ IsFiniteSet(changes')
    BY <1>1, <1>5, <2>5 DEF CommitTx
  <2>7. excused' \in [Files -> Nat]  BY <1>5, <2>5 DEF CommitTx, HeadRow
  <2> QED  BY <1>5, <2>4, <2>6, <2>7 DEF CommitTx
<1>6. CASE Die(t)
  <2>1. tx' \in [Txs -> Tx \cup {IdleTx}]  BY <1>6 DEF Die
  <2> QED  BY <1>6, <2>1 DEF Die
<1> QED  BY <1>2, <1>3, <1>4, <1>5, <1>6

\* What a step of the connection may do to the types.
LEMMA ConnTyped ==
    ASSUME TypeInv, (\E t \in Txs : Publish(t)) \/ Connect \/ Disconnect \/ onWsEvent \/ Restart
    PROVE  TypeInv'
<1> USE DEF TypeInv, TypeOK, deviceVars, obsVars, storeVars
<1>0. QueueLimit \in Nat /\ MaxRestarts \in Nat  BY DeliveryAssumption
<1>1. CASE \E t \in Txs : Publish(t)
  <2>1. PICK t \in Txs : Publish(t)  BY <1>1
  <2>2. tx[t] \in Tx  BY <2>1 DEF Publish, Tx, IdleTx
  <2>3. tx[t].file \in Files  BY <2>2 DEF Tx
  <2>4. tx' \in [Txs -> Tx \cup {IdleTx}]  BY <2>1 DEF Publish
  <2>5. CASE conn.up /\ Len(conn.queue) < QueueLimit
    <3>1. Append(conn.queue, tx[t].file) \in Seq(Files)
          /\ Len(Append(conn.queue, tx[t].file)) = Len(conn.queue) + 1  BY <2>3
    <3>2. conn' = [conn EXCEPT !.queue = Append(conn.queue, tx[t].file)]
      BY <2>1, <2>5 DEF Publish
    <3>3. Len(conn.queue) + 1 <= QueueLimit  BY <1>0, <2>5
    <3> QED  BY <2>1, <2>4, <3>1, <3>2, <3>3 DEF Publish
  <2>6. CASE ~(conn.up /\ Len(conn.queue) < QueueLimit)
    BY <2>1, <2>4, <2>6 DEF Publish
  <2> QED  BY <2>5, <2>6
<1>2. CASE Connect
  <2>1. conn' \in [up : BOOLEAN, queue : Seq(Files)] /\ conn'.up \in BOOLEAN
        /\ conn'.queue = <<>>
    BY <1>2 DEF Connect
  <2>2. Len(conn'.queue) <= QueueLimit  BY <1>0, <2>1
  <2> QED  BY <1>2, <2>1, <2>2 DEF Connect
<1>3. CASE Disconnect
  <2>1. conn' \in [up : BOOLEAN, queue : Seq(Files)] /\ conn'.up \in BOOLEAN
        /\ conn'.queue = <<>>
    BY <1>3 DEF Disconnect
  <2>2. Len(conn'.queue) <= QueueLimit  BY <1>0, <2>1
  <2> QED  BY <1>3, <2>1, <2>2 DEF Disconnect
<1>4. CASE onWsEvent
  <2>1. "ws" \in Threads  BY <1>4, ThreadsThere DEF onWsEvent
  <2>2. conn.queue \in Seq(Files) /\ conn.queue # <<>>  BY <1>4 DEF onWsEvent
  <2>3. Head(conn.queue) \in Files /\ Tail(conn.queue) \in Seq(Files)
        /\ Len(Tail(conn.queue)) = Len(conn.queue) - 1 /\ Len(conn.queue) \in Nat  BY <2>2
  <2>4. conn' = [conn EXCEPT !.queue = Tail(conn.queue)]  BY <1>4 DEF onWsEvent
  <2>5. /\ conn' \in [up : BOOLEAN, queue : Seq(Files)] /\ conn'.up \in BOOLEAN
        /\ conn'.queue = Tail(conn.queue)  BY <2>3, <2>4
  <2>6. Len(conn'.queue) <= QueueLimit  BY <1>0, <2>3, <2>5
  <2> DEFINE r == [th["ws"] EXCEPT !.pc = "item", !.todo = <<Head(conn.queue)>>]
  <2>7. r \in Thread /\ r.pc = "item"
    <3>1. <<Head(conn.queue)>> \in Seq(Files) /\ "item" \in ThreadPCs  BY <2>3 DEF ThreadPCs
    <3>2. th["ws"] \in Thread  BY <2>1
    <3> QED  BY <3>1, <3>2 DEF Thread
  <2>8. Sound(r)  BY <2>7 DEF Sound, Places
  <2>9. th' = [th EXCEPT !["ws"] = r]  BY <1>4 DEF onWsEvent
  <2>10. th' \in [Threads -> Thread] /\ \A u \in Threads : Sound(th'[u])
    <3> HIDE DEF r
    <3> QED  BY <2>1, <2>7, <2>8, <2>9, ThreadTyped
  <2> QED  BY <1>4, <2>5, <2>6, <2>10 DEF onWsEvent
<1>5. CASE Restart
  <2>1. conn' \in [up : BOOLEAN, queue : Seq(Files)] /\ conn'.up \in BOOLEAN
        /\ conn'.queue = <<>>
    BY <1>5 DEF Restart
  <2>2. Len(conn'.queue) <= QueueLimit  BY <1>0, <2>1
  <2>3. restarts' \in 0..MaxRestarts  BY <1>0, <1>5 DEF Restart
  <2>4. th' \in [Threads -> Thread] /\ \A u \in Threads : Sound(th'[u])
    BY <1>5, RestTyped DEF Restart
  <2> QED  BY <1>5, <2>1, <2>2, <2>3, <2>4 DEF Restart
<1> QED  BY <1>1, <1>2, <1>3, <1>4, <1>5

\* What a step of a downloading thread may do to the types.
LEMMA DownloadTyped ==
    ASSUME TypeInv, NEW t \in Threads,
           ThreadStep(t) \/ PullFail(t) \/ ApplyFail(t) \/ (t = "poller" /\ Poll)
    PROVE  TypeInv'
<1> USE DEF TypeInv, TypeOK, deviceVars, obsVars, storeVars
<1>0. th[t] \in Thread /\ Sound(th[t])  OBVIOUS
<1>1. th[t].todo \in Seq(Files) /\ th[t].got \in HeadRow /\ th[t].st \in Row
      /\ th[t].pc \in ThreadPCs /\ th[t].since \in Nat /\ th[t].latest \in Nat
  BY <1>0 DEF Thread
<1>2. th[t].pc \in Places => th[t].todo # <<>>  BY <1>0 DEF Sound
<1>3. th[t].todo # <<>> => FileAt(t) \in Files  BY <1>1 DEF FileAt
<1>4. ASSUME NEW r \in Thread, Sound(r), th' = [th EXCEPT ![t] = r]
      PROVE  th' \in [Threads -> Thread] /\ \A u \in Threads : Sound(th'[u])
  BY <1>4, ThreadTyped
<1>5. ASSUME NEW f \in Files PROVE Mishap(f) \in [Files -> Nat]
  BY DEF Mishap, HeadRow
<1>6. CASE PullReply(t)
  <2>1. PICK page \in Pages(th[t].since) :
          th' = [th EXCEPT ![t].pc = "item",
                           ![t].todo = [i \in DOMAIN page |-> page[i].file],
                           ![t].latest = IF page = <<>> THEN th[t].since
                                         ELSE page[Len(page)].seq]
    BY <1>6 DEF PullReply
  <2> DEFINE todo == [i \in DOMAIN page |-> page[i].file]
             latest == IF page = <<>> THEN th[t].since ELSE page[Len(page)].seq
             r == [th[t] EXCEPT !.pc = "item", !.todo = todo, !.latest = latest]
  <2>2. /\ Len(page) \in Nat /\ DOMAIN page = 1..Len(page) /\ page \in Seq(FirstRows(th[t].since))
        /\ \A i \in 1..Len(page) : page[i] \in Change
    BY <1>1, PageTyped
  <2>3. \A i \in 1..Len(page) : page[i].file \in Files /\ page[i].seq \in Nat
    BY <2>2 DEF Change
  <2>4. todo \in Seq(Files)  BY <2>2, <2>3
  <2>5. latest \in Nat  BY <1>1, <2>2, <2>3
  <2>6. r \in Thread /\ r.pc = "item"
    <3> HIDE DEF todo, latest
    <3>1. "item" \in ThreadPCs  BY DEF ThreadPCs
    <3> QED  BY <1>0, <2>4, <2>5, <3>1 DEF Thread
  <2>7. Sound(r)  BY <2>6 DEF Sound, Places
  <2>8. th' = [th EXCEPT ![t] = r]  BY <2>1
  <2> HIDE DEF r
  <2>9. th' \in [Threads -> Thread] /\ \A u \in Threads : Sound(th'[u])
    BY <1>4, <2>6, <2>7, <2>8
  <2> QED  BY <1>6, <2>9 DEF PullReply
<1>7. CASE FinishPull(t)
  <2>1. th' \in [Threads -> Thread] /\ \A u \in Threads : Sound(th'[u])
    BY <1>4, <1>7, RestTyped DEF FinishPull
  <2>2. cursor' \in Nat  BY <1>1, <1>7 DEF FinishPull
  <2> QED  BY <1>7, <2>1, <2>2 DEF FinishPull
<1>8. CASE GetFile(t)
  <2> DEFINE r == [th[t] EXCEPT !.pc = "check", !.got = head[FileAt(t)]]
  <2>1. FileAt(t) \in Files /\ th[t].todo # <<>>  BY <1>3, <1>8 DEF GetFile
  <2>2. head[FileAt(t)] \in HeadRow /\ "check" \in ThreadPCs  BY <2>1 DEF ThreadPCs
  <2>3. r \in Thread /\ r.pc = "check" /\ r.todo = th[t].todo  BY <1>0, <2>2 DEF Thread
  <2>4. Sound(r)  BY <2>1, <2>3 DEF Sound, Places
  <2>5. th' = [th EXCEPT ![t] = r]  BY <1>8 DEF GetFile
  <2> HIDE DEF r
  <2>6. th' \in [Threads -> Thread] /\ \A u \in Threads : Sound(th'[u])
    BY <1>4, <2>3, <2>4, <2>5
  <2>7. excused' \in [Files -> Nat] /\ overlapped' \subseteq Files
    <3>1. CASE \E u \in Threads : Applying(u, FileAt(t))
      BY <1>5, <1>8, <2>1, <3>1 DEF GetFile
    <3>2. CASE ~\E u \in Threads : Applying(u, FileAt(t))
      BY <1>8, <3>2 DEF GetFile
    <3> QED  BY <3>1, <3>2
  <2> QED  BY <1>8, <2>6, <2>7 DEF GetFile
<1>9. CASE CheckRow(t)
  <2>1. FileAt(t) \in Files /\ th[t].todo # <<>>  BY <1>2, <1>3, <1>9 DEF CheckRow, Places
  <2> DEFINE pc == IF th[t].got.deleted THEN "write" ELSE "compare"
             s == [th[t] EXCEPT !.st = row[FileAt(t)], !.pc = pc]
             r == IF row[FileAt(t)].version >= th[t].got.version THEN ItemDone(t) ELSE s
  <2>2. row[FileAt(t)] \in Row /\ pc \in ThreadPCs  BY <2>1 DEF ThreadPCs
  <2>3. s \in Thread /\ s.pc = pc /\ s.todo = th[t].todo
    <3> HIDE DEF pc
    <3> QED  BY <1>0, <2>2 DEF Thread
  <2>4. pc \in {"write", "compare"}  OBVIOUS
  <2>5. Sound(s)  BY <2>1, <2>3, <2>4 DEF Sound, Places
  <2>6. r \in Thread /\ Sound(r)
    <3> HIDE DEF s
    <3> QED  BY <1>0, <2>1, <2>3, <2>5, DoneTyped
  <2>7. th' = [th EXCEPT ![t] = r]  BY <1>9 DEF CheckRow
  <2> HIDE DEF r
  <2>8. th' \in [Threads -> Thread] /\ \A u \in Threads : Sound(th'[u])
    BY <1>4, <2>6, <2>7
  <2> QED  BY <1>9, <2>8 DEF CheckRow
<1>10. CASE CompareDisk(t)
  <2>1. FileAt(t) \in Files /\ th[t].todo # <<>>  BY <1>2, <1>3, <1>10 DEF CompareDisk, Places
  <2> DEFINE s == [th[t] EXCEPT !.pc = "write"]
  <2>2. s \in Thread /\ s.pc = "write" /\ s.todo = th[t].todo
    <3>1. "write" \in ThreadPCs  BY DEF ThreadPCs
    <3> QED  BY <1>0, <3>1 DEF Thread
  <2>3. Sound(s)  BY <2>1, <2>2 DEF Sound, Places
  <2>4. ItemDone(t) \in Thread /\ Sound(ItemDone(t))  BY <1>0, <2>1, DoneTyped
  <2>5. th' = [th EXCEPT ![t] = ItemDone(t)] \/ th' = [th EXCEPT ![t] = s]
    BY <1>10 DEF CompareDisk
  <2> HIDE DEF s
  <2>6. th' \in [Threads -> Thread] /\ \A u \in Threads : Sound(th'[u])
    BY <1>4, <2>2, <2>3, <2>4, <2>5
  <2>7. conflict' \subseteq Files  BY <1>10, <2>1 DEF CompareDisk
  <2> QED  BY <1>10, <2>6, <2>7 DEF CompareDisk
<1>11. CASE WriteDisk(t)
  <2>1. FileAt(t) \in Files /\ th[t].todo # <<>>  BY <1>2, <1>3, <1>11 DEF WriteDisk, Places
  <2> DEFINE s == [th[t] EXCEPT !.pc = "save"]
  <2>2. s \in Thread /\ s.pc = "save" /\ s.todo = th[t].todo
    <3>1. "save" \in ThreadPCs  BY DEF ThreadPCs
    <3> QED  BY <1>0, <3>1 DEF Thread
  <2>3. Sound(s)  BY <2>1, <2>2 DEF Sound, Places
  <2>4. th' = [th EXCEPT ![t] = s]  BY <1>11 DEF WriteDisk
  <2> HIDE DEF s
  <2>5. th' \in [Threads -> Thread] /\ \A u \in Threads : Sound(th'[u])
    BY <1>4, <2>2, <2>3, <2>4
  <2>6. Content(th[t].got) \in Nat  BY <1>1 DEF Content, HeadRow
  <2>7. disk' \in [Files -> Nat] /\ excused' \in [Files -> Nat]
    BY <1>5, <1>11, <2>1, <2>6 DEF WriteDisk
  <2> QED  BY <1>11, <2>5, <2>7 DEF WriteDisk
<1>12. CASE SaveRow(t)
  <2>1. FileAt(t) \in Files /\ th[t].todo # <<>>  BY <1>2, <1>3, <1>12 DEF SaveRow, Places
  <2>2. ItemDone(t) \in Thread /\ Sound(ItemDone(t))  BY <1>0, <2>1, DoneTyped
  <2>3. th' \in [Threads -> Thread] /\ \A u \in Threads : Sound(th'[u])
    BY <1>4, <1>12, <2>2 DEF SaveRow
  <2>4. row' \in [Files -> Row]
    <3>1. th[t].got.version \in Nat  BY <1>1 DEF HeadRow
    <3>2. [version |-> th[t].got.version, hash |-> th[t].got.version] \in Row
      BY <3>1 DEF Row
    <3>3. [th[t].st EXCEPT !.version = th[t].got.version] \in Row  BY <1>1, <3>1 DEF Row
    <3> QED  BY <1>12, <2>1, <3>2, <3>3 DEF SaveRow
  <2> QED  BY <1>12, <2>3, <2>4 DEF SaveRow
<1>13. CASE PullFail(t)
  <2>1. th' \in [Threads -> Thread] /\ \A u \in Threads : Sound(th'[u])
    BY <1>4, <1>13, RestTyped DEF PullFail
  <2> QED  BY <1>13, <2>1 DEF PullFail
<1>14. CASE ApplyFail(t)
  <2>1. FileAt(t) \in Files /\ th[t].todo # <<>>  BY <1>2, <1>3, <1>14 DEF ApplyFail, Places
  <2>2. ItemDone(t) \in Thread /\ Sound(ItemDone(t))  BY <1>0, <2>1, DoneTyped
  <2>3. Pulling \in Thread /\ Sound(Pulling)  BY PullTyped
  <2>4. th' \in [Threads -> Thread] /\ \A u \in Threads : Sound(th'[u])
    BY <1>4, <1>14, <2>2, <2>3 DEF ApplyFail
  <2>5. excused' \in [Files -> Nat]  BY <1>5, <1>14, <2>1 DEF ApplyFail
  <2> QED  BY <1>14, <2>4, <2>5 DEF ApplyFail
<1>15. CASE t = "poller" /\ Poll
  <2>1. Pulling \in Thread /\ Sound(Pulling)  BY PullTyped
  <2>2. th' \in [Threads -> Thread] /\ \A u \in Threads : Sound(th'[u])
    BY <1>4, <1>15, <2>1 DEF Poll
  <2> QED  BY <1>15, <2>2 DEF Poll
<1> QED
  BY <1>6, <1>7, <1>8, <1>9, <1>10, <1>11, <1>12, <1>13, <1>14, <1>15 DEF ThreadStep

\* Every step keeps the types.
LEMMA TypeKept == TypeInv /\ [Next]_vars => TypeInv'
<1> SUFFICES ASSUME TypeInv, [Next]_vars PROVE TypeInv'  OBVIOUS
<1>1. CASE UNCHANGED vars
  BY <1>1 DEF vars, TypeInv, TypeOK, deviceVars, obsVars, storeVars
<1>2. CASE Next
  BY <1>2, ServerTyped, ConnTyped, DownloadTyped, ThreadsThere DEF Next
<1> QED  BY <1>1, <1>2

\* The types hold at the start ...
LEMMA TypeInit == Init => TypeInv
<1> SUFFICES ASSUME Init PROVE TypeInv  OBVIOUS
<1> USE DEF Init
<1>1. head \in [Files -> HeadRow] /\ row \in [Files -> Row]  BY DEF HeadRow, Row, NoRow
<1>2. conn \in [up : BOOLEAN, queue : Seq(Files)] /\ conn.up \in BOOLEAN
      /\ conn.queue = <<>>  OBVIOUS
<1>3. Len(conn.queue) <= QueueLimit  BY <1>2, DeliveryAssumption
<1>4. IsFiniteSet(changes)  BY FS_EmptySet
<1>5. th \in [Threads -> Thread] /\ \A t \in Threads : Sound(th[t])  BY RestTyped
<1>6. restarts \in 0..MaxRestarts  BY DeliveryAssumption
<1>7. tx \in [Txs -> Tx \cup {IdleTx}]  OBVIOUS
<1>8. nextSeq \in Nat /\ changes \subseteq Change /\ cursor \in Nat  OBVIOUS
<1>9. disk \in [Files -> Nat] /\ excused \in [Files -> Nat] /\ conflict \subseteq Files
      /\ overlapped \subseteq Files  OBVIOUS
<1> QED  BY <1>1, <1>2, <1>3, <1>4, <1>5, <1>6, <1>7, <1>8, <1>9 DEF TypeInv, TypeOK

\* ... and so always.
LEMMA TypeAlways == Spec => []TypeInv
BY TypeInit, TypeKept, PTL DEF Spec

\* Every variable holds a value of its type, and Hub.Publish never fills a
\* connection's channel beyond its capacity, whatever the bounds.
THEOREM TypeCorrect == Spec => []TypeOK
<1>1. TypeInv => TypeOK  BY DEF TypeInv
<1> QED  BY <1>1, TypeAlways, PTL

-----------------------------------------------------------------------------
(* The numbers of the feed.                                                *)

\* The page holds every change up to its latest_seq.
LEMMA PageComplete ==
    ASSUME TypeInv, NEW since \in Nat, NEW page \in Pages(since),
           NEW c \in changes, c.seq > since, page # <<>>, c.seq <= page[Len(page)].seq
    PROVE  \E i \in DOMAIN page : page[i] = c
<1> DEFINE last == page[Len(page)]
           Below(x) == {d \in Newer(since) : d.seq < x.seq}
<1>1. /\ IsFiniteSet(Newer(since)) /\ FirstRows(since) \subseteq Newer(since)
      /\ Newer(since) \subseteq changes /\ changes \subseteq Change
      /\ page \in Seq(FirstRows(since))
      /\ Len(page) \in Nat /\ DOMAIN page = 1..Len(page)
      /\ \A i \in 1..Len(page) : page[i] \in FirstRows(since)
  BY PageTyped
<1>2. Len(page) \in 1..Len(page)  BY <1>1
<1>3. last \in FirstRows(since)  BY <1>1, <1>2
<1>4. Cardinality(Below(last)) < PageLimit  BY <1>3 DEF FirstRows
<1>5. c \in Newer(since)  BY DEF Newer
<1>6. c.seq \in Nat /\ last.seq \in Nat /\ \A d \in Newer(since) : d.seq \in Nat
  BY <1>1, <1>3 DEF Change
<1>7. Below(c) \subseteq Below(last)  BY <1>6
<1>8. IsFiniteSet(Below(last))
  <2>1. Below(last) \subseteq Newer(since)  OBVIOUS
  <2> QED  BY <1>1, <2>1, FS_Subset
<1>9. /\ Cardinality(Below(c)) <= Cardinality(Below(last))
      /\ Cardinality(Below(c)) \in Nat /\ Cardinality(Below(last)) \in Nat
  BY <1>7, <1>8, FS_Subset, FS_CardinalityType
<1>10. Cardinality(Below(c)) < PageLimit  BY <1>4, <1>9, DeliveryAssumption
<1>11. c \in FirstRows(since)  BY <1>5, <1>10 DEF FirstRows
<1> QED  BY <1>11 DEF Pages

\* A number that a device has read up to stays known.
LEMMA KnownKept ==
    ASSUME changes \subseteq changes', NEW n, Known(n)
    PROVE  n = 0 \/ \E c \in changes' : c.seq = n
BY DEF Known

\* What the feed's numbers go through in a server step.
LEMMA ServerNumbers ==
    ASSUME TypeInv, SeqInv, NEW t \in Txs,
           \/ \E f \in Files, d \in BOOLEAN : MemWrite(t, f, d) \/ LockRow(t, f, d)
           \/ InsertChangeRow(t) \/ CommitTx(t) \/ Die(t) \/ Publish(t)
    PROVE  SeqInv'
<1> USE DEF deviceVars, obsVars, storeVars
<1>0. /\ nextSeq \in Nat /\ nextSeq >= 1 /\ changes \subseteq Change
      /\ tx \in [Txs -> Tx \cup {IdleTx}] /\ \A c \in changes : c.seq \in Nat
  BY DEF TypeInv, TypeOK, SeqInv, Change
<1>1. \A u \in Txs : Numbered(u) => tx[u] \in Tx /\ tx[u].seq \in Nat /\ tx[u].file \in Files
  BY <1>0 DEF Numbered, Tx, IdleTx
<1>2. ASSUME changes \subseteq changes', UNCHANGED <<cursor, th>>
      PROVE  Known(cursor)' /\ \A u \in Threads : Known(th[u].since)' /\ Known(th[u].latest)'
  BY <1>2 DEF Known, SeqInv
<1>3. CASE \E f \in Files, d \in BOOLEAN : MemWrite(t, f, d)
  <2>1. PICK f \in Files, d \in BOOLEAN : MemWrite(t, f, d)  BY <1>3
  <2>2. \A u \in Txs : Numbered(u)' => Numbered(u) /\ tx'[u] = tx[u]
    BY <1>0, <2>1 DEF MemWrite, Numbered
  <2>3. changes' = changes \cup {[seq |-> nextSeq, file |-> f, version |-> head[f].version + 1]}
        /\ nextSeq' = nextSeq + 1  BY <2>1 DEF MemWrite, Commit
  <2>4. \A c \in changes' : c \in changes \/ c.seq = nextSeq  BY <2>3
  <2>5. UNCHANGED <<cursor, th>> /\ changes \subseteq changes'  BY <2>1, <2>3 DEF MemWrite
  <2> QED  BY <1>0, <1>1, <1>2, <2>2, <2>3, <2>4, <2>5 DEF SeqInv, Numbered
<1>4. CASE \E f \in Files, d \in BOOLEAN : LockRow(t, f, d)
  <2>1. PICK f \in Files, d \in BOOLEAN : LockRow(t, f, d)  BY <1>4
  <2>2. \A u \in Txs : Numbered(u)' => Numbered(u) /\ tx'[u] = tx[u]
    BY <1>0, <2>1 DEF LockRow, Numbered
  <2>3. changes' = changes /\ nextSeq' = nextSeq + 1 /\ UNCHANGED <<cursor, th>>
    BY <2>1 DEF LockRow
  <2> QED  BY <1>0, <1>1, <1>2, <2>2, <2>3 DEF SeqInv, Numbered
<1>5. CASE InsertChangeRow(t)
  <2>1. changes' = changes /\ nextSeq' = nextSeq + 1 /\ UNCHANGED <<cursor, th>>
    BY <1>5 DEF InsertChangeRow
  <2>2. tx[t] \in Tx  BY <1>0, <1>5 DEF InsertChangeRow, IdleTx
  <2>3. tx'[t].seq = nextSeq /\ \A u \in Txs : u # t => tx'[u] = tx[u]
    BY <1>0, <1>5, <2>2 DEF InsertChangeRow, Tx
  <2>4. ASSUME NEW u \in Txs, Numbered(u)'
        PROVE  /\ tx'[u].seq >= 1 /\ tx'[u].seq < nextSeq'
               /\ \A c \in changes' : c.seq # tx'[u].seq
               /\ \A v \in Txs : Numbered(v)' /\ v # u => tx'[v].seq # tx'[u].seq
    <3>1. \A v \in Txs : v # t /\ Numbered(v)' =>
              Numbered(v) /\ tx'[v].seq = tx[v].seq /\ tx[v].seq \in Nat /\ tx[v].seq < nextSeq
      BY <1>1, <2>3 DEF SeqInv, Numbered
    <3>2. CASE u = t
      <4>1. tx'[u].seq = nextSeq  BY <2>3, <3>2
      <4>2. \A c \in changes' : c.seq # nextSeq  BY <1>0, <2>1 DEF SeqInv
      <4>3. \A v \in Txs : Numbered(v)' /\ v # u => tx'[v].seq # nextSeq
        BY <1>0, <3>1, <3>2
      <4> QED  BY <1>0, <2>1, <4>1, <4>2, <4>3
    <3>3. CASE u # t
      <4>1. Numbered(u) /\ tx'[u].seq = tx[u].seq /\ tx[u].seq \in Nat /\ tx[u].seq < nextSeq
        BY <2>4, <3>1, <3>3
      <4>2. tx[u].seq >= 1 /\ \A c \in changes' : c.seq # tx[u].seq
        BY <2>1, <4>1 DEF SeqInv
      <4>3. ASSUME NEW v \in Txs, Numbered(v)', v # u PROVE tx'[v].seq # tx[u].seq
        <5>1. CASE v = t  BY <1>0, <2>3, <4>1, <5>1
        <5>2. CASE v # t  BY <3>1, <4>1, <4>3, <5>2 DEF SeqInv
        <5> QED  BY <5>1, <5>2
      <4> QED  BY <1>0, <2>1, <4>1, <4>2, <4>3
    <3> QED  BY <3>2, <3>3
  <2>5. Known(cursor)' /\ \A u \in Threads : Known(th[u].since)' /\ Known(th[u].latest)'
    BY <1>2, <2>1
  <2>6. nextSeq' >= 1 /\ \A c \in changes' : c.seq < nextSeq'  BY <1>0, <2>1 DEF SeqInv
  <2> QED  BY <2>4, <2>5, <2>6 DEF SeqInv
<1>6. CASE CommitTx(t)
  <2>1. Numbered(t)  BY <1>6 DEF CommitTx, Numbered
  <2>2. tx'[t].pc = "committed" /\ \A u \in Txs : u # t => tx'[u] = tx[u]
    BY <1>0, <1>1, <1>6, <2>1 DEF CommitTx, Tx
  <2>3. \A u \in Txs : Numbered(u)' => u # t /\ Numbered(u) /\ tx'[u] = tx[u]
    BY <2>2 DEF Numbered
  <2>4. changes' = changes \cup {[seq |-> tx[t].seq, file |-> tx[t].file,
                                  version |-> head[tx[t].file].version + 1]}
        /\ UNCHANGED <<nextSeq, cursor, th>>  BY <1>6 DEF CommitTx, Commit
  <2>5. \A c \in changes' : c \in changes \/ c.seq = tx[t].seq  BY <2>4
  <2>6. Known(cursor)' /\ \A u \in Threads : Known(th[u].since)' /\ Known(th[u].latest)'
    BY <1>2, <2>4
  <2>7. \A c \in changes' : c.seq < nextSeq'  BY <2>1, <2>4, <2>5 DEF SeqInv
  <2>8. ASSUME NEW u \in Txs, Numbered(u)'
        PROVE  /\ tx'[u].seq >= 1 /\ tx'[u].seq < nextSeq'
               /\ \A c \in changes' : c.seq # tx'[u].seq
               /\ \A v \in Txs : Numbered(v)' /\ v # u => tx'[v].seq # tx'[u].seq
    BY <2>1, <2>3, <2>4, <2>5, <2>8 DEF SeqInv
  <2> QED  BY <1>0, <2>4, <2>6, <2>7, <2>8 DEF SeqInv
<1>7. CASE Die(t) \/ Publish(t)
  <2>1. \A u \in Txs : Numbered(u)' => Numbered(u) /\ tx'[u] = tx[u]
    BY <1>0, <1>7 DEF Die, Publish, Numbered, IdleTx
  <2>2. UNCHANGED <<changes, nextSeq, cursor, th>>  BY <1>7 DEF Die, Publish
  <2> QED  BY <1>0, <1>1, <1>2, <2>1, <2>2 DEF SeqInv, Numbered
<1> QED  BY <1>3, <1>4, <1>5, <1>6, <1>7

-----------------------------------------------------------------------------
(* What the steps do, in a form the proofs below share.                    *)

deliveryVars == <<head, changes, cursor, row, disk, conflict, restarts, excused, overlapped>>
Others(t) == \A u \in Threads : u # t => th'[u] = th[u]
Keeps(t) ==
    th'[t].pulling = th[t].pulling /\ th'[t].since = th[t].since /\ th'[t].latest = th[t].latest
\* Thread t goes to a place within the same answer of the feed.
Sets(t, pc, todo, got, st) ==
    /\ th'[t].pc = pc /\ th'[t].todo = todo /\ th'[t].got = got /\ th'[t].st = st
    /\ Keeps(t) /\ Others(t)
At(t, pc, f) == th[t].pc = pc /\ f = FileAt(t) /\ f \in Files /\ th[t].todo # <<>>
Leaves(t) == Sets(t, "item", Tail(th[t].todo), th[t].got, th[t].st)

Newest(n) == n >= 1 /\ \A c \in changes : c.seq < n
Commits(f, d, n) ==
    /\ Commit(f, d, n) /\ UNCHANGED <<cursor, row, disk, conflict, th, restarts, overlapped>>
    /\ \/ excused' = [excused EXCEPT ![f] = head[f].version + 1]
       \/ excused' = excused /\ Newest(n)
Rests(t) ==
    /\ th[t].pc # "save" /\ th'[t] = Idle /\ Others(t)
    /\ UNCHANGED <<head, changes, row, disk, conflict, restarts, excused, overlapped>>
    /\ \/ cursor' = cursor
       \/ th[t].pc = "item" /\ th[t].todo = <<>> /\ th[t].pulling /\ cursor' = th[t].latest
Pulls(t) ==
    th[t].pc # "save" /\ th'[t] = Pulling /\ Others(t) /\ UNCHANGED deliveryVars
Replied(t) ==
    /\ th[t].pc = "pull" /\ th'[t].pc = "item" /\ Others(t) /\ UNCHANGED deliveryVars
    /\ th'[t].since = th[t].since
    /\ th'[t].latest = th[t].since \/ \E c \in changes : c.seq = th'[t].latest
    /\ \A c \in changes : c.seq > th[t].since =>
          c.seq > th'[t].latest \/ \E i \in DOMAIN th'[t].todo : th'[t].todo[i] = c.file
Notified(t) ==
    /\ th[t].pc = "idle" /\ th'[t].pc = "item" /\ ~th'[t].pulling
    /\ th'[t].since = 0 /\ th'[t].latest = 0
    /\ Others(t) /\ UNCHANGED deliveryVars
Gets(t, f) ==
    /\ At(t, "item", f)
    /\ Sets(t, "check", th[t].todo, head[f], th[t].st)
    /\ \/ excused' = Mishap(f) /\ overlapped' = overlapped \cup {f}
       \/ UNCHANGED <<excused, overlapped>> /\ \A u \in Threads : ~Applying(u, f)
    /\ UNCHANGED <<head, changes, cursor, row, disk, conflict, restarts>>
Skips(t, f) ==
    /\ At(t, "check", f) /\ row[f].version >= th[t].got.version
    /\ Leaves(t) /\ UNCHANGED deliveryVars
Decides(t, f) ==
    /\ At(t, "check", f) /\ row[f].version < th[t].got.version
    /\ \E pc \in {"compare", "write"} : Sets(t, pc, th[t].todo, th[t].got, row[f])
    /\ UNCHANGED deliveryVars
Clashes(t, f) ==
    /\ At(t, "compare", f) /\ disk[f] # 0 /\ th[t].st.hash # 0 /\ disk[f] # th[t].st.hash
    /\ conflict' = conflict \cup {f} /\ Leaves(t)
    /\ UNCHANGED <<head, changes, cursor, row, disk, restarts, excused, overlapped>>
Passes(t, f) ==
    /\ At(t, "compare", f) /\ Sets(t, "write", th[t].todo, th[t].got, th[t].st)
    /\ UNCHANGED deliveryVars
Writes(t, f) ==
    /\ At(t, "write", f) /\ Sets(t, "save", th[t].todo, th[t].got, th[t].st)
    /\ \/ disk' = [disk EXCEPT ![f] = Content(th[t].got)] /\ excused' = excused
       \/ Unreliable /\ th[t].got.deleted /\ disk' = disk /\ excused' = Mishap(f)
    /\ UNCHANGED <<head, changes, cursor, row, conflict, restarts, overlapped>>
Saves(t, f) ==
    /\ At(t, "save", f) /\ Leaves(t)
    /\ \/ ~th[t].got.deleted /\ row' = [row EXCEPT ![f] =
             [version |-> th[t].got.version, hash |-> th[t].got.version]]
       \/ th[t].got.deleted /\ row' = row
       \/ th[t].got.deleted /\ row' = [row EXCEPT ![f] =
             [version |-> th[t].got.version, hash |-> th[t].st.hash]]
    /\ UNCHANGED <<head, changes, cursor, disk, conflict, restarts, excused, overlapped>>
Drops(t, f) ==
    /\ Unreliable /\ (At(t, "item", f) \/ At(t, "write", f))
    /\ Leaves(t) /\ excused' = Mishap(f)
    /\ UNCHANGED <<head, changes, cursor, row, disk, conflict, restarts, overlapped>>
Reopens ==
    /\ \A t \in Threads : th'[t] = Idle
    /\ restarts' = restarts + 1
    /\ UNCHANGED <<head, changes, cursor, row, disk, conflict, excused, overlapped>>

ItemStep(t, f) ==
    \/ Gets(t, f) \/ Skips(t, f) \/ Decides(t, f) \/ Clashes(t, f) \/ Passes(t, f)
    \/ Writes(t, f) \/ Saves(t, f) \/ Drops(t, f)
FeedStep(t) == Rests(t) \/ Pulls(t) \/ Replied(t) \/ Notified(t)
StoreStep ==
    \/ UNCHANGED <<deliveryVars, th>>
    \/ \E f \in Files, d \in BOOLEAN, n \in Nat : Commits(f, d, n)

\* A step of the server, or of the connection alone.
LEMMA StoreSteps ==
    ASSUME TypeInv, SeqInv,
           \/ \E t \in Txs, f \in Files, d \in BOOLEAN : MemWrite(t, f, d) \/ LockRow(t, f, d)
           \/ \E t \in Txs : InsertChangeRow(t) \/ CommitTx(t) \/ Die(t) \/ Publish(t)
           \/ Connect \/ Disconnect
    PROVE  StoreStep
<1> USE DEF deviceVars, obsVars, storeVars
<1>1. ASSUME NEW t \in Txs, NEW f \in Files, NEW d \in BOOLEAN, MemWrite(t, f, d)
      PROVE  StoreStep
  <2>1. nextSeq \in Nat /\ Newest(nextSeq)  BY DEF TypeInv, TypeOK, SeqInv, Newest
  <2>2. Commits(f, d, nextSeq)  BY <1>1, <2>1 DEF MemWrite, Commits
  <2> QED  BY <2>1, <2>2 DEF StoreStep
<1>2. ASSUME NEW t \in Txs, CommitTx(t) PROVE StoreStep
  <2> DEFINE f == tx[t].file
             n == tx[t].seq
  <2>1. Numbered(t) /\ tx[t] \in Tx
    BY <1>2 DEF CommitTx, Numbered, TypeInv, TypeOK, IdleTx
  <2>2. f \in Files /\ tx[t].deleted \in BOOLEAN /\ n \in Nat  BY <2>1 DEF Tx
  <2>3. ASSUME ~\E c \in changes : c.seq > n PROVE Newest(n)
    <3>1. \A c \in changes : c.seq \in Nat /\ c.seq # n
      BY <2>1 DEF SeqInv, TypeInv, TypeOK, Change
    <3>2. n >= 1  BY <2>1 DEF SeqInv
    <3> QED  BY <2>2, <2>3, <3>1, <3>2 DEF Newest
  <2>4. Commits(f, tx[t].deleted, n)  BY <1>2, <2>3 DEF CommitTx, Commits
  <2> QED  BY <2>2, <2>4 DEF StoreStep
<1>3. ASSUME NEW t \in Txs,
             \/ InsertChangeRow(t) \/ Die(t) \/ Publish(t)
             \/ \E f \in Files, d \in BOOLEAN : LockRow(t, f, d)
      PROVE  UNCHANGED <<deliveryVars, th>>
  BY <1>3 DEF InsertChangeRow, Die, Publish, LockRow, deliveryVars
<1>4. ASSUME Connect \/ Disconnect PROVE UNCHANGED <<deliveryVars, th>>
  BY <1>4 DEF Connect, Disconnect, deliveryVars
<1> QED  BY <1>1, <1>2, <1>3, <1>4 DEF StoreStep

\* A thread and the fields of the next state it moves to.
LEMMA SetsFrom ==
    ASSUME TypeInv, NEW t \in Threads, NEW r \in Thread, th' = [th EXCEPT ![t] = r]
    PROVE  th'[t] = r /\ Others(t)
BY DEF TypeInv, TypeOK, Others

\* ItemDone is leaving the file.
LEMMA LeavesFrom ==
    ASSUME TypeInv, NEW t \in Threads, th[t].todo # <<>>, th' = [th EXCEPT ![t] = ItemDone(t)]
    PROVE  Leaves(t)
<1>1. th[t] \in Thread  BY DEF TypeInv, TypeOK
<1>2. th'[t] = ItemDone(t) /\ Others(t)  BY <1>1, DoneTyped, SetsFrom
<1> QED  BY <1>1, <1>2, DoneTyped DEF Leaves, Sets, Keeps

\* A step of a pull or an event.
LEMMA FeedSteps ==
    ASSUME TypeInv, NEW t \in Threads,
           \/ PullReply(t) \/ FinishPull(t) \/ PullFail(t) \/ (t = "poller" /\ Poll)
           \/ (t = "ws" /\ onWsEvent) \/ (ApplyFail(t) /\ ~th[t].pulling)
    PROVE  FeedStep(t)
<1> USE DEF deviceVars, obsVars, storeVars
<1>0. th \in [Threads -> Thread] /\ th[t] \in Thread  BY DEF TypeInv, TypeOK
<1>1. Idle \in Thread /\ Pulling \in Thread  BY RestTyped, PullTyped DEF TypeInv, TypeOK
<1>2. CASE PullReply(t)
  <2>1. PICK page \in Pages(th[t].since) :
          th' = [th EXCEPT ![t].pc = "item",
                           ![t].todo = [i \in DOMAIN page |-> page[i].file],
                           ![t].latest = IF page = <<>> THEN th[t].since
                                         ELSE page[Len(page)].seq]
    BY <1>2 DEF PullReply
  <2> DEFINE todo == [i \in DOMAIN page |-> page[i].file]
             latest == IF page = <<>> THEN th[t].since ELSE page[Len(page)].seq
  <2>2. th'[t].todo = todo /\ th'[t].latest = latest /\ th'[t].pc = "item"
        /\ th'[t].since = th[t].since /\ Others(t)
    BY <1>0, <2>1 DEF Thread, Others
  <2>3. th[t].since \in Nat  BY <1>0 DEF Thread
  <2>4. /\ FirstRows(th[t].since) \subseteq Newer(th[t].since)
        /\ Newer(th[t].since) \subseteq changes /\ changes \subseteq Change
        /\ page \in Seq(FirstRows(th[t].since)) /\ Len(page) \in Nat
        /\ DOMAIN page = 1..Len(page)
        /\ \A i \in 1..Len(page) : page[i] \in FirstRows(th[t].since)
    BY <2>3, PageTyped
  <2>5. latest = th[t].since \/ \E c \in changes : c.seq = latest
    <3>1. page # <<>> => Len(page) \in 1..Len(page)  BY <2>4
    <3>2. page # <<>> => page[Len(page)] \in changes  BY <2>4, <3>1
    <3> QED  BY <3>2
  <2>6. ASSUME NEW c \in changes, c.seq > th[t].since, ~(c.seq > latest)
        PROVE  \E i \in DOMAIN todo : todo[i] = c.file
    <3>1. page # <<>>  BY <2>6
    <3>2. page[Len(page)] \in Change /\ c \in Change
      <4>1. Len(page) \in 1..Len(page)  BY <2>4, <3>1
      <4> QED  BY <2>4, <4>1
    <3>3. c.seq <= page[Len(page)].seq  BY <2>6, <3>1, <3>2 DEF Change
    <3>4. PICK i \in DOMAIN page : page[i] = c  BY <2>3, <2>6, <3>1, <3>3, PageComplete
    <3> QED  BY <3>4
  <2> HIDE DEF todo, latest
  <2> QED  BY <1>2, <2>2, <2>5, <2>6 DEF PullReply, FeedStep, Replied, deliveryVars
<1>3. CASE FinishPull(t)
  <2>1. th'[t] = Idle /\ Others(t)  BY <1>1, <1>3, SetsFrom DEF FinishPull
  <2> QED  BY <1>3, <2>1 DEF FinishPull, FeedStep, Rests
<1>4. CASE PullFail(t)
  <2>1. th'[t] = Idle /\ Others(t)  BY <1>1, <1>4, SetsFrom DEF PullFail
  <2> QED  BY <1>4, <2>1 DEF PullFail, FeedStep, Rests
<1>5. CASE t = "poller" /\ Poll
  <2>1. th'[t] = Pulling /\ Others(t)  BY <1>1, <1>5, SetsFrom DEF Poll
  <2> QED  BY <1>5, <2>1 DEF Poll, FeedStep, Pulls, deliveryVars
<1>6. CASE t = "ws" /\ onWsEvent
  <2>1. th[t] = Idle /\ th[t].pc = "idle"  BY <1>6 DEF onWsEvent, TypeInv, Sound
  <2>2. th'[t].pc = "item" /\ th'[t].pulling = FALSE /\ th'[t].since = 0 /\ th'[t].latest = 0
        /\ Others(t)
    BY <1>0, <1>6, <2>1 DEF onWsEvent, Thread, Others, Idle
  <2> QED  BY <1>6, <2>1, <2>2 DEF onWsEvent, FeedStep, Notified, deliveryVars
<1>7. CASE ApplyFail(t) /\ ~th[t].pulling
  <2>1. th'[t] = Pulling /\ Others(t)  BY <1>1, <1>7, SetsFrom DEF ApplyFail
  <2> QED  BY <1>7, <2>1 DEF ApplyFail, FeedStep, Pulls, deliveryVars
<1> QED  BY <1>2, <1>3, <1>4, <1>5, <1>6, <1>7

\* A step of applyRemoteFile.
LEMMA ItemSteps ==
    ASSUME TypeInv, NEW t \in Threads,
           \/ GetFile(t) \/ CheckRow(t) \/ CompareDisk(t) \/ WriteDisk(t) \/ SaveRow(t)
           \/ (ApplyFail(t) /\ th[t].pulling)
    PROVE  \E f \in Files : ItemStep(t, f)
<1> USE DEF deviceVars, obsVars, storeVars
<1> DEFINE f == FileAt(t)
<1>0. th \in [Threads -> Thread] /\ th[t] \in Thread  BY DEF TypeInv, TypeOK
<1>1. th[t].todo # <<>>
  <2>1. th[t].pc \in Places => th[t].todo # <<>>  BY DEF TypeInv, Sound
  <2> QED
    BY <2>1 DEF GetFile, CheckRow, CompareDisk, WriteDisk, SaveRow, ApplyFail, Places
<1>2. f \in Files  BY <1>0, <1>1 DEF FileAt, Thread
<1>3. \A pc \in ThreadPCs : th[t].pc = pc => At(t, pc, f)  BY <1>1, <1>2 DEF At
<1> SUFFICES ItemStep(t, f)  BY <1>2
<1>4. CASE GetFile(t)
  <2>1. At(t, "item", f)  BY <1>1, <1>2, <1>4 DEF At, GetFile
  <2>2. Sets(t, "check", th[t].todo, head[f], th[t].st)
    BY <1>0, <1>4 DEF GetFile, Thread, Sets, Keeps, Others
  <2>3. Gets(t, f)  BY <1>4, <2>1, <2>2 DEF Gets, GetFile
  <2> QED  BY <2>3 DEF ItemStep
<1>5. CASE CheckRow(t)
  <2>1. At(t, "check", f)  BY <1>1, <1>2, <1>5 DEF At, CheckRow
  <2>2. row[f].version \in Nat /\ th[t].got.version \in Nat
    BY <1>0, <1>2 DEF TypeInv, TypeOK, Row, Thread, HeadRow
  <2>3. CASE row[f].version >= th[t].got.version
    <3>1. Leaves(t)  BY <1>1, <1>5, <2>3, LeavesFrom DEF CheckRow
    <3>2. UNCHANGED deliveryVars  BY <1>5 DEF CheckRow, deliveryVars
    <3> QED  BY <2>1, <2>3, <3>1, <3>2 DEF Skips, ItemStep
  <2>4. CASE ~(row[f].version >= th[t].got.version)
    <3> DEFINE pc == IF th[t].got.deleted THEN "write" ELSE "compare"
    <3>1. th' = [th EXCEPT ![t] = [th[t] EXCEPT !.st = row[f], !.pc = pc]]
      BY <1>5, <2>4 DEF CheckRow
    <3>2. pc \in {"compare", "write"}  OBVIOUS
    <3> HIDE DEF pc
    <3>3. Sets(t, pc, th[t].todo, th[t].got, row[f])
      BY <1>0, <3>1 DEF Thread, Sets, Keeps, Others
    <3>4. UNCHANGED deliveryVars  BY <1>5 DEF CheckRow, deliveryVars
    <3>5. row[f].version < th[t].got.version  BY <2>2, <2>4
    <3> QED  BY <2>1, <3>2, <3>3, <3>4, <3>5 DEF Decides, ItemStep
  <2> QED  BY <2>3, <2>4
<1>6. CASE CompareDisk(t)
  <2> DEFINE edited == disk[f] # 0 /\ th[t].st.hash # 0 /\ disk[f] # th[t].st.hash
  <2>1. At(t, "compare", f)  BY <1>1, <1>2, <1>6 DEF At, CompareDisk
  <2>2. CASE edited
    <3>1. th' = [th EXCEPT ![t] = ItemDone(t)] /\ conflict' = conflict \cup {f}
      BY <1>6, <2>2 DEF CompareDisk
    <3>2. Leaves(t)  BY <1>1, <3>1, LeavesFrom
    <3> QED  BY <1>6, <2>1, <2>2, <3>1, <3>2 DEF CompareDisk, Clashes, ItemStep
  <2>3. CASE ~edited
    <3>1. th' = [th EXCEPT ![t] = [th[t] EXCEPT !.pc = "write"]] /\ conflict' = conflict
      BY <1>6, <2>3 DEF CompareDisk
    <3>2. Sets(t, "write", th[t].todo, th[t].got, th[t].st)
      BY <1>0, <3>1 DEF Thread, Sets, Keeps, Others
    <3> QED  BY <1>6, <2>1, <3>1, <3>2 DEF CompareDisk, Passes, ItemStep, deliveryVars
  <2> QED  BY <2>2, <2>3
<1>7. CASE WriteDisk(t)
  <2>1. At(t, "write", f)  BY <1>1, <1>2, <1>7 DEF At, WriteDisk
  <2>2. Sets(t, "save", th[t].todo, th[t].got, th[t].st)
    BY <1>0, <1>7 DEF WriteDisk, Thread, Sets, Keeps, Others
  <2>3. Writes(t, f)  BY <1>7, <2>1, <2>2 DEF WriteDisk, Writes
  <2> QED  BY <2>3 DEF ItemStep
<1>8. CASE SaveRow(t)
  <2>1. At(t, "save", f)  BY <1>1, <1>2, <1>8 DEF At, SaveRow
  <2>2. Leaves(t)  BY <1>1, <1>8, LeavesFrom DEF SaveRow
  <2> DEFINE g == th[t].got
             s == th[t].st
  <2>3. s \in Row /\ row \in [Files -> Row]  BY <1>0 DEF Thread, TypeInv, TypeOK
  <2>4. [s EXCEPT !.version = g.version] = [version |-> g.version, hash |-> s.hash]
    BY <2>3 DEF Row
  <2>5. \/ ~g.deleted /\ row' = [row EXCEPT ![f] = [version |-> g.version, hash |-> g.version]]
        \/ g.deleted /\ row' = row
        \/ g.deleted /\ row' = [row EXCEPT ![f] = [version |-> g.version, hash |-> s.hash]]
    <3>1. CASE ~g.deleted  BY <1>8, <3>1 DEF SaveRow
    <3>2. CASE g.deleted /\ s = NoRow
      <4>1. row' = [row EXCEPT ![f] = row[f]]  BY <1>8, <3>2 DEF SaveRow
      <4>2. row' = row  BY <2>3, <4>1
      <4> QED  BY <3>2, <4>2
    <3>3. CASE g.deleted /\ s # NoRow
      <4>1. row' = [row EXCEPT ![f] = [s EXCEPT !.version = g.version]]
        BY <1>8, <3>3 DEF SaveRow
      <4> QED  BY <2>4, <3>3, <4>1
    <3> QED  BY <3>1, <3>2, <3>3
  <2>6. Saves(t, f)  BY <1>8, <2>1, <2>2, <2>5 DEF SaveRow, Saves
  <2> QED  BY <2>6 DEF ItemStep
<1>9. CASE ApplyFail(t) /\ th[t].pulling
  <2>1. At(t, "write", f) \/ At(t, "item", f)  BY <1>1, <1>2, <1>9 DEF At, ApplyFail
  <2>2. Leaves(t)  BY <1>1, <1>9, LeavesFrom DEF ApplyFail
  <2>3. Drops(t, f)  BY <1>9, <2>1, <2>2 DEF ApplyFail, Drops
  <2> QED  BY <2>3 DEF ItemStep
<1> QED  BY <1>4, <1>5, <1>6, <1>7, <1>8, <1>9

\* Every step is one of these.
LEMMA Steps ==
    ASSUME TypeInv, SeqInv, [Next]_vars
    PROVE  \/ StoreStep \/ Reopens
           \/ \E t \in Threads : FeedStep(t) \/ \E f \in Files : ItemStep(t, f)
<1>1. CASE UNCHANGED vars
  BY <1>1 DEF vars, StoreStep, deliveryVars, storeVars, deviceVars, obsVars
<1>2. CASE Restart
  <2>1. Reopens  BY <1>2 DEF Restart, Reopens, storeVars, deviceVars
  <2> QED  BY <2>1
<1>3. CASE Poll \/ onWsEvent
  BY <1>3, FeedSteps, ThreadsThere DEF onWsEvent
<1>4. ASSUME NEW t \in Threads, ThreadStep(t) \/ PullFail(t) \/ ApplyFail(t)
      PROVE  FeedStep(t) \/ \E f \in Files : ItemStep(t, f)
  BY <1>4, FeedSteps, ItemSteps DEF ThreadStep
<1> QED  BY <1>1, <1>2, <1>3, <1>4, StoreSteps DEF Next

\* A device step leaves the server's numbers alone.
LEMMA SeqKept == TypeInv /\ SeqInv /\ [Next]_vars => SeqInv'
<1> SUFFICES ASSUME TypeInv, SeqInv, [Next]_vars PROVE SeqInv'  OBVIOUS
<1> USE DEF deviceVars, obsVars, storeVars
<1>1. ASSUME UNCHANGED <<changes, nextSeq, tx>>, Known(cursor'),
             \A t \in Threads : Known(th'[t].since) /\ Known(th'[t].latest)
      PROVE  SeqInv'
  BY <1>1 DEF SeqInv, Known, Numbered
<1>2. Known(0)  BY DEF Known
<1>3. Idle.since = 0 /\ Idle.latest = 0  BY DEF Idle
<1>4. Pulling.since = cursor /\ Pulling.latest = 0  BY DEF Pulling, Idle
<1>5. ASSUME NEW t \in Threads, FeedStep(t)
      PROVE  Known(cursor') /\ \A u \in Threads : Known(th'[u].since) /\ Known(th'[u].latest)
  <2>1. Known(cursor')
    BY <1>5 DEF FeedStep, Rests, Pulls, Replied, Notified, SeqInv, deliveryVars
  <2>2. Known(th'[t].since) /\ Known(th'[t].latest)
    BY <1>2, <1>3, <1>4, <1>5 DEF FeedStep, Rests, Pulls, Replied, Notified, SeqInv, Known
  <2>3. \A u \in Threads : u # t => th'[u] = th[u]
    BY <1>5 DEF FeedStep, Rests, Pulls, Replied, Notified, Others
  <2> QED  BY <2>1, <2>2, <2>3 DEF SeqInv
<1>6. ASSUME NEW t \in Threads, NEW f \in Files, ItemStep(t, f)
      PROVE  Known(cursor') /\ \A u \in Threads : Known(th'[u].since) /\ Known(th'[u].latest)
  <2>1. cursor' = cursor /\ Keeps(t) /\ Others(t)
    BY <1>6 DEF ItemStep, Gets, Skips, Decides, Clashes, Passes, Writes, Saves, Drops,
                Leaves, Sets, deliveryVars
  <2> QED  BY <2>1 DEF SeqInv, Keeps, Others
<1>7. CASE UNCHANGED vars
  BY <1>1, <1>7 DEF vars, SeqInv
<1>8. CASE Connect \/ Disconnect
  BY <1>1, <1>8 DEF Connect, Disconnect, SeqInv
<1>9. CASE Restart
  BY <1>1, <1>2, <1>3, <1>9 DEF Restart, SeqInv
<1>10. CASE Poll \/ onWsEvent
  <2>1. PICK t \in Threads : FeedStep(t)
    BY <1>10, FeedSteps, ThreadsThere DEF onWsEvent
  <2>2. UNCHANGED <<changes, nextSeq, tx>>  BY <1>10 DEF Poll, onWsEvent
  <2> QED  BY <1>1, <1>5, <2>1, <2>2
<1>11. ASSUME NEW t \in Threads, ThreadStep(t) \/ PullFail(t) \/ ApplyFail(t)
       PROVE  SeqInv'
  <2>1. UNCHANGED <<changes, nextSeq, tx>>
    BY <1>11 DEF ThreadStep, PullReply, FinishPull, GetFile, CheckRow, CompareDisk,
                 WriteDisk, SaveRow, PullFail, ApplyFail
  <2>2. FeedStep(t) \/ \E f \in Files : ItemStep(t, f)
    BY <1>11, FeedSteps, ItemSteps DEF ThreadStep
  <2> QED  BY <1>1, <1>5, <1>6, <2>1, <2>2
<1> QED  BY <1>7, <1>8, <1>9, <1>10, <1>11, ServerNumbers DEF Next

-----------------------------------------------------------------------------
(* Versions, overlaps and the steps of a download.                         *)

DeviceInv == VersionInv /\ OverlapInv /\ StepInv

\* The numbers are numbers.
LEMMA Nats ==
    ASSUME TypeInv
    PROVE  /\ \A f \in Files :
                /\ row[f].version \in Nat /\ row[f].hash \in Nat /\ disk[f] \in Nat
                /\ head[f].version \in Nat /\ excused[f] \in Nat
           /\ \A t \in Threads :
                /\ th[t].got.version \in Nat /\ th[t].st.version \in Nat /\ th[t].st.hash \in Nat
                /\ th[t].todo \in Seq(Files)
<1>1. \A t \in Threads : th[t] \in Thread  BY DEF TypeInv, TypeOK
<1>2. \A t \in Threads : th[t].got \in HeadRow /\ th[t].st \in Row /\ th[t].todo \in Seq(Files)
  BY <1>1 DEF Thread
<1>3. \A f \in Files : row[f] \in Row /\ head[f] \in HeadRow /\ disk[f] \in Nat /\ excused[f] \in Nat
  BY DEF TypeInv, TypeOK
<1> QED  BY <1>2, <1>3 DEF HeadRow, Row

\* Where the threads are after one of them left its file ...
LEMMA Gone ==
    ASSUME NEW t \in Threads, Others(t), th'[t].pc \notin Places
    PROVE  /\ \A u \in Threads : u # t => th'[u] = th[u]
           /\ \A u \in Threads, f \in Files :
                /\ Applying(u, f)' <=> u # t /\ Applying(u, f)
                /\ Decided(u, f)' <=> u # t /\ Decided(u, f)
                /\ Saving(u, f)' <=> u # t /\ Saving(u, f)
BY DEF Others, Places, Applying, Decided, Saving, FileAt

\* ... or went on with it.
LEMMA Went ==
    ASSUME NEW t \in Threads, NEW f \in Files, f = FileAt(t), NEW pc \in Places,
           th'[t].pc = pc, th'[t].todo = th[t].todo, Others(t)
    PROVE  /\ \A u \in Threads : u # t => th'[u] = th[u]
           /\ \A u \in Threads, g \in Files :
                /\ Applying(u, g)' <=> (u = t /\ g = f) \/ (u # t /\ Applying(u, g))
                /\ Decided(u, g)' <=> (u = t /\ g = f /\ pc # "check") \/ (u # t /\ Decided(u, g))
                /\ Saving(u, g)' <=> (u = t /\ g = f /\ pc = "save") \/ (u # t /\ Saving(u, g))
<1>1. /\ th'[t].pc = pc /\ th'[t].todo = th[t].todo
      /\ \A u \in Threads : u # t => th'[u] = th[u]  BY DEF Others
<1>2. Head(th[t].todo) = f  BY DEF FileAt
<1>3. ASSUME NEW u \in Threads, u # t, NEW g \in Files
      PROVE  /\ Applying(u, g)' <=> Applying(u, g)
             /\ Decided(u, g)' <=> Decided(u, g)
             /\ Saving(u, g)' <=> Saving(u, g)
  BY <1>1, <1>3 DEF Applying, Decided, Saving, FileAt
<1>4. ASSUME NEW g \in Files
      PROVE  /\ Applying(t, g)' <=> g = f
             /\ Decided(t, g)' <=> g = f /\ pc # "check"
             /\ Saving(t, g)' <=> g = f /\ pc = "save"
  BY <1>1, <1>2 DEF Applying, Decided, Saving, FileAt, Places
<1> QED  BY <1>1, <1>3, <1>4

\* After these steps the thread is at no file.
LEMMA LeftGone ==
    ASSUME NEW t \in Threads,
           Leaves(t) \/ Rests(t) \/ Pulls(t) \/ Replied(t) \/ Notified(t)
    PROVE  Others(t) /\ th'[t].pc \notin Places
<1>1. Idle.pc = "idle" /\ Pulling.pc = "pull"  BY DEF Idle, Pulling
<1>2. Others(t)  BY DEF Leaves, Sets, Rests, Pulls, Replied, Notified
<1>3. th'[t].pc \in {"idle", "pull", "item"}
  BY <1>1 DEF Leaves, Sets, Rests, Pulls, Replied, Notified
<1> QED  BY <1>2, <1>3 DEF Places

\* What being at a place means.
LEMMA AtIs ==
    ASSUME NEW t \in Threads, NEW pc \in Places, NEW f \in Files, At(t, pc, f)
    PROVE  /\ Applying(t, f)
           /\ pc # "check" => Decided(t, f)
           /\ pc = "save" => Saving(t, f)
BY DEF At, Applying, Decided, Saving, Places

\* A thread that saves has decided, and one that has decided is at the file.
LEMMA SavingIs ==
    ASSUME NEW t \in Threads, NEW f \in Files
    PROVE  (Saving(t, f) => Decided(t, f)) /\ (Decided(t, f) => Applying(t, f))
BY DEF Applying, Decided, Saving

\* A mishap is noted with the server's version.
LEMMA MishapIs ==
    ASSUME TypeInv, NEW f \in Files, excused' = Mishap(f)
    PROVE  excused'[f] = head[f].version /\ \A g \in Files \ {f} : excused'[g] = excused[g]
BY DEF Mishap, TypeInv, TypeOK

\* A commit gives the file the next version and leaves the others.
LEMMA CommitIs ==
    ASSUME TypeInv, NEW f \in Files, NEW d \in BOOLEAN, NEW n \in Nat, Commits(f, d, n)
    PROVE  /\ head'[f].version = head[f].version + 1
           /\ \A g \in Files : g # f => head'[g] = head[g] /\ excused'[g] = excused[g]
           /\ \/ excused'[f] = head[f].version + 1
              \/ excused'[f] = excused[f] /\ Newest(n)
<1>1. head' = [head EXCEPT ![f] = [version |-> head[f].version + 1, deleted |-> d]]
  BY DEF Commits, Commit
<1>2. head \in [Files -> HeadRow] /\ excused \in [Files -> Nat]  BY DEF TypeInv, TypeOK
<1>3. head'[f].version = head[f].version + 1 /\ \A g \in Files : g # f => head'[g] = head[g]
  BY <1>1, <1>2
<1> QED  BY <1>2, <1>3 DEF Commits

\* A new version on the server only makes the device's older.
LEMMA StoreDevice ==
    ASSUME TypeInv, DeviceInv, StoreStep
    PROVE  DeviceInv'
<1>0. /\ UNCHANGED <<row, disk, overlapped, th>>
      /\ \A t \in Threads, f \in Files :
           /\ Applying(t, f)' <=> Applying(t, f)
           /\ Decided(t, f)' <=> Decided(t, f)
           /\ Saving(t, f)' <=> Saving(t, f)
  BY DEF StoreStep, Commits, deliveryVars, Applying, Decided, Saving, FileAt
<1>1. CASE UNCHANGED <<deliveryVars, th>>
  BY <1>0, <1>1 DEF DeviceInv, VersionInv, OverlapInv, StepInv, deliveryVars
<1>2. CASE \E f \in Files, d \in BOOLEAN, n \in Nat : Commits(f, d, n)
  <2>1. PICK f \in Files, d \in BOOLEAN, n \in Nat : Commits(f, d, n)  BY <1>2
  <2>2. \A g \in Files :
          /\ head'[g].version >= head[g].version /\ excused'[g] >= excused[g]
          /\ excused'[g] <= head'[g].version
          /\ head'[g] = head[g] \/ head'[g].version = head[g].version + 1
    BY <2>1, CommitIs, Nats DEF DeviceInv, VersionInv
  <2>3. head' \in [Files -> HeadRow] /\ excused' \in [Files -> Nat]
    <3>1. head'[f] \in HeadRow /\ head' = [head EXCEPT ![f] = head'[f]]
      BY <2>1, Nats DEF Commits, Commit, HeadRow, TypeInv, TypeOK
    <3>2. head' \in [Files -> HeadRow]  BY <3>1 DEF TypeInv, TypeOK
    <3> QED  BY <2>1, <3>2, Nats DEF Commits, TypeInv, TypeOK
  <2>4. \A g \in Files : head'[g].version \in Nat /\ excused'[g] \in Nat
    BY <2>3 DEF HeadRow
  <2>5. VersionInv'  BY <1>0, <2>2, <2>4, Nats, SMTT(30) DEF DeviceInv, VersionInv
  <2>6. OverlapInv'  BY <1>0, <2>2, <2>4, Nats DEF DeviceInv, OverlapInv
  <2>7. StepInv'  BY <1>0, <2>2, <2>4, Nats DEF DeviceInv, StepInv
  <2> QED  BY <2>5, <2>6, <2>7 DEF DeviceInv
<1> QED  BY <1>1, <1>2 DEF StoreStep

\* Leaving a file disturbs nothing; the row written last is not among this.
LEMMA LeaveDevice ==
    ASSUME TypeInv, DeviceInv, NEW t \in Threads, Others(t), th'[t].pc \notin Places,
           UNCHANGED <<head, row, disk, overlapped>>,
           \A f \in Files : /\ excused'[f] \in Nat /\ excused'[f] >= excused[f]
                            /\ excused'[f] <= head[f].version
    PROVE  DeviceInv'
<1>1. VersionInv'  BY Gone, Nats DEF DeviceInv, VersionInv
<1>2. OverlapInv'  BY Gone, Nats, SMTT(30) DEF DeviceInv, OverlapInv
<1>3. StepInv'  BY Gone, Nats, SMTT(30) DEF DeviceInv, StepInv
<1> QED  BY <1>1, <1>2, <1>3 DEF DeviceInv

\* Pulls and events leave the device's files alone.
LEMMA FeedDevice ==
    ASSUME TypeInv, DeviceInv, NEW t \in Threads, FeedStep(t)
    PROVE  DeviceInv'
<1>1. Others(t) /\ th'[t].pc \notin Places  BY LeftGone DEF FeedStep
<1>2. UNCHANGED <<head, row, disk, overlapped, excused>>
  BY DEF FeedStep, Rests, Pulls, Replied, Notified, deliveryVars
<1>3. \A f \in Files : excused[f] \in Nat /\ excused[f] <= head[f].version
  BY Nats DEF DeviceInv, VersionInv
<1> QED  BY <1>1, <1>2, <1>3, LeaveDevice

\* The answer to GET /sync/files/{id} is the server's row; the mishap is noted when
\* another thread is at the file.
LEMMA GetsDevice ==
    ASSUME TypeInv, DeviceInv, NEW t \in Threads, NEW f \in Files, Gets(t, f)
    PROVE  DeviceInv'
<1>0. /\ \A u \in Threads : u # t => th'[u] = th[u]
      /\ th'[t].got = head[f] /\ th'[t].st = th[t].st
      /\ \A u \in Threads, g \in Files :
           /\ Applying(u, g)' <=> (u = t /\ g = f) \/ (u # t /\ Applying(u, g))
           /\ Decided(u, g)' <=> u # t /\ Decided(u, g)
           /\ Saving(u, g)' <=> u # t /\ Saving(u, g)
  <2>1. "check" \in Places /\ f = FileAt(t)  BY DEF Places, Gets, At
  <2>2. /\ th'[t].pc = "check" /\ th'[t].todo = th[t].todo /\ Others(t)
        /\ th'[t].got = head[f] /\ th'[t].st = th[t].st
    BY DEF Gets, Sets
  <2> QED  BY <2>1, <2>2, Went
<1>1. UNCHANGED <<head, row, disk>>  BY DEF Gets
<1>2. \A g \in Files : /\ excused'[g] \in Nat /\ excused'[g] >= excused[g]
                       /\ excused'[g] <= head[g].version
  BY MishapIs, Nats DEF Gets, DeviceInv, VersionInv
<1>3. overlapped \subseteq overlapped'  BY DEF Gets
<1>4. VersionInv'  BY <1>0, <1>1, <1>2, Nats DEF DeviceInv, VersionInv
<1>5. ASSUME NEW u \in Threads, u # t, Applying(u, f)
      PROVE  /\ f \in overlapped' /\ excused'[f] = head[f].version
             /\ th[u].got.version <= head[f].version
  BY <1>5, MishapIs DEF Gets, DeviceInv, VersionInv
<1>6. OverlapInv'
  <2> SUFFICES ASSUME NEW u \in Threads, NEW v \in Threads, NEW g \in Files,
                      u # v, Applying(u, g)', Applying(v, g)'
               PROVE  g \in overlapped' /\ excused'[g] >= th'[u].got.version
    BY DEF OverlapInv
  <2>1. CASE u = t  BY <1>0, <1>5, <2>1, Nats
  <2>2. CASE v = t  BY <1>0, <1>5, <2>2, Nats
  <2>3. CASE u # t /\ v # t
    <3>1. Applying(u, g) /\ Applying(v, g) /\ th'[u] = th[u]  BY <1>0, <2>3
    <3>2. g \in overlapped /\ excused[g] >= th[u].got.version  BY <3>1 DEF DeviceInv, OverlapInv
    <3> QED  BY <1>2, <1>3, <3>1, <3>2, Nats
  <2> QED  BY <2>1, <2>2, <2>3
<1>7. StepInv'  BY <1>0, <1>1, <1>2, <1>3, Nats DEF DeviceInv, StepInv
<1> QED  BY <1>4, <1>6, <1>7 DEF DeviceInv

\* The row is read, or the disk compared with it.
LEMMA ReadsDevice ==
    ASSUME TypeInv, DeviceInv, NEW t \in Threads, NEW f \in Files, Decides(t, f) \/ Passes(t, f)
    PROVE  DeviceInv'
<1>1. PICK pc \in {"compare", "write"}, st \in {row[f], th[t].st} :
        /\ Sets(t, pc, th[t].todo, th[t].got, st)
        /\ \/ st = row[f] /\ row[f].version < th[t].got.version
           \/ st = th[t].st /\ Decided(t, f)
  <2>1. CASE Decides(t, f)
    <3>1. PICK pc \in {"compare", "write"} : Sets(t, pc, th[t].todo, th[t].got, row[f])
      BY <2>1 DEF Decides
    <3>2. row[f].version < th[t].got.version  BY <2>1 DEF Decides
    <3>3. row[f] \in {row[f], th[t].st}  OBVIOUS
    <3> QED  BY <3>1, <3>2, <3>3
  <2>2. CASE Passes(t, f)
    <3>1. "compare" \in Places /\ "compare" # "check"  BY DEF Places
    <3>2. Decided(t, f)  BY <2>2, <3>1, AtIs DEF Passes
    <3> QED  BY <2>2, <3>2 DEF Passes
  <2> QED  BY <2>1, <2>2
<1>2. PICK pc0 \in Places : At(t, pc0, f)  BY DEF Decides, Passes, Places
<1>3. pc \in Places /\ pc # "check" /\ pc # "save"  BY DEF Places
<1>4. /\ \A u \in Threads : u # t => th'[u] = th[u]
      /\ th'[t].got = th[t].got /\ th'[t].st = st
      /\ \A u \in Threads, g \in Files :
           /\ Applying(u, g)' <=> (u = t /\ g = f) \/ (u # t /\ Applying(u, g))
           /\ Decided(u, g)' <=> (u = t /\ g = f) \/ (u # t /\ Decided(u, g))
           /\ Saving(u, g)' <=> u # t /\ Saving(u, g)
  <2>1. /\ th'[t].pc = pc /\ th'[t].todo = th[t].todo /\ Others(t)
        /\ th'[t].got = th[t].got /\ th'[t].st = st /\ f = FileAt(t)
    BY <1>1, <1>2 DEF Sets, At
  <2> QED  BY <1>3, <2>1, Went
<1>5. Applying(t, f)  BY <1>2, AtIs
<1>6. UNCHANGED <<head, row, disk, excused, overlapped>>
  BY DEF Decides, Passes, deliveryVars
<1>7. \A u \in Threads, g \in Files :
        (Applying(u, g)' => Applying(u, g)) /\ th'[u].got = th[u].got
  BY <1>4, <1>5
<1>8. VersionInv'  BY <1>6, <1>7 DEF DeviceInv, VersionInv
<1>9. OverlapInv'  BY <1>6, <1>7 DEF DeviceInv, OverlapInv
<1>10. /\ st.hash <= st.version /\ st.version < th[t].got.version
       /\ \/ row[f] = st
          \/ /\ excused[f] >= th[t].got.version /\ excused[f] >= row[f].version
             /\ f \in overlapped
  BY <1>1 DEF DeviceInv, StepInv, VersionInv
<1>11. StepInv'  BY <1>4, <1>6, <1>10 DEF DeviceInv, StepInv
<1> QED  BY <1>8, <1>9, <1>11 DEF DeviceInv

\* The disk is written: what another thread wrote before was excused when it came.
LEMMA WritesDevice ==
    ASSUME TypeInv, DeviceInv, NEW t \in Threads, NEW f \in Files, Writes(t, f)
    PROVE  DeviceInv'
<1>0. "write" \in Places /\ "save" \in Places  BY DEF Places
<1>1. Applying(t, f) /\ Decided(t, f)  BY <1>0, AtIs DEF Writes
<1>2. /\ \A u \in Threads : u # t => th'[u] = th[u]
      /\ th'[t].got = th[t].got /\ th'[t].st = th[t].st
      /\ \A u \in Threads, g \in Files :
           /\ Applying(u, g)' <=> (u = t /\ g = f) \/ (u # t /\ Applying(u, g))
           /\ Decided(u, g)' <=> (u = t /\ g = f) \/ (u # t /\ Decided(u, g))
           /\ Saving(u, g)' <=> (u = t /\ g = f) \/ (u # t /\ Saving(u, g))
  <2>1. /\ th'[t].pc = "save" /\ th'[t].todo = th[t].todo /\ Others(t)
        /\ th'[t].got = th[t].got /\ th'[t].st = th[t].st /\ f = FileAt(t)
    BY DEF Writes, Sets, At
  <2> QED  BY <1>0, <2>1, Went
<1>3. UNCHANGED <<head, row, overlapped>>  BY DEF Writes
<1>4. \A g \in Files : /\ excused'[g] \in Nat /\ excused'[g] >= excused[g]
                       /\ excused'[g] <= head[g].version
  BY MishapIs, Nats DEF Writes, DeviceInv, VersionInv
<1>5. /\ \A g \in Files : g # f => disk'[g] = disk[g]
      /\ disk'[f] = Content(th[t].got) \/ (disk'[f] = disk[f] /\ th[t].got.deleted)
  BY DEF Writes, TypeInv, TypeOK
<1>6. th[t].got.version <= head[f].version /\ th[t].got.version \in Nat /\ head[f].version \in Nat
  BY <1>1, Nats DEF DeviceInv, VersionInv
<1>7. \A g \in Files : disk'[g] <= head[g].version
  BY <1>5, <1>6, Nats DEF DeviceInv, VersionInv, Content
<1>8. \A u \in Threads, g \in Files :
        /\ Applying(u, g)' => Applying(u, g)
        /\ Decided(u, g)' => Decided(u, g)
        /\ th'[u].got = th[u].got /\ th'[u].st = th[u].st
  BY <1>1, <1>2
<1>9. VersionInv'  BY <1>3, <1>4, <1>7, <1>8 DEF DeviceInv, VersionInv
<1>10. OverlapInv'  BY <1>3, <1>4, <1>8, Nats, SMTT(30) DEF DeviceInv, OverlapInv
<1>11. ASSUME NEW u \in Threads, NEW g \in Files, Saving(u, g)', ~th'[u].got.deleted
       PROVE  disk'[g] = th'[u].got.version \/ excused'[g] >= th'[u].got.version
  <2>1. CASE u = t
    <3>1. g = f /\ ~th[t].got.deleted  BY <1>2, <1>11, <2>1
    <3> QED  BY <1>2, <1>5, <2>1, <3>1 DEF Content
  <2>2. CASE u # t /\ g = f
    <3>1. Applying(u, f)  BY <1>2, <1>11, <2>2, SavingIs
    <3>2. excused[f] >= th[u].got.version  BY <1>1, <2>2, <3>1 DEF DeviceInv, OverlapInv
    <3> QED  BY <1>4, <1>8, <2>2, <3>2, Nats
  <2>3. CASE u # t /\ g # f
    <3>1. Saving(u, g) /\ th'[u].got = th[u].got  BY <1>2, <1>11, <2>3
    <3>2. disk[g] = th[u].got.version \/ excused[g] >= th[u].got.version
      BY <1>11, <3>1 DEF DeviceInv, StepInv
    <3> QED  BY <1>4, <1>5, <2>3, <3>1, <3>2, Nats
  <2> QED  BY <2>1, <2>2, <2>3
<1>12. StepInv'  BY <1>3, <1>4, <1>8, <1>11, Nats, SMTT(30) DEF DeviceInv, StepInv
<1> QED  BY <1>9, <1>10, <1>12 DEF DeviceInv

\* The row is written: the same for the rows others have read.
LEMMA SavesDevice ==
    ASSUME TypeInv, DeviceInv, NEW t \in Threads, NEW f \in Files, Saves(t, f)
    PROVE  DeviceInv'
<1>0. "save" \in Places  BY DEF Places
<1>1. Applying(t, f) /\ Decided(t, f)  BY <1>0, AtIs DEF Saves
<1>2. /\ \A u \in Threads : u # t => th'[u] = th[u]
      /\ \A u \in Threads, g \in Files :
           /\ Applying(u, g)' <=> u # t /\ Applying(u, g)
           /\ Decided(u, g)' <=> u # t /\ Decided(u, g)
           /\ Saving(u, g)' <=> u # t /\ Saving(u, g)
  BY LeftGone, Gone DEF Saves
<1>3. UNCHANGED <<head, disk, excused, overlapped>>  BY DEF Saves
<1>4. /\ \A g \in Files : g # f => row'[g] = row[g]
      /\ \/ row'[f] = row[f]
         \/ /\ row'[f].version = th[t].got.version
            /\ row'[f].hash = th[t].got.version \/ row'[f].hash = th[t].st.hash
  BY DEF Saves, TypeInv, TypeOK
<1>5. /\ th[t].st.hash <= th[t].st.version /\ th[t].st.version < th[t].got.version
      /\ th[t].got.version <= head[f].version
  BY <1>1 DEF DeviceInv, StepInv, VersionInv
<1>6. \A g \in Files : row'[g].hash <= row'[g].version /\ row'[g].version <= head[g].version
  BY <1>4, <1>5, Nats DEF DeviceInv, VersionInv
<1>7. VersionInv'  BY <1>2, <1>3, <1>6 DEF DeviceInv, VersionInv
<1>8. OverlapInv'  BY <1>2, <1>3 DEF DeviceInv, OverlapInv
<1>9. ASSUME NEW u \in Threads, NEW g \in Files, Decided(u, g)'
      PROVE  \/ row'[g] = th'[u].st
             \/ /\ excused[g] >= th'[u].got.version /\ excused[g] >= row'[g].version
                /\ g \in overlapped
  <2>1. u # t /\ Decided(u, g) /\ th'[u] = th[u]  BY <1>2, <1>9
  <2>2. \/ row[g] = th[u].st
        \/ /\ excused[g] >= th[u].got.version /\ excused[g] >= row[g].version
           /\ g \in overlapped
    BY <2>1 DEF DeviceInv, StepInv
  <2>3. CASE g # f \/ row'[f] = row[f]  BY <1>4, <2>1, <2>2, <2>3
  <2>4. CASE g = f /\ row'[f].version = th[t].got.version
    <3>1. Applying(u, f)  BY <2>1, <2>4, SavingIs
    <3>2. /\ excused[f] >= th[u].got.version /\ excused[f] >= th[t].got.version
          /\ f \in overlapped
      BY <1>1, <2>1, <3>1 DEF DeviceInv, OverlapInv
    <3> QED  BY <2>1, <2>4, <3>2
  <2> QED  BY <1>4, <2>3, <2>4
<1>10. StepInv'  BY <1>2, <1>3, <1>9 DEF DeviceInv, StepInv
<1> QED  BY <1>7, <1>8, <1>10 DEF DeviceInv

\* Every step keeps what is known of versions, overlaps and downloads.
LEMMA DeviceKept == TypeInv /\ SeqInv /\ DeviceInv /\ [Next]_vars => DeviceInv'
<1> SUFFICES ASSUME TypeInv, SeqInv, DeviceInv, [Next]_vars PROVE DeviceInv'  OBVIOUS
<1>1. CASE Reopens
  <2>1. Idle.pc = "idle"  BY DEF Idle
  <2>2. \A t \in Threads, f \in Files : ~Applying(t, f)' /\ ~Decided(t, f)' /\ ~Saving(t, f)'
    BY <1>1, <2>1 DEF Reopens, Applying, Decided, Saving
  <2>3. UNCHANGED <<head, row, disk, excused, overlapped>>  BY <1>1 DEF Reopens
  <2> QED  BY <2>2, <2>3 DEF DeviceInv, VersionInv, OverlapInv, StepInv
<1>2. ASSUME NEW t \in Threads, NEW f \in Files, ItemStep(t, f) PROVE DeviceInv'
  <2>1. CASE Skips(t, f) \/ Clashes(t, f) \/ Drops(t, f)
    <3>1. Leaves(t) /\ UNCHANGED <<head, row, disk, overlapped>>
      BY <2>1 DEF Skips, Clashes, Drops, deliveryVars
    <3>2. excused' = excused \/ excused' = Mishap(f)
      BY <2>1 DEF Skips, Clashes, Drops, deliveryVars
    <3>3. \A g \in Files : /\ excused'[g] \in Nat /\ excused'[g] >= excused[g]
                           /\ excused'[g] <= head[g].version
      BY <3>2, MishapIs, Nats DEF DeviceInv, VersionInv
    <3> QED  BY <3>1, <3>3, LeftGone, LeaveDevice
  <2> QED  BY <1>2, <2>1, GetsDevice, ReadsDevice, WritesDevice, SavesDevice DEF ItemStep
<1> QED  BY <1>1, <1>2, Steps, StoreDevice, FeedDevice

\* A mishap on record is never forgotten.
LEMMA ExcusedGrows ==
    ASSUME TypeInv, SeqInv, DeviceInv, [Next]_vars
    PROVE  \A f \in Files : excused'[f] \in Nat /\ excused'[f] >= excused[f]
<1>1. \A f \in Files : excused[f] \in Nat /\ head[f].version \in Nat
                       /\ excused[f] <= head[f].version
  BY Nats DEF DeviceInv, VersionInv
<1>2. excused' \in [Files -> Nat]  BY TypeKept DEF TypeInv, TypeOK
<1>3. CASE StoreStep
  <2>1. CASE UNCHANGED <<deliveryVars, th>>  BY <1>1, <2>1 DEF deliveryVars
  <2>2. ASSUME NEW f \in Files, NEW d \in BOOLEAN, NEW n \in Nat, Commits(f, d, n)
        PROVE  \A g \in Files : excused'[g] >= excused[g]
    BY <1>1, <2>2, CommitIs
  <2> QED  BY <1>2, <1>3, <2>1, <2>2 DEF StoreStep
<1>4. ASSUME NEW t \in Threads, FeedStep(t) PROVE excused' = excused
  BY <1>4 DEF FeedStep, Rests, Pulls, Replied, Notified, deliveryVars
<1>5. ASSUME NEW t \in Threads, NEW f \in Files, ItemStep(t, f)
      PROVE  excused' = excused \/ excused' = Mishap(f)
  BY <1>5 DEF ItemStep, Gets, Skips, Decides, Clashes, Passes, Writes, Saves, Drops, deliveryVars
<1>6. CASE Reopens  BY <1>1, <1>6 DEF Reopens
<1> QED  BY <1>1, <1>2, <1>3, <1>4, <1>5, <1>6, MishapIs, Steps

\* The database stays behind the disk.
LEMMA AheadKept ==
    TypeInv /\ SeqInv /\ DeviceInv /\ RowNeverAhead /\ [Next]_vars => RowNeverAhead'
<1> SUFFICES ASSUME TypeInv, SeqInv, DeviceInv, RowNeverAhead, [Next]_vars PROVE RowNeverAhead'
  OBVIOUS
<1>1. \A f \in Files : excused'[f] \in Nat /\ excused'[f] >= excused[f]  BY ExcusedGrows
<1>2. ASSUME UNCHANGED <<row, disk>> PROVE RowNeverAhead'
  BY <1>1, <1>2, Nats DEF RowNeverAhead
<1>3. CASE StoreStep \/ Reopens
  BY <1>2, <1>3 DEF StoreStep, Commits, Reopens, deliveryVars
<1>4. ASSUME NEW t \in Threads, FeedStep(t) PROVE RowNeverAhead'
  BY <1>2, <1>4 DEF FeedStep, Rests, Pulls, Replied, Notified, deliveryVars
<1>5. ASSUME NEW t \in Threads, NEW f \in Files, ItemStep(t, f) PROVE RowNeverAhead'
  <2>1. CASE \/ Gets(t, f) \/ Skips(t, f) \/ Decides(t, f) \/ Clashes(t, f) \/ Passes(t, f)
             \/ Drops(t, f)
    BY <1>2, <2>1 DEF Gets, Skips, Decides, Clashes, Passes, Drops, deliveryVars
  <2>2. CASE Writes(t, f)
    <3>0. "write" \in Places  BY DEF Places
    <3>1. Decided(t, f)  BY <2>2, <3>0, AtIs DEF Writes
    <3>2. /\ th[t].st.hash <= th[t].st.version /\ th[t].st.version < th[t].got.version
          /\ row[f] = th[t].st \/ excused[f] >= row[f].version
      BY <3>1 DEF DeviceInv, StepInv
    <3>3. row[f].hash <= row[f].version  BY DEF DeviceInv, VersionInv
    <3>4. /\ \A g \in Files : g # f => disk'[g] = disk[g]
          /\ disk'[f] = 0 \/ disk'[f] = th[t].got.version \/ disk'[f] = disk[f]
      BY <2>2 DEF Writes, TypeInv, TypeOK, Content
    <3>5. row' = row  BY <2>2 DEF Writes
    <3>6. disk'[f] # 0 => disk'[f] >= row[f].hash \/ excused'[f] >= row[f].hash
      BY <1>1, <3>2, <3>3, <3>4, Nats DEF RowNeverAhead
    <3>7. \A g \in Files : g # f /\ disk'[g] # 0 => disk'[g] >= row[g].hash \/ excused'[g] >= row[g].hash
      BY <1>1, <3>4, Nats DEF RowNeverAhead
    <3> QED  BY <3>5, <3>6, <3>7 DEF RowNeverAhead
  <2>3. CASE Saves(t, f)
    <3>0. "save" \in Places /\ "save" # "check"  BY DEF Places
    <3>1. Decided(t, f) /\ Saving(t, f)  BY <2>3, <3>0, AtIs DEF Saves
    <3>2. /\ th[t].st.hash <= th[t].st.version /\ th[t].st.version < th[t].got.version
          /\ row[f] = th[t].st \/ excused[f] >= th[t].got.version
          /\ ~th[t].got.deleted => disk[f] = th[t].got.version \/ excused[f] >= th[t].got.version
      BY <3>1 DEF DeviceInv, StepInv
    <3>3. /\ \A g \in Files : g # f => row'[g] = row[g]
          /\ \/ row'[f] = row[f]
             \/ ~th[t].got.deleted /\ row'[f].hash = th[t].got.version
             \/ row'[f].hash = th[t].st.hash
      BY <2>3 DEF Saves, TypeInv, TypeOK
    <3>4. disk' = disk /\ excused' = excused  BY <2>3 DEF Saves
    <3>5. disk[f] # 0 => disk[f] >= row'[f].hash \/ excused[f] >= row'[f].hash
      <4>1. CASE row'[f] = row[f]  BY <4>1 DEF RowNeverAhead
      <4>2. CASE ~th[t].got.deleted /\ row'[f].hash = th[t].got.version
        BY <3>2, <4>2, Nats
      <4>3. CASE row'[f].hash = th[t].st.hash
        <5>1. CASE row[f] = th[t].st  BY <4>3, <5>1 DEF RowNeverAhead
        <5>2. CASE excused[f] >= th[t].got.version  BY <3>2, <4>3, <5>2, Nats
        <5> QED  BY <3>2, <5>1, <5>2
      <4> QED  BY <3>3, <4>1, <4>2, <4>3
    <3> QED  BY <3>3, <3>4, <3>5 DEF RowNeverAhead
  <2> QED  BY <1>5, <2>1, <2>2, <2>3 DEF ItemStep
<1> QED  BY <1>3, <1>4, <1>5, Steps

-----------------------------------------------------------------------------
(* Conflicts without an edit.                                              *)

\* While f was never overlapped, nobody else is at it, and the row read is there.
LEMMA Alone ==
    ASSUME DeviceInv, NEW t \in Threads, NEW f \in Files, f \notin overlapped, Applying(t, f)
    PROVE  /\ \A u \in Threads : u # t => ~Applying(u, f) /\ ~Saving(u, f)
           /\ Decided(t, f) => row[f] = th[t].st
BY SavingIs DEF DeviceInv, OverlapInv, StepInv

\* A step that leaves the disk, the rows and whoever is between the two alone.
LEMMA CauseSame ==
    ASSUME CauseInv, UNCHANGED <<row, disk, conflict, restarts>>, overlapped \subseteq overlapped',
           \A t \in Threads, f \in Files :
              /\ Saving(t, f)' <=> Saving(t, f)
              /\ Saving(t, f) => th'[t].got = th[t].got
    PROVE  CauseInv'
<1>1. \A f \in Files : Between(f) => Between(f)'  BY DEF Between
<1> QED  BY <1>1 DEF CauseInv

\* Without restarts and overlaps every step keeps the disk as the row describes it.
LEMMA CauseKept ==
    TypeInv /\ SeqInv /\ DeviceInv /\ CauseInv /\ [Next]_vars => CauseInv'
<1> SUFFICES ASSUME TypeInv, SeqInv, DeviceInv, CauseInv, [Next]_vars PROVE CauseInv'  OBVIOUS
<1>1. CASE StoreStep
  <2>1. UNCHANGED <<row, disk, conflict, restarts, overlapped, th>>
    BY <1>1 DEF StoreStep, Commits, deliveryVars
  <2>2. \A t \in Threads, f \in Files : Saving(t, f)' <=> Saving(t, f)
    BY <2>1 DEF Saving, FileAt
  <2> QED  BY <2>1, <2>2, CauseSame
<1>2. CASE Reopens
  <2>1. restarts \in Nat /\ restarts' = restarts + 1
    BY <1>2, DeliveryAssumption DEF Reopens, TypeInv, TypeOK
  <2>2. restarts' # 0  BY <2>1
  <2> QED  BY <2>2 DEF CauseInv
<1>3. ASSUME NEW t \in Threads, Others(t), th'[t].pc \notin Places, th[t].pc # "save",
             UNCHANGED <<row, disk, conflict, restarts, overlapped>>
      PROVE  CauseInv'
  <2>1. \A f \in Files : ~Saving(t, f)  BY <1>3 DEF Saving
  <2>2. \A u \in Threads, f \in Files : Saving(u, f)' <=> Saving(u, f)  BY <1>3, <2>1, Gone
  <2>3. \A u \in Threads, f \in Files : Saving(u, f) => th'[u].got = th[u].got
    BY <1>3, <2>1 DEF Others
  <2> QED  BY <1>3, <2>2, <2>3, CauseSame
<1>4. ASSUME NEW t \in Threads, FeedStep(t) PROVE CauseInv'
  <2>1. Others(t) /\ th'[t].pc \notin Places  BY <1>4, LeftGone DEF FeedStep
  <2>2. th[t].pc # "save" /\ UNCHANGED <<row, disk, conflict, restarts, overlapped>>
    BY <1>4 DEF FeedStep, Rests, Pulls, Replied, Notified, deliveryVars
  <2> QED  BY <1>3, <2>1, <2>2
<1>5. ASSUME NEW t \in Threads, NEW f \in Files, Skips(t, f) \/ Drops(t, f) PROVE CauseInv'
  <2>1. Leaves(t) /\ th[t].pc # "save" /\ UNCHANGED <<row, disk, conflict, restarts, overlapped>>
    BY <1>5 DEF Skips, Drops, At, deliveryVars
  <2> QED  BY <1>3, <2>1, LeftGone
<1>6. ASSUME NEW t \in Threads, NEW f \in Files, Gets(t, f) \/ Decides(t, f) \/ Passes(t, f)
      PROVE  CauseInv'
  <2>1. /\ f = FileAt(t) /\ th[t].pc # "save"
        /\ UNCHANGED <<row, disk, conflict, restarts>> /\ overlapped \subseteq overlapped'
    BY <1>6 DEF Gets, Decides, Passes, At, deliveryVars
  <2>2. /\ th'[t].pc \in {"check", "compare", "write"} /\ Others(t)
    BY <1>6 DEF Gets, Decides, Passes, Sets
  <2>3. \A u \in Threads, g \in Files :
          /\ Saving(u, g)' <=> Saving(u, g)
          /\ Saving(u, g) => th'[u].got = th[u].got
    BY <2>1, <2>2 DEF Saving, Others, FileAt
  <2> QED  BY <2>1, <2>3, CauseSame
<1>7. ASSUME NEW t \in Threads, NEW f \in Files, Clashes(t, f) PROVE CauseInv'
  <2>0. "compare" \in Places /\ "compare" # "check"  BY DEF Places
  <2>1. Applying(t, f) /\ Decided(t, f)  BY <1>7, <2>0, AtIs DEF Clashes
  <2>2. ~Saving(t, f)  BY <1>7 DEF Clashes, At, Saving
  <2>3. disk[f] # 0 /\ th[t].st.hash # 0 /\ disk[f] # th[t].st.hash  BY <1>7 DEF Clashes
  <2>4. restarts # 0 \/ f \in overlapped
    <3> SUFFICES ASSUME restarts = 0, f \notin overlapped PROVE FALSE  OBVIOUS
    <3>1. row[f] = th[t].st /\ \A u \in Threads : ~Saving(u, f)  BY <2>1, <2>2, Alone
    <3>2. ~Between(f)  BY <3>1 DEF Between
    <3> QED  BY <2>3, <3>1, <3>2 DEF CauseInv
  <2>5. /\ Leaves(t) /\ UNCHANGED <<row, disk, restarts, overlapped>>
        /\ conflict' = conflict \cup {f}
    BY <1>7 DEF Clashes
  <2>6. Others(t) /\ th'[t].pc \notin Places /\ th[t].pc # "save"
    BY <1>7, <2>5, LeftGone DEF Clashes, At
  <2>7. \A u \in Threads, g \in Files : Saving(u, g)' <=> Saving(u, g)
    <3>1. \A g \in Files : ~Saving(t, g)  BY <2>6 DEF Saving
    <3> QED  BY <2>6, <3>1, Gone
  <2>8. \A u \in Threads, g \in Files : Saving(u, g) => th'[u].got = th[u].got
    BY <2>6 DEF Others, Saving
  <2>9. \A g \in Files : Between(g) => Between(g)'  BY <2>7, <2>8 DEF Between
  <2> QED  BY <2>4, <2>5, <2>7, <2>8, <2>9 DEF CauseInv
<1>8. ASSUME NEW t \in Threads, NEW f \in Files, Writes(t, f) PROVE CauseInv'
  <2>0. "write" \in Places /\ "write" # "check" /\ "save" \in Places  BY DEF Places
  <2>1. Applying(t, f) /\ Decided(t, f)  BY <1>8, <2>0, AtIs DEF Writes
  <2>2. /\ th'[t].pc = "save" /\ th'[t].todo = th[t].todo /\ Others(t)
        /\ th'[t].got = th[t].got /\ f = FileAt(t) /\ th[t].pc = "write"
    BY <1>8 DEF Writes, Sets, At
  <2>3. \A u \in Threads, g \in Files :
          /\ Saving(u, g)' <=> (u = t /\ g = f) \/ (u # t /\ Saving(u, g))
          /\ th'[u].got = th[u].got
    BY <2>0, <2>2, Went DEF Others
  <2>4. /\ \A g \in Files : g # f => disk'[g] = disk[g]
        /\ \/ ~th[t].got.deleted /\ disk'[f] = th[t].got.version
           \/ th[t].got.deleted /\ (disk'[f] = 0 \/ disk'[f] = disk[f])
    BY <1>8 DEF Writes, TypeInv, TypeOK, Content
  <2>5. UNCHANGED <<row, conflict, restarts, overlapped>>  BY <1>8 DEF Writes
  <2> SUFFICES ASSUME restarts = 0, NEW g \in Files \ overlapped
               PROVE  /\ \A u \in Threads : Saving(u, g)' /\ ~th'[u].got.deleted =>
                            disk'[g] = th'[u].got.version
                      /\ ~Between(g)' /\ disk'[g] # 0 /\ row[g].hash # 0 => disk'[g] = row[g].hash
    BY <2>5 DEF CauseInv
  <2>6. CASE g # f
    <3>1. ~Saving(t, g)  BY <2>2 DEF Saving
    <3>2. \A u \in Threads : Saving(u, g)' <=> Saving(u, g)  BY <2>3, <2>6, <3>1
    <3>3. Between(g) => Between(g)'  BY <2>3, <3>2 DEF Between
    <3> QED  BY <2>3, <2>4, <2>6, <3>2, <3>3 DEF CauseInv
  <2>7. CASE g = f
    <3>1. \A u \in Threads : u # t => ~Saving(u, f)  BY <2>1, <2>7, Alone
    <3>2. Saving(t, f)'  BY <2>3
    <3>3. ~th[t].got.deleted => Between(f)'  BY <2>3, <3>2 DEF Between
    <3>4. ~Saving(t, f)  BY <2>2 DEF Saving
    <3>5. ~Between(f)  BY <3>1, <3>4 DEF Between
    <3>6. \A u \in Threads : Saving(u, f)' => u = t  BY <2>3, <3>1
    <3> QED  BY <2>3, <2>4, <2>7, <3>3, <3>5, <3>6 DEF CauseInv
  <2> QED  BY <2>6, <2>7
<1>9. ASSUME NEW t \in Threads, NEW f \in Files, Saves(t, f) PROVE CauseInv'
  <2>0. "save" \in Places /\ "save" # "check"  BY DEF Places
  <2>1. Applying(t, f) /\ Decided(t, f) /\ Saving(t, f)  BY <1>9, <2>0, AtIs DEF Saves
  <2>2. Others(t) /\ th'[t].pc \notin Places  BY <1>9, LeftGone DEF Saves
  <2>3. \A u \in Threads, g \in Files : Saving(u, g)' <=> u # t /\ Saving(u, g)  BY <2>2, Gone
  <2>4. \A u \in Threads : u # t => th'[u] = th[u]  BY <2>2 DEF Others
  <2>5. /\ \A g \in Files : g # f => row'[g] = row[g]
        /\ \/ ~th[t].got.deleted /\ row'[f].hash = th[t].got.version
           \/ th[t].got.deleted /\ (row'[f] = row[f] \/ row'[f].hash = th[t].st.hash)
    BY <1>9 DEF Saves, TypeInv, TypeOK
  <2>6. UNCHANGED <<disk, conflict, restarts, overlapped>>  BY <1>9 DEF Saves
  <2> SUFFICES ASSUME restarts = 0, NEW g \in Files \ overlapped
               PROVE  /\ \A u \in Threads : Saving(u, g)' /\ ~th'[u].got.deleted =>
                            disk[g] = th'[u].got.version
                      /\ ~Between(g)' /\ disk[g] # 0 /\ row'[g].hash # 0 => disk[g] = row'[g].hash
    BY <2>6 DEF CauseInv
  <2>7. CASE g # f
    <3>1. ~Saving(t, g)  BY <2>1, <2>7 DEF Saving
    <3>2. \A u \in Threads : Saving(u, g)' <=> Saving(u, g)  BY <2>3, <3>1
    <3>3. Between(g) => Between(g)'  BY <2>4, <3>1, <3>2 DEF Between
    <3> QED  BY <2>3, <2>4, <2>5, <2>7, <3>3 DEF CauseInv
  <2>8. CASE g = f
    <3>1. row[f] = th[t].st /\ \A u \in Threads : u # t => ~Saving(u, f)
      BY <2>1, <2>8, Alone
    <3>2. \A u \in Threads : ~Saving(u, f)'  BY <2>3, <3>1
    <3>3. CASE ~th[t].got.deleted
      BY <2>1, <2>5, <2>8, <3>2, <3>3 DEF CauseInv
    <3>4. CASE th[t].got.deleted
      <4>1. ~Between(f)  BY <3>1, <3>4 DEF Between
      <4>2. row'[f].hash = row[f].hash  BY <2>5, <3>1, <3>4
      <4> QED  BY <2>8, <3>2, <4>1, <4>2 DEF CauseInv
    <3> QED  BY <3>3, <3>4
  <2> QED  BY <2>7, <2>8
<1> QED  BY <1>1, <1>2, <1>4, <1>5, <1>6, <1>7, <1>8, <1>9, Steps DEF ItemStep

-----------------------------------------------------------------------------
(* The feed: what is not settled is still to come.                         *)

\* How the state of a file can change in a step.
LEMMA ItemEffects ==
    ASSUME TypeInv, NEW t \in Threads, NEW h \in Files, ItemStep(t, h)
    PROVE  \A f \in Files :
             /\ \A u \in Threads : Applying(u, f)' =>
                  (Applying(u, f) /\ th'[u].got = th[u].got) \/ th'[u].got = head[f]
             /\ \A u \in Threads : Saving(u, f)' =>
                  (Saving(u, f) /\ th'[u].got = th[u].got) \/ Writes(u, f)
             /\ disk'[f] = disk[f] \/ (Writes(t, f) /\ disk'[f] = Content(th[t].got))
             /\ row'[f].version = row[f].version
                \/ (Saving(t, f) /\ row'[f].version = th[t].got.version)
             /\ conflict \subseteq conflict' /\ head'[f] = head[f]
<1>0. "check" \in Places /\ "compare" \in Places /\ "write" \in Places /\ "save" \in Places
  BY DEF Places
<1>1. Others(t)
  BY DEF ItemStep, Gets, Skips, Decides, Clashes, Passes, Writes, Saves, Drops, Leaves, Sets
<1>2. ASSUME NEW u \in Threads, u # t, NEW f \in Files
      PROVE  /\ th'[u] = th[u]
             /\ Applying(u, f)' <=> Applying(u, f)
             /\ Saving(u, f)' <=> Saving(u, f)
  BY <1>1, <1>2 DEF Others, Applying, Saving, FileAt
<1>3. ASSUME NEW f \in Files, Applying(t, f)'
      PROVE  (Applying(t, f) /\ th'[t].got = th[t].got) \/ th'[t].got = head[f]
  <2>1. CASE Gets(t, h)
    <3>1. th'[t].todo = th[t].todo /\ th'[t].got = head[h] /\ h = Head(th[t].todo)
      BY <2>1 DEF Gets, Sets, At, FileAt
    <3> QED  BY <1>3, <3>1 DEF Applying, FileAt
  <2>2. CASE Decides(t, h) \/ Passes(t, h) \/ Writes(t, h)
    <3>1. th'[t].todo = th[t].todo /\ th'[t].got = th[t].got
      BY <2>2 DEF Decides, Passes, Writes, Sets
    <3>2. Applying(t, h) /\ h = Head(th[t].todo)
      BY <1>0, <2>2, AtIs DEF Decides, Passes, Writes, At, FileAt
    <3> QED  BY <1>3, <3>1, <3>2 DEF Applying, FileAt
  <2>3. CASE Skips(t, h) \/ Clashes(t, h) \/ Saves(t, h) \/ Drops(t, h)
    <3>1. th'[t].pc \notin Places  BY <2>3, LeftGone DEF Skips, Clashes, Saves, Drops
    <3> QED  BY <1>3, <3>1 DEF Applying, Places
  <2> QED  BY <2>1, <2>2, <2>3 DEF ItemStep
<1>4. ASSUME NEW f \in Files, Saving(t, f)' PROVE Writes(t, f)
  <2>1. th'[t].pc = "save" /\ Head(th'[t].todo) = f  BY <1>4 DEF Saving, FileAt
  <2>2. Writes(t, h)
    BY <2>1 DEF ItemStep, Gets, Skips, Decides, Clashes, Passes, Writes, Saves, Drops, Leaves, Sets
  <2>3. h = f  BY <2>1, <2>2 DEF Writes, Sets, At, FileAt
  <2> QED  BY <2>2, <2>3
<1>5. ASSUME NEW f \in Files
      PROVE  disk'[f] = disk[f] \/ (Writes(t, f) /\ disk'[f] = Content(th[t].got))
  <2>1. CASE Writes(t, h)  BY <2>1 DEF Writes, TypeInv, TypeOK
  <2>2. CASE ~Writes(t, h)
    BY <2>2 DEF ItemStep, Gets, Skips, Decides, Clashes, Passes, Saves, Drops, deliveryVars
  <2> QED  BY <2>1, <2>2
<1>6. ASSUME NEW f \in Files
      PROVE  row'[f].version = row[f].version
             \/ (Saving(t, f) /\ row'[f].version = th[t].got.version)
  <2>1. CASE Saves(t, h)
    <3>1. Saving(t, h)  BY <1>0, <2>1, AtIs DEF Saves
    <3> QED  BY <2>1, <3>1 DEF Saves, TypeInv, TypeOK
  <2>2. CASE ~Saves(t, h)
    BY <2>2 DEF ItemStep, Gets, Skips, Decides, Clashes, Passes, Writes, Drops, deliveryVars
  <2> QED  BY <2>1, <2>2
<1>7. conflict \subseteq conflict' /\ head' = head
  BY DEF ItemStep, Gets, Skips, Decides, Clashes, Passes, Writes, Saves, Drops, deliveryVars
<1> QED  BY <1>2, <1>3, <1>4, <1>5, <1>6, <1>7

\* The same for every step.
LEMMA Effects ==
    ASSUME TypeInv, SeqInv, [Next]_vars
    PROVE  \A f \in Files :
             /\ \A u \in Threads : Applying(u, f)' =>
                  (Applying(u, f) /\ th'[u].got = th[u].got) \/ th'[u].got = head[f]
             /\ \A u \in Threads : Saving(u, f)' =>
                  (Saving(u, f) /\ th'[u].got = th[u].got) \/ Writes(u, f)
             /\ disk'[f] = disk[f]
                \/ \E t \in Threads : Writes(t, f) /\ disk'[f] = Content(th[t].got)
             /\ row'[f].version = row[f].version
                \/ \E t \in Threads : Saving(t, f) /\ row'[f].version = th[t].got.version
             /\ conflict \subseteq conflict'
             /\ head'[f] = head[f] \/ head'[f].version = head[f].version + 1
<1>1. CASE StoreStep
  <2>1. UNCHANGED <<row, disk, conflict, th>>
    BY <1>1 DEF StoreStep, Commits, deliveryVars
  <2>2. \A u \in Threads, f \in Files :
          (Applying(u, f)' <=> Applying(u, f)) /\ (Saving(u, f)' <=> Saving(u, f))
    BY <2>1 DEF Applying, Saving, FileAt
  <2>3. \A f \in Files : head'[f] = head[f] \/ head'[f].version = head[f].version + 1
    <3>1. CASE UNCHANGED <<deliveryVars, th>>  BY <3>1 DEF deliveryVars
    <3>2. ASSUME NEW g \in Files, NEW d \in BOOLEAN, NEW n \in Nat, Commits(g, d, n)
          PROVE  \A f \in Files : head'[f] = head[f] \/ head'[f].version = head[f].version + 1
      BY <3>2, CommitIs
    <3> QED  BY <1>1, <3>1, <3>2 DEF StoreStep
  <2> QED  BY <2>1, <2>2, <2>3
<1>2. CASE Reopens
  <2>1. Idle.pc = "idle"  BY DEF Idle
  <2>2. \A t \in Threads, f \in Files : ~Applying(t, f)' /\ ~Saving(t, f)'
    BY <1>2, <2>1 DEF Reopens, Applying, Saving
  <2>3. UNCHANGED <<head, row, disk, conflict>>  BY <1>2 DEF Reopens
  <2> QED  BY <2>2, <2>3
<1>3. ASSUME NEW t \in Threads, FeedStep(t)
      PROVE  /\ UNCHANGED <<head, row, disk, conflict>>
             /\ \A u \in Threads, f \in Files :
                  /\ Applying(u, f)' => Applying(u, f) /\ th'[u].got = th[u].got
                  /\ Saving(u, f)' => Saving(u, f) /\ th'[u].got = th[u].got
  <2>1. UNCHANGED <<head, row, disk, conflict>>
    BY <1>3 DEF FeedStep, Rests, Pulls, Replied, Notified, deliveryVars
  <2>2. Others(t) /\ th'[t].pc \notin Places  BY <1>3, LeftGone DEF FeedStep
  <2> QED  BY <2>1, <2>2, Gone
<1>4. CASE \E t \in Threads : FeedStep(t)
  <2>1. PICK t \in Threads : FeedStep(t)  BY <1>4
  <2> QED  BY <1>3, <2>1
<1>5. CASE \E t \in Threads, h \in Files : ItemStep(t, h)
  <2>1. PICK t \in Threads, h \in Files : ItemStep(t, h)  BY <1>5
  <2> QED  BY <2>1, ItemEffects
<1> QED  BY <1>1, <1>2, <1>4, <1>5, Steps

\* A settled file stays settled until its next version.
LEMMA FirmKept ==
    ASSUME TypeInv, SeqInv, DeviceInv, [Next]_vars,
           NEW f \in Files, Firm(f), head'[f] = head[f]
    PROVE  Firm(f)'
<1>1. TypeInv' /\ VersionInv'  BY TypeKept, DeviceKept DEF DeviceInv
<1>2. CASE f \in conflict  BY <1>2, Effects DEF Firm
<1>3. CASE excused[f] = head[f].version
  <2>1. excused'[f] \in Nat /\ excused'[f] >= excused[f]  BY ExcusedGrows
  <2>2. excused'[f] <= head'[f].version  BY <1>1 DEF VersionInv
  <2>3. head[f].version \in Nat  BY Nats
  <2>4. excused'[f] = head'[f].version  BY <1>3, <2>1, <2>2, <2>3
  <2> QED  BY <2>4 DEF Firm
<1>4. CASE UpToDate(f) /\ \A t \in Threads : Applying(t, f) => th[t].got.version = head[f].version
  <2>1. \A t \in Threads : Applying(t, f)' => th'[t].got.version = head'[f].version
    BY <1>4, Effects
  <2>2. disk'[f] = Content(head[f])
    <3>1. CASE disk'[f] = disk[f]  BY <1>4, <3>1 DEF UpToDate
    <3>2. CASE \E t \in Threads : Writes(t, f) /\ disk'[f] = Content(th[t].got)
      <4>1. PICK t \in Threads : Writes(t, f) /\ disk'[f] = Content(th[t].got)  BY <3>2
      <4>2. "write" \in Places  BY DEF Places
      <4>3. Applying(t, f)  BY <4>1, <4>2, AtIs DEF Writes
      <4>4. th[t].got = head[f]  BY <1>4, <4>3 DEF DeviceInv, VersionInv
      <4> QED  BY <4>1, <4>4
    <3> QED  BY <3>1, <3>2, Effects
  <2>3. UpToDate(f)'  BY <2>2 DEF UpToDate, Content
  <2> QED  BY <2>1, <2>3 DEF Firm
<1> QED  BY <1>2, <1>3, <1>4 DEF Firm

\* Writing the newest version settles the file.
LEMMA WriteSettles ==
    ASSUME TypeInv, SeqInv, DeviceInv, [Next]_vars, NEW t \in Threads, NEW f \in Files,
           Writes(t, f), th[t].got.version = head[f].version
    PROVE  Firm(f)'
<1>1. TypeInv' /\ VersionInv'  BY TypeKept, DeviceKept DEF DeviceInv
<1>2. "write" \in Places  BY DEF Places
<1>3. Applying(t, f)  BY <1>2, AtIs DEF Writes
<1>4. th[t].got = head[f] /\ head' = head  BY <1>3 DEF Writes, DeviceInv, VersionInv
<1>5. CASE excused' = Mishap(f)
  <2>1. excused'[f] = head'[f].version  BY <1>4, <1>5, MishapIs
  <2> QED  BY <2>1 DEF Firm
<1>6. CASE disk' = [disk EXCEPT ![f] = Content(th[t].got)] /\ excused' = excused
  <2>1. CASE \E u \in Threads : u # t /\ Applying(u, f)
    <3>1. excused[f] >= head[f].version  BY <1>3, <1>4, <2>1 DEF DeviceInv, OverlapInv
    <3>2. excused[f] = head[f].version  BY <3>1, Nats DEF DeviceInv, VersionInv
    <3> QED  BY <1>4, <1>6, <3>2 DEF Firm
  <2>2. CASE \A u \in Threads : u # t => ~Applying(u, f)
    <3>1. disk'[f] = Content(head[f])  BY <1>4, <1>6 DEF TypeInv, TypeOK
    <3>2. UpToDate(f)'  BY <1>4, <3>1 DEF UpToDate, Content
    <3>3. \A u \in Threads : Applying(u, f)' => th'[u].got.version = head'[f].version
      BY <1>4, <2>2, Effects
    <3> QED  BY <3>2, <3>3 DEF Firm
  <2> QED  BY <2>1, <2>2
<1> QED  BY <1>5, <1>6 DEF Writes

\* A file whose row, or whose download, is of the newest version is settled.
LEMMA SettledKept ==
    ASSUME TypeInv, SeqInv, DeviceInv, FeedInv, [Next]_vars, NEW f \in Files
    PROVE  /\ row'[f].version = head'[f].version => Firm(f)'
           /\ \A t \in Threads : Saving(t, f)' /\ th'[t].got.version = head'[f].version => Firm(f)'
<1>0. /\ \A t \in Threads : Applying(t, f) => th[t].got.version <= head[f].version
      /\ row[f].version <= head[f].version
  BY DEF DeviceInv, VersionInv
<1>1. CASE head'[f] = head[f]
  <2>1. Firm(f) => Firm(f)'  BY <1>1, FirmKept
  <2>2. row'[f].version = head[f].version => Firm(f)
    BY Effects DEF FeedInv
  <2>3. ASSUME NEW t \in Threads, Saving(t, f)', th'[t].got.version = head[f].version
        PROVE  Firm(f)'
    <3>1. CASE Saving(t, f) /\ th'[t].got = th[t].got  BY <2>1, <2>3, <3>1 DEF FeedInv
    <3>2. CASE Writes(t, f)
      <4>1. th'[t].got = th[t].got  BY <3>2 DEF Writes, Sets
      <4> QED  BY <2>3, <3>2, <4>1, WriteSettles
    <3> QED  BY <2>3, <3>1, <3>2, Effects
  <2> QED  BY <1>1, <2>1, <2>2, <2>3
<1>2. CASE head'[f].version = head[f].version + 1 /\ head'[f] # head[f]
  <2>1. StoreStep
    BY <1>2, Steps DEF Reopens, FeedStep, Rests, Pulls, Replied, Notified, ItemStep, Gets,
       Skips, Decides, Clashes, Passes, Writes, Saves, Drops, deliveryVars
  <2>2. UNCHANGED <<row, th>>  BY <2>1 DEF StoreStep, Commits, deliveryVars
  <2>3. \A t \in Threads : Saving(t, f)' => Applying(t, f)
    BY <2>2 DEF Saving, Applying, FileAt
  <2> QED  BY <1>0, <1>2, <2>2, <2>3, Nats
<1> QED  BY <1>1, <1>2, Effects

\* What a thread's list holds beyond its first file, it still holds when that is done.
LEMMA TailHolds ==
    ASSUME NEW s \in Seq(Files), s # <<>>, NEW i \in DOMAIN s, i # 1
    PROVE  i - 1 \in DOMAIN Tail(s) /\ Tail(s)[i - 1] = s[i]
OBVIOUS

\* A thread at work keeps seeing a change whose file does not get settled.
LEMMA ItemSees ==
    ASSUME TypeInv, SeqInv, DeviceInv, FeedInv, [Next]_vars,
           NEW t \in Threads, NEW h \in Files, ItemStep(t, h),
           NEW c \in changes, ~Firm(c.file), ~Firm(c.file)', Sees(t, c)
    PROVE  Sees(t, c)'
<1> DEFINE f == c.file
<1>0. f \in Files  BY DEF TypeInv, TypeOK, Change
<1>1. Keeps(t) /\ head' = head
  BY DEF ItemStep, Gets, Skips, Decides, Clashes, Passes, Writes, Saves, Drops, Leaves, Sets,
         deliveryVars
<1>2. /\ th[t].pc \notin {"idle", "pull"} /\ th[t].todo # <<>> /\ h = Head(th[t].todo)
      /\ th[t].todo \in Seq(Files)
  BY Nats DEF ItemStep, Gets, Skips, Decides, Clashes, Passes, Writes, Saves, Drops, At, FileAt
<1>3. th'[t].pc # "pull"
  BY DEF ItemStep, Gets, Skips, Decides, Clashes, Passes, Writes, Saves, Drops, Leaves, Sets
<1> SUFFICES ASSUME Pending(t, f) PROVE Pending(t, f)'
  BY <1>1, <1>2, <1>3 DEF Sees, Keeps
<1>4. PICK i \in DOMAIN th[t].todo :
        th[t].todo[i] = f /\ (Busy(t) /\ i = 1 => th[t].got.version = head[f].version)
  BY DEF Pending
<1>5. th[t].todo[1] = h  BY <1>2
<1>6. CASE Gets(t, h)
  <2>1. th'[t].todo = th[t].todo /\ th'[t].got = head[h]  BY <1>6 DEF Gets, Sets
  <2> QED  BY <1>1, <1>4, <1>5, <2>1 DEF Pending
<1>7. CASE Decides(t, h) \/ Passes(t, h) \/ Writes(t, h)
  <2>1. th'[t].todo = th[t].todo /\ th'[t].got = th[t].got
    BY <1>7 DEF Decides, Passes, Writes, Sets
  <2>2. Busy(t)  BY <1>7 DEF Decides, Passes, Writes, At, Busy, Places
  <2> QED  BY <1>1, <1>4, <2>1, <2>2 DEF Pending
<1>8. CASE Skips(t, h) \/ Clashes(t, h) \/ Saves(t, h) \/ Drops(t, h)
  <2>1. th'[t].pc = "item" /\ th'[t].todo = Tail(th[t].todo)
    BY <1>8 DEF Skips, Clashes, Saves, Drops, Leaves, Sets
  <2>2. i # 1
    <3> SUFFICES ASSUME i = 1 PROVE FALSE  OBVIOUS
    <3>1. f = h  BY <1>4, <1>5
    <3>2. CASE Skips(t, h)
      <4>1. Busy(t) /\ row[h].version >= th[t].got.version
        BY <3>2 DEF Skips, At, Busy, Places
      <4>2. row[f].version >= head[f].version  BY <1>4, <3>1, <4>1
      <4>3. row[f].version = head[f].version  BY <1>0, <4>2, Nats DEF DeviceInv, VersionInv
      <4> QED  BY <1>0, <4>3 DEF FeedInv
    <3>3. CASE Clashes(t, h)  BY <3>1, <3>3 DEF Clashes, Firm
    <3>4. CASE Saves(t, h)
      <4>1. Busy(t) /\ Saving(t, h)  BY <3>4 DEF Saves, At, Busy, Places, Saving
      <4> QED  BY <1>0, <1>4, <3>1, <4>1 DEF FeedInv
    <3>5. CASE Drops(t, h)
      <4>1. excused'[h] = head[h].version  BY <3>5, MishapIs DEF Drops
      <4> QED  BY <1>1, <3>1, <4>1 DEF Firm
    <3> QED  BY <1>8, <3>2, <3>3, <3>4, <3>5
  <2>3. i - 1 \in DOMAIN th'[t].todo /\ th'[t].todo[i - 1] = f
    BY <1>2, <1>4, <2>1, <2>2, TailHolds
  <2>4. ~Busy(t)'  BY <2>1 DEF Busy, Places
  <2> QED  BY <2>3, <2>4 DEF Pending
<1> QED  BY <1>6, <1>7, <1>8 DEF ItemStep

\* A thread that stays where it is sees what it saw.
LEMMA StillSees ==
    ASSUME NEW t \in Threads, NEW c, Sees(t, c), th'[t] = th[t], head'[c.file] = head[c.file]
    PROVE  Sees(t, c)'
BY DEF Sees, Pending, Busy

\* What is not settled stays in the feed before the cursor and every pull.
LEMMA AwaitedKept ==
    ASSUME TypeInv, SeqInv, DeviceInv, FeedInv, [Next]_vars, NEW f \in Files, ~Firm(f)'
    PROVE  Awaited(f)'
<1>0. /\ changes \subseteq Change /\ cursor \in Nat
      /\ \A t \in Threads : th[t].since \in Nat /\ th[t].latest \in Nat
  BY DEF TypeInv, TypeOK, Thread
<1>1. ASSUME NEW d \in BOOLEAN, NEW n \in Nat, Commits(f, d, n) PROVE Awaited(f)'
  <2>1. head'[f].version = head[f].version + 1  BY <1>1, CommitIs
  <2>2. Newest(n)  BY <1>1, <2>1, CommitIs DEF Firm
  <2>3. PICK c \in changes' : c.seq = n /\ c.file = f
    <3>1. [seq |-> n, file |-> f, version |-> head[f].version + 1] \in changes'
      BY <1>1 DEF Commits, Commit
    <3> QED  BY <3>1
  <2>4. ASSUME NEW m \in Nat, Known(m) PROVE m < n  BY <2>2, <2>4 DEF Newest, Known
  <2>5. c.seq > cursor /\ \A t \in Threads : c.seq > th[t].since /\ c.seq > th[t].latest
    BY <1>0, <2>3, <2>4 DEF SeqInv
  <2>6. cursor' = cursor /\ th' = th  BY <1>1 DEF Commits
  <2>7. \A t \in Threads : Sees(t, c)'  BY <2>5, <2>6 DEF Sees
  <2> QED  BY <2>3, <2>5, <2>6, <2>7 DEF Awaited
<1>2. ASSUME head'[f] = head[f]
      PROVE  ~Firm(f) /\ \E c \in changes : c.file = f /\ c.seq > cursor /\ \A t \in Threads : Sees(t, c)
  BY <1>2, FirmKept DEF FeedInv, Awaited
<1>3. CASE StoreStep
  <2>1. CASE UNCHANGED <<deliveryVars, th>>
    <3>1. head' = head /\ changes' = changes /\ cursor' = cursor /\ th' = th
      BY <2>1 DEF deliveryVars
    <3>2. PICK c \in changes : c.file = f /\ c.seq > cursor /\ \A t \in Threads : Sees(t, c)
      BY <1>2, <3>1
    <3>3. \A t \in Threads : Sees(t, c)'  BY <3>1, <3>2, StillSees
    <3> QED  BY <3>1, <3>2, <3>3 DEF Awaited
  <2>2. ASSUME NEW g \in Files, NEW d \in BOOLEAN, NEW n \in Nat, Commits(g, d, n), g # f
        PROVE  Awaited(f)'
    <3>1. head'[f] = head[f] /\ changes \subseteq changes' /\ cursor' = cursor /\ th' = th
      BY <2>2, CommitIs DEF Commits, Commit
    <3>2. PICK c \in changes : c.file = f /\ c.seq > cursor /\ \A t \in Threads : Sees(t, c)
      BY <1>2, <3>1
    <3>3. \A t \in Threads : Sees(t, c)'  BY <3>1, <3>2, StillSees
    <3> QED  BY <3>1, <3>2, <3>3 DEF Awaited
  <2> QED  BY <1>1, <1>3, <2>1, <2>2 DEF StoreStep
<1>4. CASE Reopens
  <2>1. head' = head /\ changes' = changes /\ cursor' = cursor  BY <1>4 DEF Reopens
  <2>2. PICK c \in changes : c.file = f /\ c.seq > cursor  BY <1>2, <2>1
  <2>3. Idle.pc = "idle"  BY DEF Idle
  <2>4. \A t \in Threads : Sees(t, c)'  BY <1>4, <2>3 DEF Reopens, Sees
  <2> QED  BY <2>1, <2>2, <2>4 DEF Awaited
<1>5. ASSUME NEW t \in Threads, FeedStep(t) PROVE Awaited(f)'
  <2>1. head' = head /\ changes' = changes
    BY <1>5 DEF FeedStep, Rests, Pulls, Replied, Notified, deliveryVars
  <2>2. PICK c \in changes : c.file = f /\ c.seq > cursor /\ \A u \in Threads : Sees(u, c)
    BY <1>2, <2>1
  <2>3. Others(t)  BY <1>5, LeftGone DEF FeedStep
  <2>4. \A u \in Threads : u # t => Sees(u, c)'  BY <2>1, <2>2, <2>3, StillSees DEF Others
  <2>5. Idle.pc = "idle" /\ Pulling.pc = "pull" /\ Pulling.since = cursor
    BY DEF Idle, Pulling
  <2>6. CASE Rests(t)
    <3>1. Sees(t, c)'  BY <2>5, <2>6 DEF Rests, Sees
    <3>2. c.seq > cursor'
      <4>1. CASE cursor' = cursor  BY <2>2, <4>1
      <4>2. CASE th[t].pc = "item" /\ th[t].todo = <<>> /\ th[t].pulling /\ cursor' = th[t].latest
        <5>1. ~Pending(t, c.file)  BY <4>2 DEF Pending
        <5> QED  BY <2>2, <4>2, <5>1 DEF Sees
      <4> QED  BY <2>6, <4>1, <4>2 DEF Rests
    <3> QED  BY <2>1, <2>2, <2>4, <3>1, <3>2 DEF Awaited
  <2>7. CASE Pulls(t)
    <3>1. cursor' = cursor  BY <2>7 DEF Pulls, deliveryVars
    <3>2. Sees(t, c)'  BY <2>2, <2>5, <2>7 DEF Pulls, Sees
    <3> QED  BY <2>1, <2>2, <2>4, <3>1, <3>2 DEF Awaited
  <2>8. CASE Replied(t)
    <3>1. cursor' = cursor  BY <2>8 DEF Replied, deliveryVars
    <3>2. c.seq > th[t].since  BY <2>2, <2>8 DEF Replied, Sees
    <3>3. c.seq > th'[t].latest \/ \E i \in DOMAIN th'[t].todo : th'[t].todo[i] = c.file
      BY <2>8, <3>2 DEF Replied
    <3>4. th'[t].pc = "item"  BY <2>8 DEF Replied
    <3>5. Sees(t, c)'  BY <3>3, <3>4 DEF Sees, Pending, Busy, Places
    <3> QED  BY <2>1, <2>2, <2>4, <3>1, <3>5 DEF Awaited
  <2>9. CASE Notified(t)
    <3>1. cursor' = cursor  BY <2>9 DEF Notified, deliveryVars
    <3>2. Sees(t, c)'  BY <2>9 DEF Notified, Sees
    <3> QED  BY <2>1, <2>2, <2>4, <3>1, <3>2 DEF Awaited
  <2> QED  BY <1>5, <2>6, <2>7, <2>8, <2>9 DEF FeedStep
<1>6. ASSUME NEW t \in Threads, NEW h \in Files, ItemStep(t, h) PROVE Awaited(f)'
  <2>1. head' = head /\ changes' = changes /\ cursor' = cursor /\ Others(t)
    BY <1>6 DEF ItemStep, Gets, Skips, Decides, Clashes, Passes, Writes, Saves, Drops,
                Leaves, Sets, deliveryVars
  <2>2. PICK c \in changes : c.file = f /\ c.seq > cursor /\ \A u \in Threads : Sees(u, c)
    BY <1>2, <2>1
  <2>3. ~Firm(c.file) /\ ~Firm(c.file)'  BY <1>2, <2>1, <2>2
  <2>4. Sees(t, c)'  BY <1>6, <2>2, <2>3, ItemSees
  <2>5. \A u \in Threads : u # t => Sees(u, c)'  BY <2>1, <2>2, StillSees DEF Others
  <2> QED  BY <2>1, <2>2, <2>4, <2>5 DEF Awaited
<1> QED  BY <1>3, <1>4, <1>5, <1>6, Steps

\* Every step keeps the feed ahead of what is not settled.
LEMMA FeedKept == TypeInv /\ SeqInv /\ DeviceInv /\ FeedInv /\ [Next]_vars => FeedInv'
<1> SUFFICES ASSUME TypeInv, SeqInv, DeviceInv, FeedInv, [Next]_vars PROVE FeedInv'  OBVIOUS
<1>1. \A f \in Files : Firm(f)' \/ Awaited(f)'  BY AwaitedKept
<1> QED  BY <1>1, SettledKept DEF FeedInv

-----------------------------------------------------------------------------
(* The theorems.                                                           *)

DeliveryInv == TypeInv /\ SeqInv /\ DeviceInv /\ RowNeverAhead /\ CauseInv /\ FeedInv

\* The inductive invariant holds at the start ...
LEMMA DeliveryInit == Init => DeliveryInv
<1> SUFFICES ASSUME Init PROVE DeliveryInv  OBVIOUS
<1>1. TypeInv  BY TypeInit
<1>2. /\ \A t \in Threads : th[t] = Idle /\ th[t].pc = "idle"
      /\ \A t \in Threads : th[t].since = 0 /\ th[t].latest = 0
  BY DEF Init, Idle
<1>3. \A t \in Threads, f \in Files : ~Applying(t, f) /\ ~Decided(t, f) /\ ~Saving(t, f)
  BY <1>2 DEF Applying, Decided, Saving
<1>4. /\ \A f \in Files : row[f].version = 0 /\ row[f].hash = 0 /\ disk[f] = 0
                          /\ head[f].version = 0 /\ excused[f] = 0
  BY DEF Init, NoRow
<1>5. SeqInv
  <2>1. \A t \in Txs : ~Numbered(t)  BY DEF Init, Numbered, IdleTx
  <2> QED  BY <1>2, <2>1 DEF Init, SeqInv, Known
<1>6. DeviceInv  BY <1>3, <1>4 DEF DeviceInv, VersionInv, OverlapInv, StepInv
<1>7. RowNeverAhead /\ CauseInv  BY <1>3, <1>4 DEF Init, RowNeverAhead, CauseInv
<1>8. \A f \in Files : Firm(f)  BY <1>4 DEF Firm
<1> QED  BY <1>1, <1>5, <1>6, <1>7, <1>8 DEF DeliveryInv, FeedInv

\* ... is kept by every step ...
LEMMA DeliveryKept == DeliveryInv /\ [Next]_vars => DeliveryInv'
BY TypeKept, SeqKept, DeviceKept, AheadKept, CauseKept, FeedKept DEF DeliveryInv

\* ... and so always holds.
LEMMA DeliveryAlways == Spec => []DeliveryInv
BY DeliveryInit, DeliveryKept, PTL DEF Spec

\* The device's database never takes a content for downloaded that is newer than the
\* file on disk: applyRemoteFile writes the file before upsertFile, and a crash or a
\* failure between the two leaves the row behind, not ahead.
THEOREM RowNeverAheadCorrect == Spec => []RowNeverAhead
<1>1. DeliveryInv => RowNeverAhead  BY DEF DeliveryInv
<1> QED  BY <1>1, DeliveryAlways, PTL

\* applyRemoteFile records a conflict that nobody's edit caused only after a restart
\* or when the poller and the websocket thread were at the same file.
THEOREM ConflictsHaveCauseCorrect == Spec => []ConflictsHaveCause
<1>1. DeliveryInv => ConflictsHaveCause
  <2> SUFFICES ASSUME DeliveryInv, ~(restarts > 0) PROVE conflict \subseteq overlapped
    BY DEF ConflictsHaveCause
  <2>1. restarts \in Nat /\ conflict \subseteq Files
    BY DeliveryAssumption DEF DeliveryInv, TypeInv, TypeOK
  <2>2. restarts = 0  BY <2>1
  <2> QED  BY <2>1, <2>2 DEF DeliveryInv, CauseInv
<1> QED  BY <1>1, DeliveryAlways, PTL

\* Everything that moves the cursor of pullChanges past a change either settles the
\* file or was one of the mishaps on record (a failed download, a late commit, two
\* threads at the file); the file's next version closes the gap.
THEOREM GapsAreExcusedCorrect == Spec => []GapsAreExcused
<1>1. DeliveryInv => GapsAreExcused
  <2> SUFFICES ASSUME DeliveryInv, NEW f \in Files, ReadTo(f)
               PROVE  UpToDate(f) \/ f \in conflict \/ excused[f] = head[f].version
    BY DEF GapsAreExcused
  <2>1. \A c \in changes : c.seq \in Nat /\ cursor \in Nat
    BY DEF DeliveryInv, TypeInv, TypeOK, Change
  <2>2. ~Awaited(f)  BY <2>1 DEF ReadTo, Awaited
  <2>3. Firm(f)  BY <2>2 DEF DeliveryInv, FeedInv
  <2> QED  BY <2>3 DEF Firm
<1> QED  BY <1>1, DeliveryAlways, PTL

\* With the poller alone, the store with one mutex and no failing download, there is
\* no mishap to excuse a gap.
LEMMA CalmKept ==
    Calm /\ DeliveryInv /\ CalmInv /\ [Next]_vars => CalmInv'
<1> SUFFICES ASSUME Calm, DeliveryInv, CalmInv, [Next]_vars PROVE CalmInv'  OBVIOUS
<1> USE DEF deviceVars, obsVars, storeVars
<1>1. /\ tx \in [Txs -> Tx \cup {IdleTx}] /\ TypeInv
  BY DEF DeliveryInv, TypeInv, TypeOK
<1>2. Threads = {"poller"} /\ Unreliable = FALSE /\ Backend # "postgres"
  BY DEF Calm, Threads
<1>3. ASSUME UNCHANGED <<excused, tx>> PROVE CalmInv'
  BY <1>3 DEF CalmInv
<1>4. ASSUME NEW t \in Txs, NEW f \in Files, NEW d \in BOOLEAN,
             MemWrite(t, f, d) \/ LockRow(t, f, d)
      PROVE  CalmInv'
  <2>1. MemWrite(t, f, d)  BY <1>2, <1>4 DEF LockRow
  <2> QED  BY <1>1, <2>1 DEF MemWrite, CalmInv
<1>5. ASSUME NEW t \in Txs, InsertChangeRow(t) \/ CommitTx(t) \/ Die(t) \/ Publish(t)
      PROVE  CalmInv'
  <2>1. Die(t) \/ Publish(t)  BY <1>5 DEF InsertChangeRow, CommitTx, CalmInv
  <2>2. tx' = [tx EXCEPT ![t] = IdleTx] /\ excused' = excused  BY <2>1 DEF Die, Publish
  <2> QED  BY <1>1, <2>2 DEF CalmInv, IdleTx
<1>6. ASSUME NEW t \in Threads, ThreadStep(t) \/ PullFail(t) \/ ApplyFail(t)
      PROVE  CalmInv'
  <2>1. CASE GetFile(t)
    <3>1. ~\E u \in Threads : Applying(u, FileAt(t))
      BY <1>2, <2>1 DEF GetFile, Applying
    <3> QED  BY <1>3, <2>1, <3>1 DEF GetFile
  <2>2. CASE WriteDisk(t)  BY <1>2, <1>3, <2>2 DEF WriteDisk
  <2>3. CASE \/ PullReply(t) \/ FinishPull(t) \/ CheckRow(t) \/ CompareDisk(t)
             \/ SaveRow(t) \/ PullFail(t)
    BY <1>3, <2>3 DEF PullReply, FinishPull, CheckRow, CompareDisk, SaveRow, PullFail
  <2>4. ~ApplyFail(t)  BY <1>2 DEF ApplyFail
  <2> QED  BY <1>6, <2>1, <2>2, <2>3, <2>4 DEF ThreadStep
<1>7. CASE Connect \/ Disconnect \/ onWsEvent \/ Poll \/ Restart
  BY <1>3, <1>7 DEF Connect, Disconnect, onWsEvent, Poll, Restart
<1>8. CASE UNCHANGED vars  BY <1>3, <1>8 DEF vars
<1> QED  BY <1>4, <1>5, <1>6, <1>7, <1>8 DEF Next

\* Nothing is skipped: a poller whose downloads succeed, against the store with one
\* mutex, never takes its cursor past a change of a file that is behind, however
\* pages are cut and whenever Notepad++ is closed.
THEOREM NothingSkippedCorrect == Calm => (Spec => []NothingSkipped)
<1> SUFFICES ASSUME Calm PROVE Spec => []NothingSkipped  OBVIOUS
<1>1. Init => CalmInv  BY DEF Init, CalmInv, IdleTx
<1>2. DeliveryInv /\ CalmInv /\ [Next]_vars => CalmInv'  BY CalmKept
<1>3. DeliveryInv /\ CalmInv => NothingSkipped
  <2> SUFFICES ASSUME DeliveryInv, CalmInv, NEW f \in Files, ReadTo(f)
               PROVE  UpToDate(f) \/ f \in conflict
    BY DEF NothingSkipped
  <2>1. \A c \in changes : c.seq \in Nat /\ cursor \in Nat
    BY DEF DeliveryInv, TypeInv, TypeOK, Change
  <2>2. ~Awaited(f)  BY <2>1 DEF ReadTo, Awaited
  <2>3. Firm(f)  BY <2>2 DEF DeliveryInv, FeedInv
  <2>4. excused[f] = head[f].version => disk[f] = 0 /\ head[f].version = 0
    BY Nats DEF CalmInv, DeliveryInv, DeviceInv, VersionInv
  <2>5. excused[f] = head[f].version => UpToDate(f)  BY <2>4 DEF UpToDate, Content
  <2> QED  BY <2>3, <2>5 DEF Firm
<1> QED  BY <1>1, <1>2, <1>3, DeliveryAlways, PTL DEF Spec
=============================================================================
