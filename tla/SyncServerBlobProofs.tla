------------------------ MODULE SyncServerBlobProofs ------------------------
(***************************************************************************)
(* The blob store under the metadata: a corrupt upload is never stored,    *)
(* and, as long as nobody restores a version, a live version that can be   *)
(* read has its content.  Both rest on who owns a ciphertext: a random     *)
(* nonce makes each one new, so a blob key belongs to one request for good *)
(* and a deletion cannot hit the content another request just stored.      *)
(***************************************************************************)
EXTENDS SyncServerProofs

-----------------------------------------------------------------------------
(* Ownership.                                                              *)

\* Request r holds ciphertext b: its last attempt carries it, or a handler still
\* serves an earlier attempt that did.
Holds(r, b) ==
    \/ sent[r].kind \in UploadKinds /\ sent[r].payload.blob = b
    \/ \E h \in Handlers : /\ hd[h].pc # "idle" /\ KindOf(h) \in UploadKinds
                           /\ hd[h].req = r /\ hd[h].rec.blob = b

OwnerInv == \A b \in Blobs : \A r \in Requests :
    Holds(r, b) => b \in used /\ \A q \in Requests : Holds(q, b) => q = r

\* Where a handler can be, given what it serves, and what passed validation.
PathInv(h) ==
    hd[h].pc # "idle" =>
       /\ hd[h].pc = "readVersion" => KindOf(h) = "restore"
       /\ KindOf(h) = "get" => hd[h].pc \in {"readHead", "readBlob", "done"}
       /\ hd[h].pc \in {"checkIdem", "storeBlob"} =>
             hd[h].rec.deleted \/ sent[hd[h].req].flaw # "content"

\* An upload's handler carries a ciphertext.
KeyInv(h) == hd[h].pc # "idle" /\ KindOf(h) \in UploadKinds => hd[h].rec.blob \in Blobs

SentInv == \A r \in Requests : sent[r] # NoRequest =>
    /\ sent[r].kind \in Kinds
    /\ sent[r].flaw = "content" => sent[r].kind \in UploadKinds

IntactInv ==
    /\ ChainInv /\ OwnerInv /\ SentInv /\ CorruptNeverStored
    /\ blobs \subseteq used
    /\ \A h \in Handlers : PathInv(h) /\ KeyInv(h)

-----------------------------------------------------------------------------
(* Content of the versions.                                                *)

Logged(b) == \E f \in Files : \E i \in DOMAIN log[f] : log[f][i].payload.blob = b

\* Ciphertexts of committed versions are used up, stay with one file, and lie beyond
\* the base version of the request that holds them.
LogUsed == \A f \in Files : \A i \in DOMAIN log[f] : log[f][i].payload.blob \in used
OneFile == \A f, g \in Files : \A i \in DOMAIN log[f], j \in DOMAIN log[g] :
    log[f][i].payload.blob = log[g][j].payload.blob => f = g
LogOwner == \A b \in Blobs : \A r \in Requests : Holds(r, b) =>
    \A f \in Files : \A i \in DOMAIN log[f] :
       log[f][i].payload.blob = b => f = sent[r].file /\ i > sent[r].version

\* A DELETE holds the content key of the version it read.
DeleteInv(h) ==
    hd[h].pc = "updateFile" /\ KindOf(h) = "delete" =>
       /\ hd[h].rec.deleted /\ hd[h].base \in DOMAIN log[FileOf(h)]
       /\ hd[h].rec.blob = log[FileOf(h)][hd[h].base].payload.blob

\* An upload that can still commit has its content in the blob store.
StoredInv(h) ==
    hd[h].pc \in {"readHead", "createFile", "updateFile"} /\ KindOf(h) \in UploadKinds
       => hd[h].rec.deleted \/ hd[h].rec.blob \in blobs \/ Logged(hd[h].rec.blob)

\* A key about to be deleted was committed once, and no live row uses it.
DropInv(h) ==
    hd[h].pc = "deleteBlobs" => \A k \in hd[h].drop :
       Logged(k) /\ \A v \in versions : v.payload.blob = k => v.payload.deleted

\* A GET holds the version it read; a miss says that its row is gone.
GetInv(h) ==
    hd[h].pc # "idle" /\ KindOf(h) = "get" =>
       /\ hd[h].pc = "readHead" => hd[h].out = 0
       /\ hd[h].out # 0 => /\ hd[h].out \in DOMAIN log[FileOf(h)]
                           /\ hd[h].rec = log[FileOf(h)][hd[h].out].payload
       /\ hd[h].pc = "readBlob" => hd[h].out # 0 /\ ~hd[h].rec.deleted
       /\ hd[h].pc = "done" /\ hd[h].code = 404 /\ hd[h].out # 0 =>
             \A v \in RowsOf(FileOf(h)) : v.version # hd[h].out

ContentInv(h) == DeleteInv(h) /\ StoredInv(h) /\ DropInv(h) /\ GetInv(h)

BlobInv ==
    /\ RecordInv /\ IntactInv
    /\ LogUsed /\ OneFile /\ LogOwner /\ RetainedBlobsPresent
    /\ \A h \in Handlers : ContentInv(h)

-----------------------------------------------------------------------------
(* Ownership is kept.                                                      *)

\* The record an upload's handler carries is its request's, from arrival to answer.
LEMMA RecKept ==
    ASSUME TypeInv, NEW h \in Handlers, PathInv(h), HandlerStep(h),
           hd[h].pc # "idle", hd'[h].pc # "idle", KindOf(h) \in UploadKinds
    PROVE  hd'[h].rec = hd[h].rec
<1>1. hd[h] \in Busy /\ hd \in [Handlers -> Busy \cup {Idle}]
  BY ServedRequest DEF TypeInv, ControlOK
<1>2. ASSUME NEW r \in Requests, Receive(h, r) PROVE FALSE
  BY <1>2 DEF Receive
<1>3. CASE Finish(h)
  BY <1>1, <1>3 DEF Finish, Idle
<1>4. CASE CheckIdempotency(h) \/ storeBlob(h)
  BY <1>1, <1>4 DEF CheckIdempotency, storeBlob, Goto, Busy
<1>5. CASE CreateFile(h)
  BY <1>1, <1>5 DEF CreateFile, Reply, Busy
<1>6. CASE UpdateFile(h)
  BY <1>1, <1>6 DEF UpdateFile, Goto, Reply, Busy
<1>7. CASE ReadCurrent(h) \/ PruneVersions(h) \/ DeleteBlob(h)
  BY <1>1, <1>7 DEF ReadCurrent, PruneVersions, DeleteBlob, Goto, Busy
<1>8. CASE publish(h) \/ saveIdempotency(h) \/ readBlob(h) \/ Fail(h)
  BY <1>1, <1>8 DEF publish, saveIdempotency, readBlob, Fail, Goto, Reply, Busy
<1>9. CASE ReadVersion(h)
  BY <1>9 DEF ReadVersion, PathInv, UploadKinds
<1>10. CASE ReadHead(h)
  BY <1>1, <1>10 DEF ReadHead, Goto, Reply, Busy, UploadKinds
<1> QED
  BY <1>2, <1>3, <1>4, <1>5, <1>6, <1>7, <1>8, <1>9, <1>10 DEF HandlerStep

\* An idle handler can only receive a request.
LEMMA IdleReceives ==
    ASSUME TypeInv, NEW h \in Handlers, HandlerStep(h), hd[h].pc = "idle"
    PROVE  \E r \in Requests : /\ hd'[h].req = r /\ hd'[h].rec = sent[r].payload
                              /\ hd'[h].pc \in {"done", FirstPC(sent[r].kind)}
                              /\ hd'[h].out = 0 /\ hd'[h].code \in {0, 400}
<1>1. PICK r \in Requests : Receive(h, r)
  BY DEF HandlerStep, CheckIdempotency, storeBlob, CreateFile, UpdateFile, ReadCurrent,
     PruneVersions, DeleteBlob, publish, saveIdempotency, ReadVersion, ReadHead, readBlob,
     Fail, Finish
<1>2. \/ hd'[h] = Start(r, "done", 400)
      \/ hd'[h] = Start(r, FirstPC(sent[r].kind), 0)
  BY <1>1 DEF Receive, TypeInv, ControlOK
<1> QED
  BY <1>2 DEF Start

\* The work of the handlers gives no request a ciphertext it did not hold.
LEMMA HandlersHold ==
    ASSUME TypeInv, \A h \in Handlers : PathInv(h), NEW h \in Handlers, HandlerStep(h),
           NEW r \in Requests, NEW b \in Blobs, Holds(r, b)'
    PROVE  Holds(r, b)
<1>1. sent' = sent /\ hd \in [Handlers -> Busy \cup {Idle}]
  BY ServesOn DEF clientVars, TypeInv, ControlOK
<1>2. CASE sent[r].kind \in UploadKinds /\ sent[r].payload.blob = b
  BY <1>2 DEF Holds
<1>3. CASE ~(sent[r].kind \in UploadKinds /\ sent[r].payload.blob = b)
  <2>1. PICK g \in Handlers :
           /\ hd'[g].pc # "idle" /\ sent[hd'[g].req].kind \in UploadKinds
           /\ hd'[g].req = r /\ hd'[g].rec.blob = b
    BY <1>1, <1>3 DEF Holds, KindOf
  <2>2. CASE hd'[g] = hd[g]
    BY <2>1, <2>2 DEF Holds, KindOf
  <2>3. CASE hd'[g] # hd[g]
    <3>1. HandlerStep(g)
      BY <2>3, OneActor DEF Next
    <3>2. CASE hd[g].pc = "idle"
      BY <1>3, <2>1, <3>1, <3>2, IdleReceives
    <3>3. CASE hd[g].pc # "idle"
      <4>1. hd'[g].req = hd[g].req
        BY <2>1, <3>1, <3>3, ServesOn
      <4>2. hd'[g].rec = hd[g].rec
        BY <2>1, <3>1, <3>3, <4>1, RecKept DEF KindOf
      <4> QED
        BY <2>1, <3>3, <4>1, <4>2 DEF Holds, KindOf
    <3> QED
      BY <3>2, <3>3
  <2> QED
    BY <2>2, <2>3
<1> QED
  BY <1>2, <1>3

\* A device that sends or retries takes a ciphertext nobody has used.
FreshFor(r0, b0) ==
    /\ b0 \notin used /\ used' = used \cup {b0} /\ hd' = hd
    /\ \A r \in Requests : r # r0 => sent'[r] = sent[r]
    /\ sent'[r0].payload.blob = b0
    /\ UNCHANGED <<blobs, log, versions, files>>

\* The three kinds of step, by what becomes of the ciphertexts.
LEMMA HoldsStep ==
    ASSUME TypeInv, \A h \in Handlers : PathInv(h), [Next]_vars
    PROVE  \/ /\ used' = used
              /\ \A r \in Requests : \A b \in Blobs : Holds(r, b)' => Holds(r, b)
           \/ \E r0 \in Requests : \E b0 \in Blobs :
                 /\ FreshFor(r0, b0)
                 /\ \A r \in Requests : \A b \in Blobs :
                       Holds(r, b)' => Holds(r, b) \/ (r = r0 /\ b = b0)
<1>0. ASSUME NEW h \in Handlers, hd[h].pc # "idle"
      PROVE  hd[h].req \in Requests /\ sent[hd[h].req] \in Request
  BY <1>0 DEF TypeInv, ControlOK, Serving, Busy
<1>1. ASSUME NEW h \in Handlers, HandlerStep(h)
      PROVE  /\ used' = used
             /\ \A r \in Requests : \A b \in Blobs : Holds(r, b)' => Holds(r, b)
  BY <1>1, ServesOn, HandlersHold DEF clientVars
<1>2. CASE UNCHANGED vars
  BY <1>2 DEF vars, clientVars, Holds, KindOf
<1>3. ASSUME NEW r0 \in Requests, Send(r0) \/ Retry(r0), NEW b0,
             FreshFor(r0, b0)
      PROVE  \A r \in Requests : \A b \in Blobs :
                Holds(r, b)' => Holds(r, b) \/ (r = r0 /\ b = b0)
  <2> SUFFICES ASSUME NEW r \in Requests, NEW b \in Blobs, Holds(r, b)', ~(r = r0 /\ b = b0)
               PROVE  Holds(r, b)
    OBVIOUS
  <2>1. CASE sent'[r].kind \in UploadKinds /\ sent'[r].payload.blob = b
    BY <1>3, <2>1 DEF FreshFor, Holds
  <2>2. ASSUME NEW h \in Handlers, hd'[h].pc # "idle", KindOf(h)' \in UploadKinds,
               hd'[h].req = r, hd'[h].rec.blob = b
        PROVE  Holds(r, b)
    <3>1. hd' = hd /\ [Next]_vars
      BY <1>3 DEF FreshFor
    <3>2. KindOf(h)' = KindOf(h)
      BY <1>0, <2>2, <3>1, SentKept DEF KindOf
    <3> QED
      BY <2>2, <3>1, <3>2 DEF Holds
  <2> QED
    BY <2>1, <2>2 DEF Holds
<1>4. ASSUME NEW r0 \in Requests, Retry(r0)
      PROVE  \E b0 \in Blobs : FreshFor(r0, b0)
  <2>1. PICK b0 \in Blobs \ used : /\ sent' = [sent EXCEPT ![r0].payload.blob = b0]
                                   /\ used' = used \cup {b0}
    BY <1>4 DEF Retry
  <2>2. sent[r0] \in Request
    BY <1>4 DEF Retry, TypeInv, ControlOK, NoRequest, UploadKinds
  <2>3. sent'[r0].payload.blob = b0
    BY <2>1, <2>2 DEF TypeInv, ControlOK, Request, Payload
  <2> QED
    BY <1>4, <2>1, <2>3 DEF FreshFor, Retry, TypeInv, ControlOK, serverVars
<1>5. ASSUME NEW r0 \in Requests, Send(r0)
      PROVE  \/ /\ used' = used
                /\ \A r \in Requests : \A b \in Blobs : Holds(r, b)' => Holds(r, b)
             \/ \E b0 \in Blobs : FreshFor(r0, b0)
  <2>1. PICK q \in [kind : Kinds, file : Files, version : 0..MaxVersion,
                    payload : Payload, flaw : Flaws] :
          /\ Plausible(q)
          /\ sent' = [sent EXCEPT ![r0] = q]
          /\ used' = used \cup ({q.payload.blob} \ {NoBlob})
    BY <1>5 DEF Send
  <2>2. sent'[r0] = q /\ \A r \in Requests : r # r0 => sent'[r] = sent[r]
    BY <2>1 DEF TypeInv, ControlOK
  <2>3. hd' = hd /\ UNCHANGED <<blobs, log, versions, files>>
    BY <1>5 DEF Send, serverVars
  <2>4. CASE q.kind \in UploadKinds
    <3>1. q.payload.blob \in Blobs \ used /\ q.payload.blob # NoBlob
      BY <2>1, <2>4, NoBlobAssumption DEF Plausible
    <3> QED
      BY <2>1, <2>2, <2>3, <3>1 DEF FreshFor
  <2>5. CASE q.kind \notin UploadKinds
    <3>1. used' = used
      BY <2>1, <2>5 DEF Plausible, Empty
    <3>2. ASSUME NEW r \in Requests, NEW b \in Blobs, Holds(r, b)'
          PROVE  Holds(r, b)
      <4>1. CASE sent'[r].kind \in UploadKinds /\ sent'[r].payload.blob = b
        BY <2>2, <2>5, <4>1 DEF Holds
      <4>2. ASSUME NEW h \in Handlers, hd'[h].pc # "idle", KindOf(h)' \in UploadKinds,
                   hd'[h].req = r, hd'[h].rec.blob = b
            PROVE  Holds(r, b)
        <5>1. KindOf(h)' = KindOf(h)
          BY <1>0, <2>3, <4>2, SentKept DEF KindOf
        <5> QED
          BY <2>3, <4>2, <5>1 DEF Holds
      <4> QED
        BY <3>2, <4>1, <4>2 DEF Holds
    <3> QED
      BY <3>1, <3>2
  <2> QED
    BY <2>4, <2>5
<1> QED
  BY <1>1, <1>2, <1>3, <1>4, <1>5 DEF Next

\* Ciphertexts keep their owners.
LEMMA OwnerKept ==
    ASSUME TypeInv, OwnerInv, \A h \in Handlers : PathInv(h), [Next]_vars
    PROVE  OwnerInv'
<1> SUFFICES ASSUME NEW b \in Blobs, NEW r \in Requests, Holds(r, b)'
             PROVE  b \in used' /\ \A q \in Requests : Holds(q, b)' => q = r
  BY DEF OwnerInv
<1>1. CASE /\ used' = used
           /\ \A q \in Requests : \A c \in Blobs : Holds(q, c)' => Holds(q, c)
  BY <1>1 DEF OwnerInv
<1>2. ASSUME NEW r0 \in Requests, NEW b0 \in Blobs, FreshFor(r0, b0),
             \A q \in Requests : \A c \in Blobs :
                Holds(q, c)' => Holds(q, c) \/ (q = r0 /\ c = b0)
      PROVE  b \in used' /\ \A q \in Requests : Holds(q, b)' => q = r
  BY <1>2 DEF OwnerInv, FreshFor
<1> QED
  BY <1>1, <1>2, HoldsStep

\* Requests stay what they are.
LEMMA SentInvKept ==
    ASSUME TypeInv, SentInv, [Next]_vars
    PROVE  SentInv'
<1>1. ASSUME NEW r \in Requests, Send(r)
      PROVE  SentInv'
  <2>1. PICK q \in [kind : Kinds, file : Files, version : 0..MaxVersion,
                    payload : Payload, flaw : Flaws] :
          Plausible(q) /\ sent' = [sent EXCEPT ![r] = q]
    BY <1>1 DEF Send
  <2>2. q.kind \in Kinds /\ (q.flaw = "content" => q.kind \in UploadKinds)
    BY <2>1 DEF Plausible
  <2> QED
    BY <2>1, <2>2 DEF SentInv, TypeInv, ControlOK
<1>2. ASSUME NEW r \in Requests, Retry(r)
      PROVE  SentInv'
  <2>1. ASSUME NEW q \in Requests, sent'[q] # NoRequest
        PROVE  /\ sent[q] \in Request
               /\ sent'[q].kind = sent[q].kind /\ sent'[q].flaw = sent[q].flaw
    <3>1. sent[q] \in Request
      <4>1. sent[r] \in Request
        BY <1>2 DEF Retry, TypeInv, ControlOK, NoRequest, UploadKinds
      <4> QED
        BY <1>2, <2>1, <4>1 DEF Retry, TypeInv, ControlOK
    <3> QED
      BY <3>1, SentKept
  <2>2. \A q \in Requests : sent[q] \in Request => sent[q] # NoRequest
    BY DEF Request, NoRequest, AllKinds, UploadKinds
  <2> QED
    BY <2>1, <2>2 DEF SentInv
<1>3. CASE UNCHANGED sent
  BY <1>3 DEF SentInv
<1>4. ASSUME NEW h \in Handlers, HandlerStep(h)
      PROVE  UNCHANGED sent
  BY <1>4, ServesOn DEF clientVars
<1> QED
  BY <1>1, <1>2, <1>3, <1>4 DEF Next, vars, clientVars

\* A handler stays on the path of its endpoint; only a valid upload enters one that
\* leads to the blob store.
LEMMA PathKept ==
    ASSUME TypeInv, [Next]_vars, NEW h \in Handlers, PathInv(h)
    PROVE  PathInv(h)'
<1>0. hd \in [Handlers -> Busy \cup {Idle}] /\ \A g \in Handlers : Serving(g)
  BY DEF TypeInv, ControlOK
<1>1. CASE hd'[h] = hd[h]
  <2> SUFFICES ASSUME hd[h].pc # "idle" PROVE PathInv(h)'
    BY <1>1 DEF PathInv
  <2>1. hd[h].req \in Requests /\ sent[hd[h].req] \in Request
    BY <1>0 DEF Serving, Busy
  <2>2. KindOf(h)' = KindOf(h) /\ sent'[hd[h].req].flaw = sent[hd[h].req].flaw
    BY <1>1, <2>1, SentKept DEF KindOf
  <2> QED
    BY <1>1, <2>2 DEF PathInv
<1>2. CASE hd'[h] # hd[h]
  <2>1. HandlerStep(h) /\ sent' = sent
    BY <1>2, OneActor, ServesOn DEF clientVars
  <2>2. ASSUME NEW r \in Requests, Receive(h, r)
        PROVE  PathInv(h)'
    <3>1. CASE hd'[h] = Start(r, "done", 400)
      BY <2>1, <3>1 DEF Start, PathInv
    <3>2. CASE /\ hd'[h] = Start(r, FirstPC(sent[r].kind), 0)
               /\ sent[r].kind \in UploadKinds => validateIncomingFile(sent[r])
      <4>1. /\ hd'[h].pc = FirstPC(sent[r].kind) /\ hd'[h].req = r
            /\ hd'[h].rec = sent[r].payload
        BY <3>2 DEF Start
      <4>2. /\ FirstPC(sent[r].kind) = "readVersion" => sent[r].kind = "restore"
            /\ sent[r].kind = "get" => FirstPC(sent[r].kind) = "readHead"
            /\ FirstPC(sent[r].kind) \in {"checkIdem", "storeBlob"}
                  => sent[r].kind \in UploadKinds
        BY DEF FirstPC, UploadKinds
      <4>3. sent[r].kind \in UploadKinds
              => sent[r].payload.deleted \/ sent[r].flaw # "content"
        BY <3>2 DEF validateIncomingFile
      <4> QED
        BY <2>1, <4>1, <4>2, <4>3 DEF PathInv, KindOf
    <3> QED
      BY <1>0, <2>2, <3>1, <3>2 DEF Receive
  <2>3. CASE Finish(h)
    BY <1>0, <2>3 DEF Finish, Idle, PathInv
  <2>4. ASSUME hd[h].pc # "idle", ~Finish(h)
        PROVE  PathInv(h)'
    <3>1. hd[h] \in Busy
      BY <1>0, <2>4 DEF Serving
    <3>2. ASSUME hd'[h].req = hd[h].req,
                 hd'[h].pc \notin {"checkIdem", "storeBlob", "readVersion"},
                 KindOf(h) = "get" => hd'[h].pc \in {"readBlob", "done"}
          PROVE  PathInv(h)'
      <4>1. KindOf(h)' = KindOf(h)
        BY <2>1, <3>2 DEF KindOf
      <4> QED
        BY <3>2, <4>1 DEF PathInv
    <3>3. CASE CheckIdempotency(h)
      <4>1. CASE Goto(h, "storeBlob")
        BY <1>0, <2>1, <2>4, <3>1, <3>3, <4>1 DEF Goto, Busy, PathInv, KindOf, CheckIdempotency
      <4>2. CASE ~Goto(h, "storeBlob")
        BY <1>0, <2>4, <3>1, <3>2, <3>3, <4>2 DEF CheckIdempotency, Busy, PathInv
      <4> QED
        BY <4>1, <4>2
    <3>4. CASE storeBlob(h)
      BY <1>0, <2>4, <3>1, <3>2, <3>4 DEF storeBlob, Goto, CommitPC, Busy, PathInv
    <3>5. CASE CreateFile(h)
      BY <1>0, <2>4, <3>1, <3>2, <3>5 DEF CreateFile, Reply, Busy, PathInv
    <3>6. CASE UpdateFile(h)
      BY <1>0, <2>4, <3>1, <3>2, <3>6 DEF UpdateFile, Goto, Reply, Busy, PathInv
    <3>7. CASE ReadCurrent(h) \/ PruneVersions(h) \/ DeleteBlob(h)
      BY <1>0, <2>4, <3>1, <3>2, <3>7 DEF ReadCurrent, PruneVersions, DeleteBlob, Goto, Busy,
         PathInv
    <3>8. CASE publish(h) \/ saveIdempotency(h)
      BY <1>0, <2>4, <3>1, <3>2, <3>8 DEF publish, saveIdempotency, Goto, Reply, Busy, PathInv
    <3>9. CASE readBlob(h) \/ Fail(h)
      BY <1>0, <2>4, <3>1, <3>2, <3>9 DEF readBlob, Fail, Reply, Busy
    <3>10. CASE ReadVersion(h)
      <4>1. KindOf(h) = "restore"
        BY <2>4, <3>10 DEF PathInv, ReadVersion
      <4>2. CASE Reply(h, 404)
        BY <1>0, <3>1, <3>2, <4>2 DEF Reply, Busy
      <4>3. CASE ~Reply(h, 404)
        <5>1. PICK v \in RowsOf(FileOf(h)) :
                 hd' = [hd EXCEPT ![h].pc = "readHead", ![h].rec = v.payload]
          BY <3>10, <4>3 DEF ReadVersion
        <5> QED
          BY <1>0, <3>1, <3>2, <4>1, <5>1 DEF Busy
      <4> QED
        BY <4>2, <4>3
    <3>11. CASE ReadHead(h)
      BY <1>0, <3>1, <3>2, <3>11 DEF ReadHead, Goto, Reply, Busy
    <3>12. ASSUME NEW r \in Requests, Receive(h, r) PROVE FALSE
      BY <2>4, <3>12 DEF Receive
    <3> QED
      BY <2>1, <2>4, <3>3, <3>4, <3>5, <3>6, <3>7, <3>8, <3>9, <3>10, <3>11, <3>12
         DEF HandlerStep
  <2>5. CASE hd[h].pc = "idle"
    BY <2>1, <2>2, <2>5 DEF HandlerStep, CheckIdempotency, storeBlob, CreateFile, UpdateFile,
       ReadCurrent, PruneVersions, DeleteBlob, publish, saveIdempotency, ReadVersion,
       ReadHead, readBlob, Fail, Finish
  <2> QED
    BY <2>3, <2>4, <2>5
<1> QED
  BY <1>1, <1>2

\* Uploads are made with a ciphertext and keep it.
LEMMA KeyKept ==
    ASSUME TypeInv, [Next]_vars, NEW h \in Handlers, PathInv(h), KeyInv(h)
    PROVE  KeyInv(h)'
<1> SUFFICES ASSUME hd'[h].pc # "idle", KindOf(h)' \in UploadKinds
             PROVE  hd'[h].rec.blob \in Blobs
  BY DEF KeyInv
<1>1. CASE hd'[h] = hd[h]
  <2>1. hd[h].req \in Requests /\ sent[hd[h].req] \in Request
    BY <1>1 DEF TypeInv, ControlOK, Serving, Busy
  <2>2. KindOf(h)' = KindOf(h)
    BY <1>1, <2>1, SentKept DEF KindOf
  <2> QED
    BY <1>1, <2>2 DEF KeyInv
<1>2. CASE hd'[h] # hd[h]
  <2>1. HandlerStep(h) /\ sent' = sent
    BY <1>2, OneActor, ServesOn DEF clientVars
  <2>2. CASE hd[h].pc = "idle"
    BY <2>1, <2>2, IdleReceives DEF KindOf, TypeInv, ControlOK
  <2>3. CASE hd[h].pc # "idle"
    <3>1. hd'[h].req = hd[h].req
      BY <2>1, <2>3, ServesOn
    <3>2. hd'[h].rec = hd[h].rec /\ KindOf(h) \in UploadKinds
      BY <2>1, <2>3, <3>1, RecKept DEF KindOf
    <3> QED
      BY <2>3, <3>2 DEF KeyInv
  <2> QED
    BY <2>2, <2>3
<1> QED
  BY <1>1, <1>2

\* The blob store is written by storeBlob and by the deletion after pruning.
LEMMA BlobWrites ==
    ASSUME [Next]_vars
    PROVE  UNCHANGED blobs \/ \E h \in Handlers : storeBlob(h) \/ DeleteBlob(h)
<1>1. ASSUME NEW h \in Handlers, HandlerStep(h), ~storeBlob(h), ~DeleteBlob(h)
      PROVE  UNCHANGED blobs
  BY <1>1 DEF HandlerStep, Receive, CheckIdempotency, CreateFile, UpdateFile, ReadCurrent,
     PruneVersions, publish, saveIdempotency, ReadVersion, ReadHead, readBlob, Fail, Finish,
     serverVars
<1>2. ASSUME NEW r \in Requests, Send(r) \/ Retry(r)
      PROVE  UNCHANGED blobs
  BY <1>2 DEF Send, Retry, serverVars
<1> QED
  BY <1>1, <1>2 DEF Next, vars, serverVars

\* What storeBlob stores belongs to the request it serves.
LEMMA StoredIsHeld ==
    ASSUME ChainInv, OwnerInv, NEW h \in Handlers, storeBlob(h)
    PROVE  /\ hd[h].req \in Requests /\ hd[h].rec.blob \in Blobs
           /\ Holds(hd[h].req, hd[h].rec.blob) /\ hd[h].rec.blob \in used
<1>1. hd[h].req \in Requests /\ hd[h].rec.blob \in Blobs /\ KindOf(h) \in UploadKinds
  BY DEF storeBlob, ChainInv, TypeInv, ControlOK, Serving, Busy, BaseInv
<1>2. Holds(hd[h].req, hd[h].rec.blob)
  BY <1>1 DEF Holds, storeBlob
<1> QED
  BY <1>1, <1>2 DEF OwnerInv

\* A corrupt upload's ciphertext does not get into the blob store, neither through its
\* own handlers, which validation stops, nor through those of another request.
LEMMA CorruptStep ==
    ASSUME IntactInv, [Next]_vars
    PROVE  CorruptNeverStored'
<1> SUFFICES ASSUME NEW r \in Requests, sent'[r].flaw = "content",
                    sent'[r].payload.blob \in blobs'
             PROVE  FALSE
  BY DEF CorruptNeverStored
<1>1. ASSUME UNCHANGED sent, blobs' \subseteq blobs
      PROVE  FALSE
  BY <1>1 DEF IntactInv, CorruptNeverStored
<1>2. ASSUME NEW h \in Handlers, storeBlob(h)
      PROVE  FALSE
  <2>1. UNCHANGED sent
    BY <1>2 DEF storeBlob, clientVars
  <2>2. /\ hd[h].rec.blob = sent[r].payload.blob /\ ~hd[h].rec.deleted
        /\ hd[h].pc = "storeBlob"
    BY <1>2, <2>1 DEF storeBlob, IntactInv, CorruptNeverStored
  <2>3. sent[r].kind \in UploadKinds
    BY <2>1 DEF IntactInv, SentInv, NoRequest
  <2>4. hd[h].req \in Requests /\ hd[h].rec.blob \in Blobs /\ Holds(hd[h].req, hd[h].rec.blob)
    BY <1>2, StoredIsHeld DEF IntactInv
  <2>5. Holds(r, hd[h].rec.blob)
    BY <2>2, <2>3 DEF Holds
  <2>6. r = hd[h].req
    BY <2>4, <2>5 DEF IntactInv, OwnerInv
  <2> QED
    BY <2>1, <2>2, <2>6 DEF IntactInv, PathInv
<1>3. ASSUME NEW h \in Handlers, DeleteBlob(h)
      PROVE  FALSE
  BY <1>1, <1>3 DEF DeleteBlob, clientVars
<1>4. ASSUME NEW q \in Requests, Send(q)
      PROVE  FALSE
  <2>1. PICK m : Plausible(m) /\ sent' = [sent EXCEPT ![q] = m]
    BY <1>4 DEF Send
  <2>2. blobs' = blobs /\ blobs \subseteq used /\ sent \in [Requests -> Request \cup {NoRequest}]
    BY <1>4 DEF Send, serverVars, IntactInv, ChainInv, TypeInv, ControlOK
  <2>3. CASE r = q
    BY <2>1, <2>2, <2>3 DEF Plausible
  <2>4. CASE r # q
    BY <2>1, <2>2, <2>4 DEF IntactInv, CorruptNeverStored
  <2> QED
    BY <2>3, <2>4
<1>5. ASSUME NEW q \in Requests, Retry(q)
      PROVE  FALSE
  <2>1. PICK b \in Blobs \ used : sent' = [sent EXCEPT ![q].payload.blob = b]
    BY <1>5 DEF Retry
  <2>2. blobs' = blobs /\ blobs \subseteq used /\ sent \in [Requests -> Request \cup {NoRequest}]
    BY <1>5 DEF Retry, serverVars, IntactInv, ChainInv, TypeInv, ControlOK
  <2>3. CASE r = q
    <3>1. sent[q] \in Request
      BY <1>5, <2>2 DEF Retry, NoRequest, UploadKinds
    <3>2. sent'[q].payload.blob = b
      BY <2>1, <2>2, <3>1 DEF Request, Payload
    <3> QED
      BY <2>2, <2>3, <3>2
  <2>4. CASE r # q
    BY <2>1, <2>2, <2>4 DEF IntactInv, CorruptNeverStored
  <2> QED
    BY <2>3, <2>4
<1>6. ASSUME NEW h \in Handlers, HandlerStep(h), UNCHANGED blobs
      PROVE  FALSE
  BY <1>1, <1>6, ServesOn DEF clientVars, IntactInv, ChainInv
<1>7. CASE UNCHANGED vars
  BY <1>1, <1>7 DEF vars, clientVars, serverVars
<1> QED
  BY <1>2, <1>3, <1>4, <1>5, <1>6, <1>7, BlobWrites DEF Next

\* IntactInv is inductive.
LEMMA IntactInvNext == IntactInv /\ [Next]_vars => IntactInv'
<1> SUFFICES ASSUME IntactInv, [Next]_vars PROVE IntactInv'
  OBVIOUS
<1>1. ChainInv' /\ OwnerInv' /\ SentInv' /\ CorruptNeverStored'
  BY ChainInvNext, OwnerKept, SentInvKept, CorruptStep DEF IntactInv, ChainInv
<1>2. \A h \in Handlers : PathInv(h)' /\ KeyInv(h)'
  BY PathKept, KeyKept DEF IntactInv, ChainInv
<1>3. blobs' \subseteq used'
  <2>1. used \subseteq used'
    BY HoldsStep DEF FreshFor, IntactInv, ChainInv
  <2>2. ASSUME NEW h \in Handlers, storeBlob(h)
        PROVE  blobs' \subseteq used
    BY <2>2, StoredIsHeld DEF storeBlob, IntactInv
  <2>3. ASSUME NEW h \in Handlers, DeleteBlob(h)
        PROVE  blobs' \subseteq used
    BY <2>3 DEF DeleteBlob, IntactInv
  <2> QED
    BY <2>1, <2>2, <2>3, BlobWrites DEF IntactInv
<1> QED
  BY <1>1, <1>2, <1>3 DEF IntactInv

\* Nothing is stored in the beginning.
LEMMA IntactInvInit == Init => IntactInv
<1> SUFFICES ASSUME Init PROVE IntactInv
  OBVIOUS
<1>1. ChainInv
  BY ChainInvInit
<1>2. SentInv /\ CorruptNeverStored /\ blobs \subseteq used
  BY DEF Init, SentInv, CorruptNeverStored, NoRequest
<1>3. \A h \in Handlers : PathInv(h) /\ KeyInv(h)
  BY DEF Init, PathInv, KeyInv, Idle
<1>4. OwnerInv
  BY DEF Init, OwnerInv, Holds, NoRequest, UploadKinds, Idle
<1> QED
  BY <1>1, <1>2, <1>3, <1>4 DEF IntactInv

\* A body whose content does not match its declared hash never reaches the blob store:
\* not on the paths validation guards, and not on the one that skips the content checks
\* because the upload says it is a deletion.
THEOREM CorruptNeverStoredCorrect == Spec => []CorruptNeverStored
<1>1. IntactInv => CorruptNeverStored
  BY DEF IntactInv
<1> QED
  BY <1>1, IntactInvInit, IntactInvNext, PTL DEF Spec

-----------------------------------------------------------------------------
(* Content is kept.                                                        *)

\* Without the restore endpoint no handler serves a restore.
LEMMA NoRestores ==
    ASSUME "restore" \notin Kinds, IntactInv, NEW h \in Handlers, hd[h].pc # "idle"
    PROVE  KindOf(h) # "restore"
<1>1. hd[h].req \in Requests /\ sent[hd[h].req] \in Request
  BY DEF IntactInv, ChainInv, TypeInv, ControlOK, Serving, Busy
<1>2. sent[hd[h].req] # NoRequest
  BY <1>1 DEF Request, NoRequest, AllKinds, UploadKinds
<1> QED
  BY <1>1, <1>2 DEF IntactInv, SentInv, KindOf

\* A commit brings in a ciphertext no version has had, with its content in the blob
\* store, or marks the version below it as deleted.
LEMMA CommitContent ==
    ASSUME "restore" \notin Kinds, BlobInv, NEW h \in Handlers, Committing(h),
           NEW f \in Files, NEW n \in Nat, CommittedAs(h, f, n)
    PROVE  \/ /\ hd[h].req \in Requests /\ hd[h].rec.blob \in Blobs
              /\ Holds(hd[h].req, hd[h].rec.blob) /\ hd[h].rec.blob \in used
              /\ sent[hd[h].req].file = f /\ sent[hd[h].req].version = n
              /\ ~Logged(hd[h].rec.blob)
              /\ hd[h].rec.deleted \/ hd[h].rec.blob \in blobs
           \/ /\ hd[h].rec.deleted /\ n \in DOMAIN log[f]
              /\ hd[h].rec.blob = log[f][n].payload.blob
<1>1. /\ hd[h].pc \in {"createFile", "updateFile"} /\ hd[h].base = n /\ FileOf(h) = f
      /\ Len(log[f]) = n /\ DOMAIN log[f] = 1..n
  BY DEF Committing, CommittedAs
<1>2. KindOf(h) \in UploadKinds \cup {"delete"} /\ hd[h].req \in Requests
  <2>1. KindOf(h) \in AllKinds /\ hd[h].req \in Requests
    BY <1>1, ServedRequest DEF BlobInv, IntactInv, ChainInv
  <2>2. KindOf(h) # "get" /\ KindOf(h) # "restore"
    BY <1>1, NoRestores DEF BlobInv, IntactInv, PathInv
  <2> QED
    BY <2>1, <2>2 DEF AllKinds
<1>3. CASE KindOf(h) \in UploadKinds
  <2>1. hd[h].rec.blob \in Blobs /\ Holds(hd[h].req, hd[h].rec.blob)
    BY <1>1, <1>3 DEF BlobInv, IntactInv, KeyInv, Holds
  <2>2. hd[h].rec.blob \in used
    BY <1>2, <2>1 DEF BlobInv, IntactInv, OwnerInv
  <2>3. sent[hd[h].req].file = f /\ sent[hd[h].req].version = n
    BY <1>1, <1>3 DEF BlobInv, IntactInv, ChainInv, BaseInv, FileOf
  <2>4. ASSUME Logged(hd[h].rec.blob) PROVE FALSE
    <3>1. PICK g \in Files : \E i \in DOMAIN log[g] : log[g][i].payload.blob = hd[h].rec.blob
      BY <2>4 DEF Logged
    <3>2. PICK i \in DOMAIN log[g] : log[g][i].payload.blob = hd[h].rec.blob
      BY <3>1
    <3>3. g = f /\ i > n
      BY <1>2, <2>1, <2>3, <3>2 DEF BlobInv, LogOwner
    <3> QED
      BY <1>1, <3>2, <3>3
  <2>5. hd[h].rec.deleted \/ hd[h].rec.blob \in blobs
    BY <1>1, <1>3, <2>4 DEF BlobInv, ContentInv, StoredInv
  <2> QED
    BY <1>2, <2>1, <2>2, <2>3, <2>4, <2>5
<1>4. CASE KindOf(h) = "delete"
  <2>1. hd[h].pc = "updateFile"
    BY <1>1, <1>4 DEF BlobInv, IntactInv, ChainInv, BaseInv, UploadKinds
  <2> QED
    BY <1>1, <1>4, <2>1 DEF BlobInv, ContentInv, DeleteInv
<1> QED
  BY <1>2, <1>3, <1>4

\* What has been committed stays committed.
LEMMA LoggedStays ==
    ASSUME ChainInv, [Next]_vars, NEW b, Logged(b)
    PROVE  Logged(b)'
BY LogGrows DEF Logged

\* A request that holds a ciphertext has been made.
LEMMA HolderSent ==
    ASSUME TypeInv, NEW r \in Requests, NEW b, Holds(r, b)
    PROVE  sent[r] \in Request
<1>1. CASE sent[r].kind \in UploadKinds
  BY <1>1 DEF TypeInv, ControlOK, NoRequest, UploadKinds
<1>2. ASSUME NEW h \in Handlers, hd[h].pc # "idle", hd[h].req = r
      PROVE  sent[r] \in Request
  BY <1>2 DEF TypeInv, ControlOK, Serving
<1> QED
  BY <1>1, <1>2 DEF Holds

\* What LogUsed, OneFile and LogOwner say stays true.
LEMMA LogContentKept ==
    ASSUME "restore" \notin Kinds, BlobInv, [Next]_vars
    PROVE  LogUsed' /\ OneFile' /\ LogOwner'
<1>0. TypeInv /\ ChainInv /\ used \subseteq Blobs
  BY DEF BlobInv, IntactInv, ChainInv, TypeInv, ControlOK
<1>1. ASSUME NEW h \in Handlers, Committing(h)
      PROVE  LogUsed' /\ OneFile' /\ LogOwner'
  <2>1. PICK f \in Files, n \in Nat : CommittedAs(h, f, n)
    BY <1>0, <1>1, CommitEffect
  <2>2. PICK b : b = hd[h].rec.blob
    OBVIOUS
  <2>3. ASSUME NEW g \in Files, NEW i \in DOMAIN log'[g]
        PROVE  \/ i \in DOMAIN log[g] /\ log'[g][i] = log[g][i]
               \/ g = f /\ i = n + 1 /\ log'[g][i].payload.blob = b
    <3>1. CASE g # f
      BY <2>1, <2>3, <3>1 DEF CommittedAs
    <3>2. CASE g = f /\ i # n + 1
      <4>1. i \in 1..n
        BY <2>1, <2>3, <3>2 DEF CommittedAs
      <4> QED
        BY <2>1, <3>2, <4>1 DEF CommittedAs
    <3>3. CASE g = f /\ i = n + 1
      BY <2>1, <2>2, <3>3 DEF CommittedAs
    <3> QED
      BY <3>1, <3>2, <3>3
  <2>4. sent' = sent /\ DOMAIN log[f] = 1..n
    BY <2>1 DEF CommittedAs
  <2>5. /\ used' = used
        /\ \A r \in Requests : \A c \in Blobs : Holds(r, c)' => Holds(r, c)
    <3>1. log' # log
      <4>1. Len(log[f]) = n /\ Len(log'[f]) = n + 1 /\ n # n + 1
        BY <2>1 DEF CommittedAs
      <4> QED
        BY <4>1
    <3> QED
      BY <1>0, <3>1, HoldsStep DEF FreshFor, BlobInv, IntactInv
  <2>6. CASE /\ hd[h].req \in Requests /\ b \in Blobs /\ Holds(hd[h].req, b) /\ b \in used
             /\ sent[hd[h].req].file = f /\ sent[hd[h].req].version = n /\ ~Logged(b)
    <3>1. LogUsed'
      BY <2>3, <2>5, <2>6 DEF LogUsed, BlobInv
    <3>2. OneFile'
      <4> SUFFICES ASSUME NEW g \in Files, NEW k \in Files,
                          NEW i \in DOMAIN log'[g], NEW j \in DOMAIN log'[k],
                          log'[g][i].payload.blob = log'[k][j].payload.blob
                   PROVE  g = k
        BY DEF OneFile
      <4>1. CASE /\ i \in DOMAIN log[g] /\ log'[g][i] = log[g][i]
                 /\ j \in DOMAIN log[k] /\ log'[k][j] = log[k][j]
        BY <4>1 DEF OneFile, BlobInv
      <4> QED
        BY <2>3, <2>6, <4>1 DEF Logged
    <3>3. LogOwner'
      <4> SUFFICES ASSUME NEW c \in Blobs, NEW r \in Requests, Holds(r, c)',
                          NEW g \in Files, NEW i \in DOMAIN log'[g],
                          log'[g][i].payload.blob = c
                   PROVE  g = sent[r].file /\ i > sent[r].version
        BY <2>4 DEF LogOwner
      <4>1. Holds(r, c)
        BY <2>5
      <4>2. CASE i \in DOMAIN log[g] /\ log'[g][i] = log[g][i]
        BY <4>1, <4>2 DEF LogOwner, BlobInv
      <4>3. CASE g = f /\ i = n + 1 /\ log'[g][i].payload.blob = b
        <5>1. r = hd[h].req
          BY <2>6, <4>1, <4>3 DEF BlobInv, IntactInv, OwnerInv
        <5> QED
          BY <2>6, <4>3, <5>1
      <4> QED
        BY <2>3, <4>2, <4>3
    <3> QED
      BY <3>1, <3>2, <3>3
  <2>7. CASE n \in DOMAIN log[f] /\ b = log[f][n].payload.blob
    <3>1. LogUsed'
      BY <2>3, <2>5, <2>7 DEF LogUsed, BlobInv
    <3>2. ASSUME NEW g \in Files, NEW i \in DOMAIN log'[g]
          PROVE  \E j \in DOMAIN log[g] : /\ log'[g][i].payload.blob = log[g][j].payload.blob
                                          /\ j \in Nat /\ i \in Nat /\ j <= i
      <4>1. CASE g = f /\ i = n + 1 /\ log'[g][i].payload.blob = b
        BY <2>7, <4>1
      <4>2. CASE i \in DOMAIN log[g] /\ log'[g][i] = log[g][i]
        <5>1. log[g] \in Seq(Write)
          BY <1>0 DEF TypeInv, StoreOK
        <5> QED
          BY <4>2, <5>1
      <4> QED
        BY <2>3, <3>2, <4>1, <4>2
    <3>3. OneFile'
      BY <3>2 DEF OneFile, BlobInv
    <3>4. LogOwner'
      <4> SUFFICES ASSUME NEW c \in Blobs, NEW r \in Requests, Holds(r, c)',
                          NEW g \in Files, NEW i \in DOMAIN log'[g],
                          log'[g][i].payload.blob = c
                   PROVE  g = sent[r].file /\ i > sent[r].version
        BY <2>4 DEF LogOwner
      <4>1. Holds(r, c)
        BY <2>5
      <4>2. PICK j \in DOMAIN log[g] : /\ c = log[g][j].payload.blob
                                       /\ j \in Nat /\ i \in Nat /\ j <= i
        BY <3>2
      <4>3. g = sent[r].file /\ j > sent[r].version
        BY <4>1, <4>2 DEF LogOwner, BlobInv
      <4>4. sent[r].version \in Nat
        BY <1>0, <4>1, HolderSent DEF Request
      <4> QED
        BY <4>2, <4>3, <4>4
    <3> QED
      BY <3>1, <3>3, <3>4
  <2> QED
    BY <1>1, <2>1, <2>2, <2>6, <2>7, CommitContent
<1>2. CASE UNCHANGED log
  <2>1. used \subseteq used'
    BY <1>0, HoldsStep DEF FreshFor, BlobInv, IntactInv
  <2>2. LogUsed' /\ OneFile'
    BY <1>2, <2>1 DEF LogUsed, OneFile, BlobInv
  <2>3. LogOwner'
    <3> SUFFICES ASSUME NEW c \in Blobs, NEW r \in Requests, Holds(r, c)',
                        NEW g \in Files, NEW i \in DOMAIN log[g],
                        log[g][i].payload.blob = c
                 PROVE  g = sent'[r].file /\ i > sent'[r].version
      BY <1>2 DEF LogOwner
    <3>1. CASE Holds(r, c)
      <4>1. g = sent[r].file /\ i > sent[r].version
        BY <3>1 DEF LogOwner, BlobInv
      <4> QED
        BY <1>0, <3>1, <4>1, HolderSent, SentKept
    <3>2. CASE c \notin used
      BY <3>2 DEF LogUsed, BlobInv
    <3> QED
      BY <1>0, <3>1, <3>2, HoldsStep DEF FreshFor, BlobInv, IntactInv
  <2> QED
    BY <2>2, <2>3
<1> QED
  BY <1>0, <1>1, <1>2, StepKinds

\* A new row is of a version the file did not have, and is deleted or has content that
\* no committed version had before.
LEMMA NewRows ==
    ASSUME "restore" \notin Kinds, BlobInv, [Next]_vars,
           NEW v \in versions', v \notin versions
    PROVE  /\ v.file \in Files /\ v.version \notin DOMAIN log[v.file]
           /\ \/ v.payload.deleted
              \/ ~Logged(v.payload.blob) /\ v.payload.blob \in blobs'
<1>0. ChainInv
  BY DEF BlobInv, IntactInv
<1>1. PICK h \in Handlers : Committing(h)
  BY <1>0, StepKinds DEF PruneVersions
<1>2. PICK f \in Files, n \in Nat : CommittedAs(h, f, n)
  BY <1>0, <1>1, CommitEffect
<1>3. /\ v.file = f /\ v.version = n + 1 /\ v.payload = hd[h].rec
      /\ DOMAIN log[f] = 1..n /\ blobs' = blobs
  BY <1>1, <1>2 DEF CommittedAs, Committing
<1>4. n + 1 \notin 1..n
  OBVIOUS
<1>5. hd[h].rec.deleted \/ (~Logged(hd[h].rec.blob) /\ hd[h].rec.blob \in blobs)
  BY <1>1, <1>2, CommitContent
<1> QED
  BY <1>3, <1>4, <1>5

\* Content that is deleted was committed once, and no live row uses it.
LEMMA BlobGone ==
    ASSUME BlobInv, [Next]_vars, NEW b \in blobs, b \notin blobs'
    PROVE  Logged(b) /\ \A v \in versions : v.payload.blob = b => v.payload.deleted
<1>1. PICK h \in Handlers : DeleteBlob(h)
  BY BlobWrites DEF storeBlob
<1>2. hd[h].pc = "deleteBlobs" /\ b \in hd[h].drop
  BY <1>1 DEF DeleteBlob
<1> QED
  BY <1>2 DEF BlobInv, ContentInv, DropInv

\* So no step leaves a live row without its content.
LEMMA RetainedKept ==
    ASSUME "restore" \notin Kinds, BlobInv, [Next]_vars
    PROVE  RetainedBlobsPresent'
<1> SUFFICES ASSUME NEW v \in versions', ~v.payload.deleted
             PROVE  v.payload.blob \in blobs'
  BY DEF RetainedBlobsPresent
<1>1. CASE v \in versions
  BY <1>1, BlobGone DEF BlobInv, RetainedBlobsPresent
<1> QED
  BY <1>1, NewRows

\* What a handler holds is not touched by the steps of the others.
LEMMA ContentStays ==
    ASSUME "restore" \notin Kinds, BlobInv, [Next]_vars, NEW g \in Handlers, hd'[g] = hd[g]
    PROVE  ContentInv(g)'
<1>0. TypeInv /\ ChainInv /\ ContentInv(g)
  BY DEF BlobInv, IntactInv, ChainInv
<1>1. CASE hd[g].pc = "idle"
  BY <1>1 DEF ContentInv, DeleteInv, StoredInv, DropInv, GetInv
<1>2. CASE hd[g].pc # "idle"
  <2>1. hd[g].req \in Requests /\ sent[hd[g].req] \in Request /\ FileOf(g) \in Files
    BY <1>0, <1>2, ServedRequest DEF TypeInv, ControlOK, Serving
  <2>2. KindOf(g)' = KindOf(g) /\ FileOf(g)' = FileOf(g)
    BY <1>0, <2>1, SentKept DEF KindOf, FileOf
  <2>3. \A i \in DOMAIN log[FileOf(g)] : /\ i \in DOMAIN log'[FileOf(g)]
                                         /\ log'[FileOf(g)][i] = log[FileOf(g)][i]
    BY <1>0, <2>1, LogGrows
  <2>4. DeleteInv(g)'
    BY <1>0, <2>2, <2>3 DEF ContentInv, DeleteInv
  <2>5. StoredInv(g)'
    <3>1. ASSUME Logged(hd[g].rec.blob) PROVE Logged(hd[g].rec.blob)'
      <4>1. PICK b : b = hd[g].rec.blob
        OBVIOUS
      <4>2. Logged(b)'
        BY <1>0, <3>1, <4>1, LoggedStays
      <4> QED
        BY <4>1, <4>2
    <3>2. hd[g].rec.blob \in blobs => hd[g].rec.blob \in blobs' \/ Logged(hd[g].rec.blob)
      BY BlobGone
    <3> QED
      BY <1>0, <2>2, <3>1, <3>2 DEF ContentInv, StoredInv
  <2>6. DropInv(g)'
    <3> SUFFICES ASSUME hd[g].pc = "deleteBlobs", NEW k \in hd[g].drop
                 PROVE  Logged(k)' /\ \A v \in versions' : v.payload.blob = k => v.payload.deleted
      BY DEF DropInv
    <3>1. Logged(k) /\ \A v \in versions : v.payload.blob = k => v.payload.deleted
      BY <1>0 DEF ContentInv, DropInv
    <3>2. Logged(k)'
      BY <1>0, <3>1, LoggedStays
    <3>3. ASSUME NEW v \in versions', v.payload.blob = k
          PROVE  v.payload.deleted
      BY <3>1, <3>3, NewRows
    <3> QED
      BY <3>2, <3>3
  <2>7. GetInv(g)'
    <3> SUFFICES ASSUME KindOf(g) = "get" PROVE GetInv(g)'
      BY <2>2 DEF GetInv
    <3>1. hd[g].out # 0 => /\ hd[g].out \in DOMAIN log'[FileOf(g)]
                           /\ hd[g].rec = log'[FileOf(g)][hd[g].out].payload
      BY <1>0, <1>2, <2>3 DEF ContentInv, GetInv
    <3>2. ASSUME hd[g].pc = "done", hd[g].code = 404, hd[g].out # 0,
                 NEW v \in RowsOf(FileOf(g))'
          PROVE  v.version # hd[g].out
      <4>1. v \in versions' /\ v.file = FileOf(g)
        BY <2>2 DEF RowsOf
      <4>2. CASE v \in versions
        BY <1>0, <1>2, <3>2, <4>1, <4>2 DEF ContentInv, GetInv, RowsOf
      <4>3. CASE v \notin versions
        <5>1. v.version \notin DOMAIN log[FileOf(g)]
          BY <4>1, <4>3, NewRows
        <5> QED
          BY <1>0, <1>2, <3>2, <5>1 DEF ContentInv, GetInv
      <4> QED
        BY <4>2, <4>3
    <3> QED
      BY <1>0, <1>2, <2>2, <3>1, <3>2 DEF ContentInv, GetInv
  <2> QED
    BY <2>4, <2>5, <2>6, <2>7 DEF ContentInv
<1> QED
  BY <1>1, <1>2

\* A pruned key belongs to no row that is left, of this file or of another one.
LEMMA PrunedUnused ==
    ASSUME BlobInv, NEW f \in Files, NEW k \in PrunedKeys(f),
           NEW w \in versions \ Surplus(f)
    PROVE  Logged(k) /\ w.payload.blob # k
<1>1. PICK v \in Surplus(f) : v.payload.blob = k
  BY DEF PrunedKeys, KeysOf
<1>2. v \in RowsOf(f)
  BY <1>1 DEF Surplus
<1>3. v.version \in DOMAIN log[f] /\ log[f][v.version].payload.blob = k
  BY <1>1, <1>2 DEF BlobInv, RecordInv, HistoryKept
<1>4. ASSUME w.payload.blob = k PROVE FALSE
  <2>1. w.file \in Files /\ w \in RowsOf(w.file)
    BY DEF RowsOf, BlobInv, IntactInv, ChainInv, TypeInv, StoreOK, VersionRow
  <2>2. w.version \in DOMAIN log[w.file] /\ log[w.file][w.version].payload.blob = k
    BY <1>4, <2>1 DEF BlobInv, RecordInv, HistoryKept
  <2>3. w.file = f
    BY <1>3, <2>1, <2>2 DEF BlobInv, OneFile
  <2>4. w \in RowsOf(f) \ Surplus(f)
    BY <2>1, <2>3
  <2>5. k \in KeysOf(RowsOf(f) \ Surplus(f))
    BY <1>4, <2>4 DEF KeysOf
  <2> QED
    BY <2>5 DEF PrunedKeys
<1> QED
  BY <1>3, <1>4 DEF Logged

\* The steps of the handler itself.
LEMMA ContentOwn ==
    ASSUME "restore" \notin Kinds, BlobInv, NEW h \in Handlers, HandlerStep(h)
    PROVE  ContentInv(h)'
<1>0. /\ TypeInv /\ ChainInv /\ ContentInv(h) /\ PathInv(h) /\ HistoryKept
      /\ hd \in [Handlers -> Busy \cup {Idle}] /\ [Next]_vars
  BY DEF BlobInv, RecordInv, IntactInv, ChainInv, TypeInv, ControlOK, Next
<1>1. sent' = sent
  BY <1>0, ServesOn DEF clientVars
<1>2. ASSUME hd'[h].pc \notin {"readHead", "createFile", "updateFile", "deleteBlobs"},
             hd'[h].pc # "idle" => KindOf(h)' # "get"
      PROVE  ContentInv(h)'
  BY <1>2 DEF ContentInv, DeleteInv, StoredInv, DropInv, GetInv
<1>3. CASE Finish(h)
  BY <1>0, <1>2, <1>3 DEF Finish, Idle
<1>4. CASE hd[h].pc = "idle"
  <2>1. PICK r \in Requests : /\ hd'[h].req = r /\ hd'[h].out = 0
                              /\ hd'[h].pc \in {"done", FirstPC(sent[r].kind)}
    BY <1>0, <1>4, IdleReceives
  <2>2. /\ FirstPC(sent[r].kind) \in {"checkIdem", "storeBlob", "readVersion", "readHead"}
        /\ FirstPC(sent[r].kind) = "readHead" => sent[r].kind \notin UploadKinds
        /\ sent[r].kind = "get" => FirstPC(sent[r].kind) = "readHead"
    BY DEF FirstPC, UploadKinds
  <2>3. KindOf(h)' = sent[r].kind
    BY <1>1, <2>1 DEF KindOf
  <2> QED
    BY <2>1, <2>2, <2>3 DEF ContentInv, DeleteInv, StoredInv, DropInv, GetInv
<1>5. CASE hd[h].pc # "idle" /\ ~Finish(h)
  <2>0. /\ hd[h] \in Busy /\ FileOf(h) \in Files
        /\ KindOf(h) = "get" => hd[h].pc \in {"readHead", "readBlob", "done"}
    BY <1>0, <1>5, ServedRequest DEF PathInv
  <2>1. ASSUME hd'[h].req = hd[h].req
        PROVE  KindOf(h)' = KindOf(h) /\ FileOf(h)' = FileOf(h)
    BY <1>1, <2>1 DEF KindOf, FileOf
  <2>2. ASSUME hd'[h].req = hd[h].req, KindOf(h) # "get",
               hd'[h].pc \notin {"readHead", "createFile", "updateFile", "deleteBlobs"}
        PROVE  ContentInv(h)'
    BY <1>2, <2>1, <2>2
  <2>3. CASE CheckIdempotency(h)
    BY <1>0, <2>0, <2>2, <2>3 DEF CheckIdempotency, Goto, Busy
  <2>4. CASE storeBlob(h)
    <3>1. /\ hd'[h].req = hd[h].req /\ hd'[h].rec = hd[h].rec /\ KindOf(h) # "get"
          /\ hd'[h].pc \in {"readHead", "createFile", "updateFile"}
      BY <1>0, <2>0, <2>4 DEF storeBlob, Goto, CommitPC, Busy
    <3>2. KindOf(h) \in UploadKinds
      BY <1>0, <1>5, <2>4 DEF storeBlob, ChainInv, BaseInv
    <3>3. hd[h].rec.deleted \/ hd[h].rec.blob \in blobs'
      BY <2>4 DEF storeBlob
    <3> QED
      BY <2>1, <3>1, <3>2, <3>3 DEF ContentInv, DeleteInv, StoredInv, DropInv, GetInv,
         UploadKinds
  <2>5. CASE CreateFile(h)
    BY <1>0, <2>0, <2>2, <2>5 DEF CreateFile, Reply, Busy
  <2>6. CASE UpdateFile(h)
    BY <1>0, <2>0, <2>2, <2>6 DEF UpdateFile, Goto, Reply, Busy
  <2>7. CASE ReadCurrent(h)
    BY <1>0, <2>0, <2>2, <2>7 DEF ReadCurrent, Busy
  <2>8. CASE publish(h) \/ saveIdempotency(h)
    BY <1>0, <2>0, <2>2, <2>8 DEF publish, saveIdempotency, Goto, Reply, Busy
  <2>9. CASE PruneVersions(h)
    <3>1. KindOf(h) # "get"
      BY <2>0, <2>9 DEF PruneVersions
    <3>2. CASE Goto(h, "publish")
      BY <1>0, <2>0, <2>2, <3>1, <3>2 DEF Goto, Busy
    <3>3. CASE ~Goto(h, "publish")
      <4>1. /\ versions' = versions \ Surplus(FileOf(h)) /\ log' = log
            /\ hd' = [hd EXCEPT ![h].pc = "deleteBlobs", ![h].drop = PrunedKeys(FileOf(h))]
        BY <2>9, <3>3 DEF PruneVersions
      <4>2. /\ hd'[h].pc = "deleteBlobs" /\ hd'[h].drop = PrunedKeys(FileOf(h))
            /\ hd'[h].req = hd[h].req
        BY <1>0, <2>0, <4>1 DEF Busy
      <4>3. ASSUME NEW k \in PrunedKeys(FileOf(h))
            PROVE  Logged(k)' /\ \A v \in versions' : v.payload.blob = k => v.payload.deleted
        <5>1. Logged(k)
          <6>1. PICK v \in Surplus(FileOf(h)) : v.payload.blob = k
            BY DEF PrunedKeys, KeysOf
          <6> QED
            BY <1>0, <2>0, <6>1 DEF Surplus, HistoryKept, Logged
        <5>2. Logged(k)'
          BY <4>1, <5>1 DEF Logged
        <5> QED
          BY <2>0, <4>1, <5>2, PrunedUnused
      <4>4. DropInv(h)'
        BY <4>2, <4>3 DEF DropInv
      <4> QED
        BY <2>1, <3>1, <4>2, <4>4 DEF ContentInv, DeleteInv, StoredInv, GetInv
    <3> QED
      BY <3>2, <3>3
  <2>10. CASE DeleteBlob(h)
    <3>1. KindOf(h) # "get" /\ UNCHANGED <<versions, log>> /\ hd[h].pc = "deleteBlobs"
      BY <2>0, <2>10 DEF DeleteBlob
    <3>2. CASE Goto(h, "publish")
      BY <1>0, <2>0, <2>2, <3>1, <3>2 DEF Goto, Busy
    <3>3. CASE ~Goto(h, "publish")
      <4>1. PICK k \in hd[h].drop : hd' = [hd EXCEPT ![h].drop = @ \ {k}]
        BY <2>10, <3>3 DEF DeleteBlob
      <4>2. /\ hd'[h].pc = "deleteBlobs" /\ hd'[h].drop = hd[h].drop \ {k}
            /\ hd'[h].req = hd[h].req
        BY <1>0, <2>0, <3>1, <4>1 DEF Busy
      <4>3. DropInv(h)'
        BY <1>0, <3>1, <4>2 DEF ContentInv, DropInv, Logged
      <4> QED
        BY <2>1, <3>1, <4>2, <4>3 DEF ContentInv, DeleteInv, StoredInv, GetInv
    <3> QED
      BY <3>2, <3>3
  <2>11. CASE ReadVersion(h)
    BY <1>0, <1>5, <2>11, NoRestores DEF ReadVersion, PathInv, BlobInv
  <2>12. CASE readBlob(h)
    <3>1. KindOf(h) = "get"
      BY <1>5, <2>12 DEF readBlob, BlobInv, RecordInv, AnswerInv
    <3>2. /\ hd'[h].pc = "done" /\ hd'[h].req = hd[h].req /\ hd'[h].rec = hd[h].rec
          /\ hd'[h].out = hd[h].out /\ UNCHANGED <<versions, log>>
          /\ hd'[h].code = 404 => hd[h].rec.blob \notin blobs
      BY <1>0, <2>0, <2>12 DEF readBlob, Reply, Busy, serverVars
    <3>3. /\ hd[h].out \in DOMAIN log[FileOf(h)] /\ ~hd[h].rec.deleted
          /\ hd[h].rec = log[FileOf(h)][hd[h].out].payload
      BY <1>0, <1>5, <2>12, <3>1 DEF ContentInv, GetInv, readBlob
    <3>4. ASSUME hd[h].rec.blob \notin blobs, NEW v \in RowsOf(FileOf(h)),
                 v.version = hd[h].out
          PROVE  FALSE
      <4>1. v.payload = hd[h].rec /\ v \in versions
        BY <1>0, <2>0, <3>3, <3>4 DEF HistoryKept, RowsOf
      <4> QED
        BY <3>3, <3>4, <4>1 DEF BlobInv, RetainedBlobsPresent
    <3>5. RowsOf(FileOf(h))' = RowsOf(FileOf(h)) /\ FileOf(h)' = FileOf(h)
      BY <2>1, <3>2 DEF RowsOf
    <3>6. hd'[h].code = 404 => \A v \in RowsOf(FileOf(h)) : v.version # hd[h].out
      BY <3>2, <3>4
    <3>7. GetInv(h)'
      BY <3>2, <3>3, <3>5, <3>6 DEF GetInv
    <3> QED
      BY <3>2, <3>7 DEF ContentInv, DeleteInv, StoredInv, DropInv
  <2>13. CASE Fail(h)
    <3>1. /\ hd'[h].pc = "done" /\ hd'[h].code = 500 /\ hd'[h].req = hd[h].req
          /\ hd'[h].out = hd[h].out /\ hd'[h].rec = hd[h].rec /\ log' = log
      BY <1>0, <2>0, <2>13 DEF Fail, Reply, Busy
    <3> QED
      BY <1>0, <1>5, <2>1, <3>1 DEF ContentInv, DeleteInv, StoredInv, DropInv, GetInv
  <2>14. CASE ReadHead(h)
    <3> DEFINE f == FileOf(h)
    <3>1. UNCHANGED <<versions, log, blobs, files>> /\ hd[h].pc = "readHead"
      BY <2>14 DEF ReadHead, serverVars
    <3>2. KindOf(h) # "restore"
      BY <1>5, NoRestores DEF BlobInv
    <3>3. HeadOf(h).version # 0 =>
             /\ HeadOf(h).version \in DOMAIN log[f]
             /\ HeadOf(h).payload = log[f][HeadOf(h).version].payload
      <4>1. log[f] \in Seq(Write) /\ HeadOf(h).version = Len(log[f])
        BY <1>0, <2>0 DEF TypeInv, StoreOK, HistoryKept, HeadOf
      <4>2. HeadOf(h).version # 0 => log[f] # <<>> /\ Len(log[f]) \in DOMAIN log[f]
        BY <4>1
      <4> QED
        BY <1>0, <2>0, <4>1, <4>2 DEF HistoryKept, HeadOf
    <3>4. CASE KindOf(h) = "batch"
      <4>1. /\ hd'[h].pc \in {"createFile", "updateFile"} /\ hd'[h].req = hd[h].req
            /\ hd'[h].rec = hd[h].rec
        BY <1>0, <2>0, <2>14, <3>4 DEF ReadHead, Goto, Busy
      <4>2. StoredInv(h)'
        BY <1>0, <2>1, <3>1, <4>1 DEF ContentInv, StoredInv, Logged
      <4> QED
        BY <2>1, <3>4, <4>1, <4>2 DEF ContentInv, DeleteInv, DropInv, GetInv
    <3>5. CASE KindOf(h) # "batch" /\ HeadOf(h).version = 0
      <4>1. /\ hd'[h].pc = "done" /\ hd'[h].req = hd[h].req /\ hd'[h].out = hd[h].out
        BY <1>0, <2>0, <2>14, <3>5 DEF ReadHead, Reply, Busy
      <4>2. KindOf(h) = "get" => hd[h].out = 0
        BY <1>0, <1>5, <3>1 DEF ContentInv, GetInv
      <4> QED
        BY <2>1, <4>1, <4>2 DEF ContentInv, DeleteInv, StoredInv, DropInv, GetInv
    <3>6. CASE KindOf(h) = "delete" /\ HeadOf(h).version # 0
      <4>1. PICK p : p = [HeadOf(h).payload EXCEPT !.deleted = TRUE]
        OBVIOUS
      <4>2. HeadOf(h).payload \in Payload
        BY <1>0, <1>5, ServedRequest DEF HeadRow
      <4>3. p.deleted /\ p.blob = HeadOf(h).payload.blob
        BY <4>1, <4>2 DEF Payload
      <4>4. hd' = [hd EXCEPT ![h].pc = "updateFile", ![h].base = HeadOf(h).version,
                             ![h].rec = p]
        BY <2>14, <3>6, <4>1 DEF ReadHead
      <4>5. /\ hd'[h].pc = "updateFile" /\ hd'[h].base = HeadOf(h).version
            /\ hd'[h].rec = p /\ hd'[h].req = hd[h].req
        BY <1>0, <2>0, <4>4 DEF Busy
      <4>6. DeleteInv(h)'
        BY <2>1, <3>1, <3>3, <3>6, <4>3, <4>5 DEF DeleteInv
      <4> QED
        BY <2>1, <3>6, <4>5, <4>6 DEF ContentInv, StoredInv, DropInv, GetInv, UploadKinds
    <3>7. CASE KindOf(h) = "get" /\ HeadOf(h).version # 0
      <4>1. /\ hd'[h].pc = (IF HeadOf(h).payload.deleted THEN "done" ELSE "readBlob")
            /\ hd'[h].code = (IF HeadOf(h).payload.deleted THEN 200 ELSE 0)
            /\ hd'[h].out = HeadOf(h).version /\ hd'[h].rec = HeadOf(h).payload
            /\ hd'[h].req = hd[h].req
        BY <1>0, <2>0, <2>14, <3>7 DEF ReadHead, Busy
      <4> QED
        BY <2>1, <3>1, <3>3, <3>7, <4>1 DEF ContentInv, DeleteInv, StoredInv, DropInv, GetInv
    <3> QED
      BY <2>14, <3>2, <3>4, <3>5, <3>6, <3>7 DEF ReadHead
  <2>15. ASSUME NEW r \in Requests, Receive(h, r) PROVE FALSE
    BY <1>5, <2>15 DEF Receive
  <2> QED
    BY <1>5, <2>3, <2>4, <2>5, <2>6, <2>7, <2>8, <2>9, <2>10, <2>11, <2>12, <2>13, <2>14,
       <2>15 DEF HandlerStep
<1> QED
  BY <1>3, <1>4, <1>5

\* BlobInv is inductive when versions are not restored.
LEMMA BlobInvNext ==
    ASSUME "restore" \notin Kinds
    PROVE  BlobInv /\ [Next]_vars => BlobInv'
<1> SUFFICES ASSUME BlobInv, [Next]_vars PROVE BlobInv'
  OBVIOUS
<1>1. RecordInv' /\ IntactInv'
  BY RecordInvNext, IntactInvNext DEF BlobInv
<1>2. LogUsed' /\ OneFile' /\ LogOwner' /\ RetainedBlobsPresent'
  BY LogContentKept, RetainedKept
<1>3. ASSUME NEW h \in Handlers
      PROVE  ContentInv(h)'
  <2>1. CASE hd'[h] = hd[h]
    BY <2>1, ContentStays
  <2>2. CASE hd'[h] # hd[h]
    BY <2>2, OneActor, ContentOwn DEF BlobInv, IntactInv, ChainInv
  <2> QED
    BY <2>1, <2>2
<1> QED
  BY <1>1, <1>2, <1>3 DEF BlobInv

\* There are no versions in the beginning.
LEMMA BlobInvInit == Init => BlobInv
<1> SUFFICES ASSUME Init PROVE BlobInv
  OBVIOUS
<1>1. RecordInv /\ IntactInv
  BY RecordInvInit, IntactInvInit
<1>2. DOMAIN <<>> = {} /\ \A f \in Files : log[f] = <<>>
  BY DEF Init
<1>3. LogUsed /\ OneFile /\ LogOwner
  BY <1>2 DEF LogUsed, OneFile, LogOwner
<1>4. RetainedBlobsPresent
  BY DEF Init, RetainedBlobsPresent
<1>5. \A h \in Handlers : ContentInv(h)
  BY DEF Init, Idle, ContentInv, DeleteInv, StoredInv, DropInv, GetInv
<1> QED
  BY <1>1, <1>3, <1>4, <1>5 DEF BlobInv

\* BlobInv holds throughout when versions are not restored.
LEMMA BlobInvCorrect ==
    ASSUME "restore" \notin Kinds
    PROVE  Spec => []BlobInv
<1>1. BlobInv /\ [Next]_vars => BlobInv'
  BY BlobInvNext
<1> QED
  BY <1>1, BlobInvInit, PTL DEF Spec

\* As long as nobody restores a version, every live version that the history still has
\* keeps its content, however PUT, DELETE, batch, pruning, retries with the same or a
\* new ciphertext and crashes interleave.
THEOREM RetainedBlobsPresentCorrect ==
    ASSUME "restore" \notin Kinds
    PROVE  Spec => []RetainedBlobsPresent
<1>1. BlobInv => RetainedBlobsPresent
  BY DEF BlobInv
<1>2. Spec => []BlobInv
  BY BlobInvCorrect
<1> QED
  BY <1>1, <1>2, PTL

\* Under the same condition the head of a live file never points at a missing blob:
\* its row is the newest one, which pruning keeps at every retention setting.
THEOREM HeadBlobPresentCorrect ==
    ASSUME "restore" \notin Kinds
    PROVE  Spec => []HeadBlobPresent
<1>1. BlobInv => HeadBlobPresent
  <2> SUFFICES ASSUME BlobInv, NEW f \in Files, files[f].version # 0,
                      ~files[f].payload.deleted
               PROVE  files[f].payload.blob \in blobs
    BY DEF HeadBlobPresent
  <2>1. /\ HistoryKept /\ log[f] \in Seq(Write) /\ Retention \in Nat
    BY ConstantsAssumption DEF BlobInv, RecordInv, ChainInv, TypeInv, StoreOK
  <2>2. files[f].version = Len(log[f]) /\ Len(log[f]) \in DOMAIN log[f] /\ log[f] # <<>>
    BY <2>1 DEF HistoryKept
  <2>3. Retention = 0 \/ Len(log[f]) + Retention > Len(log[f])
    BY <2>1
  <2>4. PICK v \in RowsOf(f) : v.version = Len(log[f])
    BY <2>1, <2>2, <2>3 DEF HistoryKept
  <2>5. v.payload = files[f].payload /\ v \in versions
    BY <2>1, <2>2, <2>4 DEF HistoryKept, RowsOf
  <2> QED
    BY <2>5 DEF BlobInv, RetainedBlobsPresent
<1>2. Spec => []BlobInv
  BY BlobInvCorrect
<1> QED
  BY <1>1, <1>2, PTL

\* Under the same condition a GET that finds the metadata and not the content was
\* overtaken by pruning: the version it read is no longer in the history.
THEOREM MissMeansPrunedCorrect ==
    ASSUME "restore" \notin Kinds
    PROVE  Spec => []MissMeansPruned
<1>1. BlobInv => MissMeansPruned
  BY DEF BlobInv, ContentInv, GetInv, MissMeansPruned
<1>2. Spec => []BlobInv
  BY BlobInvCorrect
<1> QED
  BY <1>1, <1>2, PTL
=============================================================================
