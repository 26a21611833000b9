-------------------------- MODULE SyncServerProofs --------------------------
(***************************************************************************)
(* Theorems about SyncServer, for every set of files, requests, handlers   *)
(* and ciphertexts, every retention and every version bound.               *)
(***************************************************************************)
EXTENDS SyncServer, FiniteSetTheorems, TLAPS

-----------------------------------------------------------------------------
(* Type correctness.  TypeOK alone is not inductive: that what reaches the *)
(* blob store is a blob key, and that a handler serves a request someone   *)
(* made, follow from where the handler is in its code.                     *)

StoreOK ==
    /\ files \in [Files -> HeadRow]
    /\ versions \subseteq VersionRow
    /\ changes \subseteq ChangeRow
    /\ nextSeq \in Nat
    /\ blobs \subseteq Blobs
    /\ idem \in [Requests -> Nat]
    /\ events \subseteq Event
    /\ log \in [Files -> Seq(Write)]

Serving(h) ==
    hd[h].pc # "idle" =>
       /\ hd[h] \in Busy
       /\ sent[hd[h].req] \in Request
       /\ hd[h].pc \in {"checkIdem", "storeBlob"} => hd[h].rec.blob \in Blobs

ControlOK ==
    /\ sent \in [Requests -> Request \cup {NoRequest}]
    /\ used \subseteq Blobs
    /\ hd \in [Handlers -> Busy \cup {Idle}]
    /\ \A r \in Requests :
          sent[r].kind \in UploadKinds => sent[r].payload.blob \in Blobs
    /\ \A h \in Handlers : Serving(h)

TypeInv == StoreOK /\ ControlOK

\* A handler that goes on to b serves the same request still, and no other
\* handler notices.
LEMMA Advance ==
    ASSUME ControlOK, NEW h \in Handlers, hd[h].pc # "idle", NEW b \in Busy,
           hd' = [hd EXCEPT ![h] = b], b.req = hd[h].req, UNCHANGED clientVars,
           b.pc \in {"checkIdem", "storeBlob"} => b.rec.blob \in Blobs
    PROVE  ControlOK'
BY DEF ControlOK, Serving, clientVars

\* Goto goes on in that sense.
LEMMA GotoAdvances ==
    ASSUME ControlOK, NEW h \in Handlers, hd[h].pc # "idle",
           NEW pc \in PCs \ {"idle"}, Goto(h, pc), UNCHANGED clientVars,
           pc \in {"checkIdem", "storeBlob"} => hd[h].rec.blob \in Blobs
    PROVE  ControlOK'
<1> DEFINE b == [hd[h] EXCEPT !.pc = pc]
<1>1. hd[h] \in Busy
  BY DEF ControlOK, Serving
<1>2. b \in Busy /\ b.req = hd[h].req /\ b.pc = pc /\ b.rec = hd[h].rec
  BY <1>1 DEF Busy
<1>3. hd' = [hd EXCEPT ![h] = b]
  BY DEF Goto, ControlOK
<1> HIDE DEF b
<1> QED
  BY <1>2, <1>3, Advance

\* Reply goes on in that sense.
LEMMA ReplyAdvances ==
    ASSUME ControlOK, NEW h \in Handlers, hd[h].pc # "idle", NEW code \in Nat,
           Reply(h, code), UNCHANGED clientVars
    PROVE  ControlOK'
<1> DEFINE b == [hd[h] EXCEPT !.pc = "done", !.code = code]
<1>1. hd[h] \in Busy
  BY DEF ControlOK, Serving
<1>2. b \in Busy /\ b.req = hd[h].req /\ b.pc = "done"
  BY <1>1 DEF Busy, PCs
<1>3. hd' = [hd EXCEPT ![h] = b]
  BY DEF Reply, ControlOK
<1> HIDE DEF b
<1> QED
  BY <1>2, <1>3, Advance

\* So does answering with a version.
LEMMA AnswerAdvances ==
    ASSUME ControlOK, NEW h \in Handlers, hd[h].pc # "idle",
           NEW code \in Nat, NEW v \in Nat, UNCHANGED clientVars,
           hd' = [hd EXCEPT ![h].pc = "done", ![h].code = code, ![h].out = v]
    PROVE  ControlOK'
<1> DEFINE b == [hd[h] EXCEPT !.pc = "done", !.code = code, !.out = v]
<1>1. hd[h] \in Busy
  BY DEF ControlOK, Serving
<1>2. b \in Busy /\ b.req = hd[h].req /\ b.pc = "done"
  BY <1>1 DEF Busy, PCs
<1>3. hd' = [hd EXCEPT ![h] = b]
  BY DEF ControlOK
<1> HIDE DEF b
<1> QED
  BY <1>2, <1>3, Advance

\* What a busy handler works on.
LEMMA ServedRequest ==
    ASSUME TypeInv, NEW h \in Handlers, hd[h].pc # "idle"
    PROVE  /\ hd[h] \in Busy
           /\ hd[h].req \in Requests /\ hd[h].rec \in Payload
           /\ hd[h].base \in Nat /\ hd[h].out \in Nat
           /\ KindOf(h) \in AllKinds /\ FileOf(h) \in Files
           /\ HeadOf(h) \in HeadRow
BY DEF TypeInv, StoreOK, ControlOK, Serving, Busy, Request, KindOf, FileOf, HeadOf

\* A commit writes rows of the right type.
LEMMA CommitTyped ==
    ASSUME TypeInv, NEW h \in Handlers, hd[h].pc # "idle", NEW v \in Nat,
           CommitVersion(h, v), UNCHANGED <<blobs, idem, events>>
    PROVE  StoreOK'
<1> DEFINE f == FileOf(h)
           p == hd[h].rec
<1>1. f \in Files /\ p \in Payload /\ hd[h].base \in Nat /\ hd[h].req \in Requests
  BY ServedRequest
<1>2. p.deleted \in BOOLEAN
  BY <1>1 DEF Payload
<1>3. /\ files' \in [Files -> HeadRow]
      /\ versions' \subseteq VersionRow
      /\ changes' \subseteq ChangeRow
      /\ nextSeq' \in Nat
  BY <1>1, <1>2 DEF CommitVersion, TypeInv, StoreOK, HeadRow, VersionRow, ChangeRow
<1>4. log' \in [Files -> Seq(Write)]
  <2> DEFINE w == [payload |-> p, base |-> hd[h].base, req |-> hd[h].req]
  <2>1. w \in Write
    BY <1>1 DEF Write
  <2>2. log[f] \in Seq(Write) /\ log \in [Files -> Seq(Write)]
    BY <1>1 DEF TypeInv, StoreOK
  <2>3. log' = [log EXCEPT ![f] = Append(log[f], w)]
    BY <2>2 DEF CommitVersion
  <2>4. Append(log[f], w) \in Seq(Write)
    BY <2>1, <2>2
  <2> HIDE DEF w, f
  <2> QED
    BY <2>2, <2>3, <2>4
<1> QED
  BY <1>3, <1>4 DEF TypeInv, StoreOK

\* The steps up to the commit (idempotency lookup, blob, metadata) keep the types:
\* only an upload, whose payload has a key, reaches the blob store.
LEMMA UploadStepsTyped ==
    ASSUME TypeInv, NEW h \in Handlers,
           CheckIdempotency(h) \/ storeBlob(h) \/ CreateFile(h) \/ UpdateFile(h)
             \/ ReadCurrent(h)
    PROVE  TypeInv'
<1>0. hd[h].pc # "idle"
  BY DEF CheckIdempotency, storeBlob, CreateFile, UpdateFile, ReadCurrent
<1>1. /\ hd[h] \in Busy /\ hd[h].req \in Requests
      /\ HeadOf(h).version \in Nat /\ hd[h].base \in Nat
  BY <1>0, ServedRequest DEF HeadRow
<1>2. CASE CheckIdempotency(h)
  <2>1. StoreOK'
    BY <1>2 DEF CheckIdempotency, TypeInv, StoreOK, serverVars
  <2>2. CASE Goto(h, "storeBlob")
    <3>1. hd[h].rec.blob \in Blobs
      BY <1>2 DEF CheckIdempotency, TypeInv, ControlOK, Serving
    <3> QED
      BY <1>0, <1>2, <2>1, <2>2, <3>1, GotoAdvances DEF CheckIdempotency, PCs, TypeInv
  <2>3. CASE hd' = [hd EXCEPT ![h].pc = "done", ![h].code = 200,
                              ![h].out = idem[hd[h].req]]
    <3>1. idem[hd[h].req] \in Nat
      BY <1>1 DEF TypeInv, StoreOK
    <3> QED
      BY <1>0, <1>2, <2>1, <2>3, <3>1, AnswerAdvances, ZenonT(30) DEF CheckIdempotency, TypeInv
  <2> QED
    BY <1>2, <2>2, <2>3 DEF CheckIdempotency
<1>3. CASE storeBlob(h)
  <2>1. hd[h].rec.blob \in Blobs
    BY <1>3 DEF storeBlob, TypeInv, ControlOK, Serving
  <2>2. StoreOK'
    BY <1>3, <2>1 DEF storeBlob, TypeInv, StoreOK
  <2>3. ControlOK'
    BY <1>0, <1>3, <2>1, GotoAdvances DEF storeBlob, PCs, CommitPC, TypeInv
  <2> QED
    BY <2>2, <2>3 DEF TypeInv
<1>4. ASSUME NEW v \in Nat, NEW pc \in PCs \ {"idle", "checkIdem", "storeBlob"},
             hd' = [hd EXCEPT ![h].pc = pc, ![h].out = v], UNCHANGED clientVars
      PROVE  ControlOK'
  <2> DEFINE b == [hd[h] EXCEPT !.pc = pc, !.out = v]
  <2>1. b \in Busy /\ b.req = hd[h].req /\ b.pc = pc
    BY <1>1, <1>4 DEF Busy
  <2>2. hd' = [hd EXCEPT ![h] = b]
    BY <1>4 DEF TypeInv, ControlOK
  <2> HIDE DEF b
  <2> QED
    BY <1>0, <1>4, <2>1, <2>2, Advance DEF TypeInv
<1>5. CASE CreateFile(h)
  <2>1. CASE HeadOf(h).version # 0
    <3>1. StoreOK'
      BY <1>5, <2>1 DEF CreateFile, TypeInv, StoreOK
    <3>2. ControlOK'
      BY <1>0, <1>5, <2>1, ReplyAdvances DEF CreateFile, TypeInv
    <3> QED
      BY <3>1, <3>2 DEF TypeInv
  <2>2. CASE HeadOf(h).version = 0
    <3>1. StoreOK'
      BY <1>0, <1>5, <2>2, CommitTyped DEF CreateFile
    <3>2. hd' = [hd EXCEPT ![h].pc = "publish", ![h].out = 1] /\ UNCHANGED clientVars
      BY <1>5, <2>2 DEF CreateFile
    <3> QED
      BY <1>4, <3>1, <3>2 DEF TypeInv, PCs
  <2> QED
    BY <2>1, <2>2
<1>6. CASE UpdateFile(h)
  <2>1. CASE HeadOf(h).version = 0 \/ HeadOf(h).version # hd[h].base
    <3>1. StoreOK'
      BY <1>6, <2>1 DEF UpdateFile, TypeInv, StoreOK
    <3>2. ControlOK'
      BY <1>0, <1>6, <2>1, GotoAdvances, ReplyAdvances DEF UpdateFile, TypeInv, PCs
    <3> QED
      BY <3>1, <3>2 DEF TypeInv
  <2>2. CASE HeadOf(h).version # 0 /\ HeadOf(h).version = hd[h].base
    <3>1. StoreOK'
      BY <1>0, <1>1, <1>6, <2>2, CommitTyped DEF UpdateFile
    <3> DEFINE pc == IF KindOf(h) = "update" THEN "prune" ELSE "publish"
    <3>2. hd' = [hd EXCEPT ![h].pc = pc, ![h].out = HeadOf(h).version + 1]
      BY <1>6, <2>2 DEF UpdateFile
    <3>3. UNCHANGED clientVars /\ pc \in PCs \ {"idle", "checkIdem", "storeBlob"}
      BY <1>6 DEF UpdateFile, PCs
    <3>4. HeadOf(h).version + 1 \in Nat
      BY <1>1
    <3> HIDE DEF pc
    <3>5. ControlOK'
      BY <1>4, <3>2, <3>3, <3>4
    <3> QED
      BY <3>1, <3>5 DEF TypeInv
  <2> QED
    BY <2>1, <2>2
<1>7. CASE ReadCurrent(h)
  <2>1. StoreOK'
    BY <1>7 DEF ReadCurrent, TypeInv, StoreOK, serverVars
  <2>2. ControlOK'
    <3> DEFINE v == HeadOf(h).version
               code == 409
    <3>1. /\ hd' = [hd EXCEPT ![h].pc = "done", ![h].code = code, ![h].out = v]
          /\ UNCHANGED clientVars /\ v \in Nat /\ code \in Nat /\ ControlOK
      BY <1>1, <1>7 DEF ReadCurrent, TypeInv
    <3> HIDE DEF v, code
    <3> QED
      BY <1>0, <3>1, AnswerAdvances
  <2> QED
    BY <2>1, <2>2 DEF TypeInv
<1> QED
  BY <1>2, <1>3, <1>5, <1>6, <1>7

\* So do the steps after the commit: pruning, blob deletion, the event and the
\* saved answer.
LEMMA TrailingStepsTyped ==
    ASSUME TypeInv, NEW h \in Handlers,
           PruneVersions(h) \/ DeleteBlob(h) \/ publish(h) \/ saveIdempotency(h)
    PROVE  TypeInv'
<1>0. hd[h].pc # "idle"
  BY DEF PruneVersions, DeleteBlob, publish, saveIdempotency
<1>1. /\ hd[h] \in Busy /\ hd[h].req \in Requests /\ hd[h].rec \in Payload
      /\ FileOf(h) \in Files /\ hd[h].out \in Nat
  BY <1>0, ServedRequest
<1>2. ASSUME NEW pc \in PCs \ {"idle", "checkIdem", "storeBlob"},
             NEW D \in SUBSET (Blobs \cup {NoBlob}), UNCHANGED clientVars,
             hd' = [hd EXCEPT ![h].pc = pc, ![h].drop = D]
      PROVE  ControlOK'
  <2> DEFINE b == [hd[h] EXCEPT !.pc = pc, !.drop = D]
  <2>1. b \in Busy /\ b.req = hd[h].req /\ b.pc = pc
    BY <1>1, <1>2 DEF Busy
  <2>2. hd' = [hd EXCEPT ![h] = b]
    BY <1>2 DEF TypeInv, ControlOK
  <2> HIDE DEF b
  <2> QED
    BY <1>0, <1>2, <2>1, <2>2, Advance DEF TypeInv
<1>3. CASE PruneVersions(h)
  <2>1. StoreOK'
    BY <1>3 DEF PruneVersions, TypeInv, StoreOK
  <2> DEFINE D == PrunedKeys(FileOf(h))
  <2>2. D \in SUBSET (Blobs \cup {NoBlob})
    BY DEF PrunedKeys, KeysOf, Surplus, RowsOf, TypeInv, StoreOK, VersionRow, Payload
  <2>3. \/ Goto(h, "publish")
        \/ hd' = [hd EXCEPT ![h].pc = "deleteBlobs", ![h].drop = D]
    BY <1>3 DEF PruneVersions
  <2>4. UNCHANGED clientVars
    BY <1>3 DEF PruneVersions
  <2> HIDE DEF D
  <2>5. ControlOK'
    BY <1>0, <1>2, <2>2, <2>3, <2>4, GotoAdvances DEF TypeInv, PCs
  <2> QED
    BY <2>1, <2>5 DEF TypeInv
<1>4. CASE DeleteBlob(h)
  <2>1. StoreOK'
    BY <1>4 DEF DeleteBlob, TypeInv, StoreOK
  <2>2. CASE Goto(h, "publish")
    BY <1>0, <1>4, <2>1, <2>2, GotoAdvances DEF DeleteBlob, TypeInv, PCs
  <2>3. ASSUME NEW k \in hd[h].drop, hd' = [hd EXCEPT ![h].drop = @ \ {k}]
        PROVE  TypeInv'
    <3> DEFINE b == [hd[h] EXCEPT !.drop = @ \ {k}]
    <3>1. b \in Busy /\ b.req = hd[h].req /\ b.pc = "deleteBlobs"
      BY <1>1, <1>4 DEF Busy, DeleteBlob
    <3>2. hd' = [hd EXCEPT ![h] = b]
      BY <2>3 DEF TypeInv, ControlOK
    <3> HIDE DEF b
    <3> QED
      BY <1>0, <1>4, <2>1, <3>1, <3>2, Advance DEF DeleteBlob, TypeInv
  <2> QED
    BY <1>4, <2>2, <2>3 DEF DeleteBlob
<1>5. CASE publish(h)
  <2>1. hd[h].rec.deleted \in BOOLEAN
    BY <1>1 DEF Payload
  <2>2. StoreOK'
    BY <1>1, <1>5, <2>1 DEF publish, TypeInv, StoreOK, Event
  <2>3. ControlOK'
    BY <1>0, <1>5, GotoAdvances, ReplyAdvances DEF publish, TypeInv, PCs
  <2> QED
    BY <2>2, <2>3 DEF TypeInv
<1>6. CASE saveIdempotency(h)
  <2>1. StoreOK'
    BY <1>1, <1>6 DEF saveIdempotency, TypeInv, StoreOK
  <2>2. ControlOK'
    BY <1>0, <1>6, ReplyAdvances DEF saveIdempotency, TypeInv
  <2> QED
    BY <2>1, <2>2 DEF TypeInv
<1> QED
  BY <1>3, <1>4, <1>5, <1>6

\* So do the reads of a handler: the row a restore starts from and the head.
LEMMA ReadingStepsTyped ==
    ASSUME TypeInv, NEW h \in Handlers,
           ReadVersion(h) \/ ReadHead(h) \/ readBlob(h) \/ Fail(h) \/ Finish(h)
    PROVE  TypeInv'
<1>0. hd[h].pc # "idle"
  BY DEF ReadVersion, ReadHead, readBlob, Fail, Finish
<1>1. /\ hd[h] \in Busy /\ hd[h].rec \in Payload /\ HeadOf(h) \in HeadRow
  BY <1>0, ServedRequest
<1>2. StoreOK' /\ UNCHANGED clientVars
  BY DEF ReadVersion, ReadHead, readBlob, Fail, Finish, TypeInv, StoreOK, serverVars
<1>3. CASE ReadVersion(h)
  <2>1. ASSUME NEW v \in RowsOf(FileOf(h)),
               hd' = [hd EXCEPT ![h].pc = "readHead", ![h].rec = v.payload]
        PROVE  ControlOK'
    <3> DEFINE b == [hd[h] EXCEPT !.pc = "readHead", !.rec = v.payload]
    <3>1. v.payload \in Payload
      BY DEF RowsOf, TypeInv, StoreOK, VersionRow
    <3>2. b \in Busy /\ b.req = hd[h].req /\ b.pc = "readHead"
      BY <1>1, <3>1 DEF Busy, PCs
    <3>3. hd' = [hd EXCEPT ![h] = b]
      BY <2>1 DEF TypeInv, ControlOK
    <3> HIDE DEF b
    <3> QED
      BY <1>0, <1>2, <3>2, <3>3, Advance DEF TypeInv
  <2>2. CASE Reply(h, 404)
    BY <1>0, <1>2, <2>2, ReplyAdvances DEF TypeInv
  <2> QED
    BY <1>2, <1>3, <2>1, <2>2 DEF ReadVersion, TypeInv
<1>4. CASE ReadHead(h)
  <2> DEFINE v == HeadOf(h).version
             p == HeadOf(h).payload
             tomb == [p EXCEPT !.deleted = TRUE]
             b3 == [hd[h] EXCEPT !.pc = "updateFile", !.base = v, !.rec = tomb]
             b4 == [hd[h] EXCEPT !.pc = "updateFile", !.base = v]
             next == IF p.deleted THEN "done" ELSE "readBlob"
             code == IF p.deleted THEN 200 ELSE 0
             b5 == [hd[h] EXCEPT !.pc = next, !.code = code, !.out = v, !.rec = p]
  <2>1. /\ v \in Nat /\ p \in Payload /\ tomb \in Payload
        /\ next \in {"done", "readBlob"} /\ code \in Nat
    BY <1>1, ZenonT(30) DEF HeadRow, Payload
  <2>2. \/ Goto(h, "createFile") \/ Goto(h, "updateFile") \/ Reply(h, 404)
        \/ hd' = [hd EXCEPT ![h] = b3]
        \/ hd' = [hd EXCEPT ![h] = b4]
        \/ hd' = [hd EXCEPT ![h] = b5]
    BY <1>4 DEF ReadHead, TypeInv, ControlOK
  <2> HIDE DEF v, p, tomb, next, code
  <2>3. b3 \in Busy /\ b3.req = hd[h].req /\ b3.pc = "updateFile"
    BY <1>1, <2>1 DEF Busy, PCs
  <2>4. b4 \in Busy /\ b4.req = hd[h].req /\ b4.pc = "updateFile"
    BY <1>1, <2>1 DEF Busy, PCs
  <2>5. b5 \in Busy /\ b5.req = hd[h].req /\ b5.pc \in {"done", "readBlob"}
    BY <1>1, <2>1 DEF Busy, PCs
  <2> HIDE DEF b3, b4, b5
  <2>6. CASE Goto(h, "createFile") \/ Goto(h, "updateFile") \/ Reply(h, 404)
    BY <1>0, <1>2, <2>6, GotoAdvances, ReplyAdvances DEF TypeInv, PCs
  <2>7. ASSUME NEW b \in {b3, b4, b5}, hd' = [hd EXCEPT ![h] = b]
        PROVE  TypeInv'
    BY <1>0, <1>2, <2>3, <2>4, <2>5, <2>7, Advance DEF TypeInv
  <2> QED
    BY <2>2, <2>6, <2>7
<1>5. CASE readBlob(h) \/ Fail(h)
  BY <1>0, <1>2, <1>5, ReplyAdvances DEF readBlob, Fail, TypeInv
<1>6. CASE Finish(h)
  <2>1. ControlOK'
    BY <1>2, <1>6 DEF Finish, TypeInv, ControlOK, Serving, clientVars, Idle
  <2> QED
    BY <1>2, <2>1 DEF TypeInv
<1> QED
  BY <1>3, <1>4, <1>5, <1>6

\* So do the making of a request, a retry with a new ciphertext, the arrival of
\* a request and the end of a handler.
LEMMA RequestsTyped ==
    ASSUME TypeInv, NEW r \in Requests,
           Send(r) \/ Retry(r) \/ \E h \in Handlers : Receive(h, r)
    PROVE  TypeInv'
<1>1. StoreOK'
  BY DEF Send, Retry, Receive, TypeInv, StoreOK, serverVars
<1>2. CASE Send(r)
  <2>1. PICK q \in [kind : Kinds, file : Files, version : 0..MaxVersion,
                    payload : Payload, flaw : Flaws] :
          /\ Plausible(q)
          /\ sent' = [sent EXCEPT ![r] = q]
          /\ used' = used \cup ({q.payload.blob} \ {NoBlob})
    BY <1>2 DEF Send
  <2>2. q \in Request /\ (q.kind \in UploadKinds => q.payload.blob \in Blobs)
    BY <2>1, ConstantsAssumption DEF Request, Plausible
  <2>3. used' \subseteq Blobs
    BY <2>1, <2>2 DEF Payload, Request, TypeInv, ControlOK
  <2>4. hd' = hd
    BY <1>2 DEF Send
  <2>5. ControlOK'
    BY <2>1, <2>2, <2>3, <2>4 DEF TypeInv, ControlOK, Serving
  <2> QED
    BY <1>1, <2>5 DEF TypeInv
<1>3. CASE Retry(r)
  <2>1. PICK b \in Blobs : /\ sent' = [sent EXCEPT ![r].payload.blob = b]
                           /\ used' = used \cup {b} /\ hd' = hd
    BY <1>3 DEF Retry
  <2> DEFINE q == [sent[r] EXCEPT !.payload.blob = b]
  <2>2. sent[r] \in Request
    BY <1>3 DEF Retry, TypeInv, ControlOK, NoRequest, UploadKinds
  <2>3. q \in Request /\ q.payload.blob = b
    BY <2>2 DEF Request, Payload
  <2>4. sent' = [sent EXCEPT ![r] = q]
    BY <2>1 DEF TypeInv, ControlOK
  <2> HIDE DEF q
  <2>5. ControlOK'
    BY <2>1, <2>3, <2>4 DEF TypeInv, ControlOK, Serving
  <2> QED
    BY <1>1, <2>5 DEF TypeInv
<1>4. ASSUME NEW h \in Handlers, Receive(h, r)
      PROVE  TypeInv'
  <2>1. sent[r] \in Request
    BY <1>4 DEF Receive, TypeInv, ControlOK
  <2>2. PICK pc, code :
          /\ hd' = [hd EXCEPT ![h] = Start(r, pc, code)]
          /\ code \in Nat
          /\ pc = "done" \/ pc = FirstPC(sent[r].kind)
    <3>1. \/ hd' = [hd EXCEPT ![h] = Start(r, "done", 400)]
          \/ hd' = [hd EXCEPT ![h] = Start(r, FirstPC(sent[r].kind), 0)]
      BY <1>4 DEF Receive
    <3>2. 400 \in Nat /\ 0 \in Nat
      OBVIOUS
    <3> QED
      BY <3>1, <3>2, Zenon
  <2>3. /\ pc \in PCs \ {"idle"}
        /\ pc \in {"checkIdem", "storeBlob"} => sent[r].payload.blob \in Blobs
    <3>1. /\ sent[r].kind \in AllKinds
          /\ sent[r].kind \in UploadKinds => sent[r].payload.blob \in Blobs
      BY <2>1 DEF Request, TypeInv, ControlOK
    <3>2. sent[r].kind \in UploadKinds
            => FirstPC(sent[r].kind) \in {"checkIdem", "storeBlob"}
      BY DEF UploadKinds, FirstPC
    <3>3. sent[r].kind \notin UploadKinds
            => FirstPC(sent[r].kind) \in {"readVersion", "readHead"}
      BY DEF UploadKinds, FirstPC
    <3> QED
      BY <2>2, <3>1, <3>2, <3>3 DEF PCs
  <2>4. sent[r].payload \in Payload /\ sent[r].version \in Nat
    BY <2>1 DEF Request
  <2> DEFINE b == Start(r, pc, code)
  <2>5. b \in Busy /\ b.req = r /\ b.pc = pc /\ b.rec = sent[r].payload
    BY <2>2, <2>3, <2>4 DEF Busy, Start
  <2>6. sent' = sent /\ used' = used
    BY <1>4 DEF Receive, clientVars
  <2> HIDE DEF b
  <2>7. ControlOK'
    BY <2>1, <2>2, <2>3, <2>5, <2>6 DEF TypeInv, ControlOK, Serving, b
  <2> QED
    BY <1>1, <2>7 DEF TypeInv
<1> QED
  BY <1>2, <1>3, <1>4

\* The empty server is well typed.
LEMMA TypeInvInit == Init => TypeInv
<1> SUFFICES ASSUME Init PROVE TypeInv
  OBVIOUS
<1>1. Empty \in Payload
  BY DEF Empty, Payload
<1>2. StoreOK
  BY <1>1 DEF Init, StoreOK, HeadRow
<1>3. ControlOK
  BY DEF Init, ControlOK, Serving, Idle, NoRequest, UploadKinds
<1> QED
  BY <1>2, <1>3 DEF TypeInv

\* Every step keeps the types.
LEMMA TypeInvNext == TypeInv /\ [Next]_vars => TypeInv'
<1> SUFFICES ASSUME TypeInv, [Next]_vars PROVE TypeInv'
  OBVIOUS
<1>1. CASE UNCHANGED vars
  BY <1>1 DEF vars, serverVars, clientVars, TypeInv, StoreOK, ControlOK, Serving
<1>2. CASE Next
  BY <1>2, RequestsTyped, UploadStepsTyped, TrailingStepsTyped, ReadingStepsTyped
     DEF Next, HandlerStep
<1> QED
  BY <1>1, <1>2

\* Every reachable state is well typed: in particular only blob keys reach the
\* blob store, and every handler between two store calls has the request, record
\* and base version the rest of its code relies on.
THEOREM TypeCorrect == Spec => []TypeOK
<1>1. Spec => []TypeInv
  BY TypeInvInit, TypeInvNext, PTL DEF Spec
<1>2. TypeInv => TypeOK
  BY DEF TypeInv, StoreOK, ControlOK, TypeOK
<1> QED
  BY <1>1, <1>2, PTL

-----------------------------------------------------------------------------
(* The history.  A write goes on top of the version it was based on.  For  *)
(* PUT, DELETE and restore that is the comparison in UpdateFile; for a     *)
(* create, which compares nothing, it takes the facts below: the base an   *)
(* upload declared is never changed by its handler and no device declares  *)
(* a version the file has not reached.                                     *)

HeadInv == \A f \in Files : files[f].version = Len(log[f])

SentBase == \A r \in Requests :
    sent[r] # NoRequest => sent[r].version <= files[sent[r].file].version

BaseInv(h) ==
    hd[h].pc # "idle" =>
       /\ hd[h].pc \in {"checkIdem", "storeBlob", "createFile"} => KindOf(h) \in UploadKinds
       /\ KindOf(h) \in UploadKinds => hd[h].base = sent[hd[h].req].version

LogBase == \A f \in Files : \A i \in DOMAIN log[f] :
    LET r == log[f][i].req
    IN sent[r].kind \in UploadKinds => log[f][i].base = sent[r].version

LogSent == \A f \in Files : \A i \in DOMAIN log[f] : sent[log[f][i].req] \in Request

ChainInv ==
    /\ TypeInv /\ HeadInv /\ SentBase /\ LogSent /\ LogBase /\ NoLostUpdate
    /\ \A h \in Handlers : BaseInv(h)

\* What the steps of a handler leave alone: the other handlers, the request it
\* serves and, GetFile's use in DELETE and restore apart, the base version.
LEMMA OthersKept ==
    ASSUME TypeInv, NEW h \in Handlers,
           \/ CheckIdempotency(h) \/ storeBlob(h) \/ CreateFile(h) \/ UpdateFile(h)
           \/ ReadCurrent(h) \/ PruneVersions(h) \/ DeleteBlob(h) \/ publish(h)
           \/ saveIdempotency(h) \/ ReadVersion(h) \/ ReadHead(h) \/ readBlob(h)
           \/ Fail(h)
    PROVE  /\ UNCHANGED clientVars
           /\ hd[h].pc # "idle"
           /\ \A g \in Handlers : g # h => hd'[g] = hd[g]
           /\ hd'[h].req = hd[h].req
           /\ hd'[h].base = hd[h].base \/ KindOf(h) \in {"delete", "restore"}
           /\ hd'[h].pc \in {"storeBlob", "createFile"} =>
                 KindOf(h) \in {"create", "batch"} \/ hd[h].pc \in {"checkIdem", "storeBlob"}
           /\ hd'[h].pc # "checkIdem"
<1>0. hd[h].pc # "idle" /\ UNCHANGED clientVars
  BY DEF CheckIdempotency, storeBlob, CreateFile, UpdateFile, ReadCurrent, PruneVersions,
     DeleteBlob, publish, saveIdempotency, ReadVersion, ReadHead, readBlob, Fail
<1>1. hd[h] \in Busy /\ hd \in [Handlers -> Busy \cup {Idle}]
  BY <1>0, ServedRequest DEF TypeInv, ControlOK
<1>2. CASE CheckIdempotency(h)
  BY <1>0, <1>1, <1>2 DEF CheckIdempotency, Goto, Busy
<1>3. CASE storeBlob(h)
  BY <1>0, <1>1, <1>3 DEF storeBlob, Goto, CommitPC, Busy
<1>4. CASE CreateFile(h)
  BY <1>0, <1>1, <1>4 DEF CreateFile, Reply, Busy
<1>5. CASE UpdateFile(h)
  BY <1>0, <1>1, <1>5 DEF UpdateFile, Goto, Reply, Busy
<1>6. CASE ReadCurrent(h)
  BY <1>0, <1>1, <1>6 DEF ReadCurrent, Busy
<1>7. CASE PruneVersions(h)
  BY <1>0, <1>1, <1>7 DEF PruneVersions, Goto, Busy
<1>8. CASE DeleteBlob(h)
  BY <1>0, <1>1, <1>8 DEF DeleteBlob, Goto, Busy
<1>9. CASE publish(h)
  BY <1>0, <1>1, <1>9 DEF publish, Goto, Reply, Busy
<1>10. CASE saveIdempotency(h)
  BY <1>0, <1>1, <1>10 DEF saveIdempotency, Reply, Busy
<1>11. CASE ReadVersion(h)
  BY <1>0, <1>1, <1>11 DEF ReadVersion, Reply, Busy
<1>12. CASE ReadHead(h)
  BY <1>0, <1>1, <1>12 DEF ReadHead, Goto, Reply, Busy
<1>13. CASE readBlob(h) \/ Fail(h)
  BY <1>0, <1>1, <1>13 DEF readBlob, Fail, Reply, Busy
<1> QED
  BY <1>2, <1>3, <1>4, <1>5, <1>6, <1>7, <1>8, <1>9, <1>10, <1>11, <1>12, <1>13

\* No step of a handler makes it forget the base version its upload declared.
LEMMA BaseKept ==
    ASSUME TypeInv, NEW h \in Handlers, \A g \in Handlers : BaseInv(g),
           \/ CheckIdempotency(h) \/ storeBlob(h) \/ CreateFile(h) \/ UpdateFile(h)
           \/ ReadCurrent(h) \/ PruneVersions(h) \/ DeleteBlob(h) \/ publish(h)
           \/ saveIdempotency(h) \/ ReadVersion(h) \/ ReadHead(h) \/ readBlob(h)
           \/ Fail(h)
    PROVE  \A g \in Handlers : BaseInv(g)'
<1>1. BaseInv(h)'
  <2>1. KindOf(h)' = KindOf(h) /\ sent' = sent
    BY OthersKept DEF KindOf, clientVars
  <2> QED
    BY <2>1, OthersKept DEF BaseInv, UploadKinds
<1>2. ASSUME NEW g \in Handlers, g # h
      PROVE  BaseInv(g)'
  <2>1. hd'[g] = hd[g] /\ sent' = sent
    BY <1>2, OthersKept DEF clientVars
  <2> QED
    BY <2>1 DEF BaseInv, KindOf
<1> QED
  BY <1>1, <1>2

\* A commit on top of its base keeps the history in order.
LEMMA CommitChains ==
    ASSUME ChainInv, NEW h \in Handlers, hd[h].pc # "idle",
           hd[h].base = HeadOf(h).version, CommitVersion(h, HeadOf(h).version + 1),
           UNCHANGED clientVars
    PROVE  HeadInv' /\ SentBase' /\ LogSent' /\ LogBase' /\ NoLostUpdate'
<1> DEFINE f == FileOf(h)
           n == files[f].version
           w == [payload |-> hd[h].rec, base |-> hd[h].base, req |-> hd[h].req]
<1>1. /\ f \in Files /\ n \in Nat /\ hd[h].req \in Requests
      /\ hd[h].rec \in Payload /\ hd[h].base \in Nat
      /\ sent[hd[h].req] \in Request
  BY ServedRequest DEF ChainInv, TypeInv, ControlOK, Serving, HeadOf, HeadRow
<1>2. w \in Write /\ w.base = n /\ w.req = hd[h].req
  BY <1>1 DEF Write, HeadOf
<1>3. files \in [Files -> HeadRow] /\ log \in [Files -> Seq(Write)]
  BY DEF ChainInv, TypeInv, StoreOK
<1>4. /\ log' = [log EXCEPT ![f] = Append(log[f], w)]
      /\ files' = [files EXCEPT ![f] = [version |-> n + 1, payload |-> hd[h].rec]]
      /\ sent' = sent
  BY <1>3 DEF CommitVersion, HeadOf, clientVars
<1>5. sent[w.req].kind \in UploadKinds => w.base = sent[w.req].version
  BY DEF ChainInv, BaseInv, KindOf
<1>6. Len(log[f]) = n /\ log[f] \in Seq(Write)
  BY <1>1, <1>3 DEF ChainInv, HeadInv
<1> HIDE DEF f, n, w
<1>7. /\ log'[f] \in Seq(Write) /\ Len(log'[f]) = n + 1
      /\ DOMAIN log'[f] = 1..(n + 1) /\ DOMAIN log[f] = 1..n
      /\ log'[f][n + 1] = w
      /\ \A i \in 1..n : log'[f][i] = log[f][i]
  BY <1>1, <1>2, <1>3, <1>4, <1>6
<1>8. \A g \in Files : g # f => log'[g] = log[g] /\ files'[g] = files[g]
  BY <1>3, <1>4
<1>9. files'[f].version = n + 1
  BY <1>1, <1>3, <1>4
<1>10. HeadInv'
  BY <1>7, <1>8, <1>9 DEF ChainInv, HeadInv
<1>11. NoLostUpdate'
  <2> SUFFICES ASSUME NEW g \in Files, NEW i \in DOMAIN log'[g]
               PROVE  log'[g][i].base = i - 1
    BY DEF NoLostUpdate
  <2>1. CASE g = f
    BY <1>1, <1>2, <1>7, <2>1 DEF ChainInv, NoLostUpdate
  <2> QED
    BY <1>8, <2>1 DEF ChainInv, NoLostUpdate
<1>12. LogSent' /\ LogBase'
  <2> SUFFICES ASSUME NEW g \in Files, NEW i \in DOMAIN log'[g]
               PROVE  /\ sent[log'[g][i].req] \in Request
                      /\ sent[log'[g][i].req].kind \in UploadKinds
                            => log'[g][i].base = sent[log'[g][i].req].version
    BY <1>4 DEF LogSent, LogBase
  <2>1. CASE g = f /\ i = n + 1
    BY <1>1, <1>2, <1>5, <1>7, <2>1
  <2>2. CASE g = f /\ i # n + 1
    <3>1. i \in DOMAIN log[f] /\ log'[g][i] = log[f][i]
      BY <1>1, <1>7, <2>2
    <3> QED
      BY <1>1, <3>1 DEF ChainInv, LogSent, LogBase
  <2>3. CASE g # f
    BY <1>8, <2>3 DEF ChainInv, LogSent, LogBase
  <2> QED
    BY <2>1, <2>2, <2>3
<1>13. SentBase'
  <2> SUFFICES ASSUME NEW r \in Requests, sent[r] # NoRequest
               PROVE  sent[r].version <= files'[sent[r].file].version
    BY <1>4 DEF SentBase
  <2>1. /\ sent[r].file \in Files /\ sent[r].version \in Nat
        /\ sent[r].version <= files[sent[r].file].version
    BY DEF ChainInv, SentBase, TypeInv, ControlOK, Request
  <2>2. CASE sent[r].file = f
    BY <1>1, <1>9, <2>1, <2>2 DEF n
  <2> QED
    BY <1>8, <2>1, <2>2
<1> QED
  BY <1>10, <1>11, <1>12, <1>13

\* A create that succeeds was based on no version.
LEMMA CreateBase ==
    ASSUME ChainInv, NEW h \in Handlers, CreateFile(h), HeadOf(h).version = 0
    PROVE  hd[h].base = 0
<1>1. /\ hd[h].base = sent[hd[h].req].version /\ hd[h].req \in Requests
      /\ sent[hd[h].req] \in Request
  BY DEF ChainInv, CreateFile, BaseInv, TypeInv, ControlOK, Serving, Busy
<1>2. sent[hd[h].req] # NoRequest /\ sent[hd[h].req].version \in Nat
  BY <1>1 DEF Request, NoRequest, AllKinds, UploadKinds
<1> QED
  BY <1>1, <1>2 DEF ChainInv, SentBase, HeadOf, FileOf

\* ChainInv is inductive: only the two commits touch the history, and both add a
\* write on top of the version it was based on.
LEMMA ChainInvNext == ChainInv /\ [Next]_vars => ChainInv'
<1> SUFFICES ASSUME ChainInv, [Next]_vars PROVE ChainInv'
  OBVIOUS
<1>0. TypeInv'
  BY TypeInvNext DEF ChainInv
<1>1. CASE UNCHANGED vars
  BY <1>0, <1>1 DEF vars, serverVars, clientVars, ChainInv, HeadInv, SentBase, LogSent,
     LogBase, NoLostUpdate, BaseInv, KindOf
<1>2. ASSUME NEW r \in Requests, Send(r) \/ Retry(r)
      PROVE  ChainInv'
  <2>1. UNCHANGED <<files, log, hd>>
    BY <1>2 DEF Send, Retry, serverVars
  <2>2. /\ \A q \in Requests : q # r => sent'[q] = sent[q]
        /\ sent[r] \in Request => /\ sent'[r].kind = sent[r].kind
                                  /\ sent'[r].file = sent[r].file
                                  /\ sent'[r].version = sent[r].version
    <3>1. CASE Send(r)
      BY <3>1 DEF Send, ChainInv, TypeInv, ControlOK, Request, NoRequest, AllKinds, UploadKinds
    <3>2. CASE Retry(r)
      BY <3>2 DEF Retry, ChainInv, TypeInv, ControlOK, Request
    <3> QED
      BY <1>2, <3>1, <3>2
  <2>3. sent'[r].version <= files[sent'[r].file].version
    <3>1. CASE Send(r)
      BY <3>1 DEF Send, Plausible, ChainInv, TypeInv, ControlOK
    <3>2. CASE Retry(r)
      <4>1. sent[r] # NoRequest /\ sent[r] \in Request
        BY <3>2 DEF Retry, NoRequest, UploadKinds, ChainInv, TypeInv, ControlOK
      <4> QED
        BY <2>2, <4>1 DEF ChainInv, SentBase
    <3> QED
      BY <1>2, <3>1, <3>2
  <2>4. SentBase'
    BY <2>1, <2>2, <2>3 DEF SentBase, ChainInv
  <2>5. HeadInv' /\ NoLostUpdate'
    BY <2>1 DEF ChainInv, HeadInv, NoLostUpdate
  <2>6. ASSUME NEW q \in Requests, sent[q] \in Request
        PROVE  sent'[q].kind = sent[q].kind /\ sent'[q].version = sent[q].version
    BY <2>2, <2>6
  <2>7. \A f \in Files : \A i \in DOMAIN log[f] : log[f][i].req \in Requests
    <3> SUFFICES ASSUME NEW f \in Files, NEW i \in DOMAIN log[f]
                 PROVE  log[f][i].req \in Requests
      OBVIOUS
    <3>1. log[f] \in Seq(Write)
      BY DEF ChainInv, TypeInv, StoreOK
    <3>2. log[f][i] \in Write
      BY <3>1
    <3> QED
      BY <3>2 DEF Write
  <2>8. LogBase'
    BY <2>1, <2>6, <2>7 DEF ChainInv, LogSent, LogBase
  <2>9. LogSent'
    <3>1. \A q \in Requests : sent[q] \in Request => sent'[q] \in Request
      <4>1. sent' \in [Requests -> Request \cup {NoRequest}]
        BY <1>0 DEF TypeInv, ControlOK
      <4> QED
        BY <2>6, <4>1 DEF Request, NoRequest, AllKinds, UploadKinds
    <3> QED
      BY <2>1, <2>7, <3>1 DEF ChainInv, LogSent
  <2>10. \A h \in Handlers : BaseInv(h)'
    <3> SUFFICES ASSUME NEW h \in Handlers, hd[h].pc # "idle" PROVE BaseInv(h)'
      BY <2>1 DEF BaseInv
    <3>1. hd[h].req \in Requests /\ sent[hd[h].req] \in Request
      BY DEF ChainInv, TypeInv, ControlOK, Serving, Busy
    <3> QED
      BY <2>1, <2>6, <3>1 DEF ChainInv, BaseInv, KindOf
  <2> QED
    BY <1>0, <2>4, <2>5, <2>8, <2>9, <2>10 DEF ChainInv
<1>3. ASSUME UNCHANGED <<files, log, clientVars>>, \A g \in Handlers : BaseInv(g)'
      PROVE  ChainInv'
  BY <1>0, <1>3 DEF ChainInv, HeadInv, SentBase, LogSent, LogBase, NoLostUpdate, clientVars
<1>4. ASSUME NEW h \in Handlers, NEW r \in Requests, Receive(h, r)
      PROVE  ChainInv'
  <2>1. UNCHANGED <<files, log, clientVars>> /\ sent' = sent
    BY <1>4 DEF Receive, serverVars, clientVars
  <2>2. PICK pc, code : hd' = [hd EXCEPT ![h] = Start(r, pc, code)]
                        /\ (pc \in {"checkIdem", "storeBlob", "createFile"}
                              => sent[r].kind \in UploadKinds)
    <3>1. \/ hd' = [hd EXCEPT ![h] = Start(r, "done", 400)]
          \/ hd' = [hd EXCEPT ![h] = Start(r, FirstPC(sent[r].kind), 0)]
      BY <1>4 DEF Receive
    <3>2. FirstPC(sent[r].kind) \in {"checkIdem", "storeBlob", "createFile"}
            => sent[r].kind \in UploadKinds
      BY DEF FirstPC, UploadKinds
    <3>3. "done" \notin {"checkIdem", "storeBlob", "createFile"}
      OBVIOUS
    <3> QED
      BY <3>1, <3>2, <3>3, SMTT(30)
  <2>3. \A g \in Handlers : BaseInv(g)'
    BY <2>1, <2>2 DEF ChainInv, TypeInv, ControlOK, BaseInv, KindOf, Start
  <2> QED
    BY <1>3, <2>1, <2>3
<1>5. ASSUME NEW h \in Handlers, Finish(h)
      PROVE  ChainInv'
  <2>1. UNCHANGED <<files, log, clientVars>> /\ sent' = sent
    BY <1>5 DEF Finish, serverVars, clientVars
  <2>2. \A g \in Handlers : BaseInv(g)'
    BY <1>5, <2>1 DEF Finish, Idle, ChainInv, TypeInv, ControlOK, BaseInv, KindOf
  <2> QED
    BY <1>3, <2>1, <2>2
<1>6. ASSUME NEW h \in Handlers,
             \/ CheckIdempotency(h) \/ storeBlob(h) \/ ReadCurrent(h)
             \/ PruneVersions(h) \/ DeleteBlob(h) \/ publish(h) \/ saveIdempotency(h)
             \/ ReadVersion(h) \/ ReadHead(h) \/ readBlob(h) \/ Fail(h)
      PROVE  ChainInv'
  <2>1. UNCHANGED <<files, log, clientVars>>
    BY <1>6 DEF CheckIdempotency, storeBlob, ReadCurrent, PruneVersions, DeleteBlob,
       publish, saveIdempotency, ReadVersion, ReadHead, readBlob, Fail, serverVars
  <2>2. \A g \in Handlers : BaseInv(g)'
    BY <1>6, BaseKept DEF ChainInv
  <2> QED
    BY <1>3, <2>1, <2>2
<1>7. ASSUME NEW h \in Handlers, CreateFile(h) \/ UpdateFile(h)
      PROVE  ChainInv'
  <2>1. \A g \in Handlers : BaseInv(g)'
    BY <1>7, BaseKept DEF ChainInv
  <2>2. UNCHANGED clientVars /\ hd[h].pc # "idle"
    BY <1>7 DEF CreateFile, UpdateFile
  <2>3. CASE UNCHANGED <<files, log>>
    BY <1>3, <2>1, <2>2, <2>3
  <2>4. CASE /\ hd[h].base = HeadOf(h).version
             /\ CommitVersion(h, HeadOf(h).version + 1)
    BY <1>0, <2>1, <2>2, <2>4, CommitChains DEF ChainInv
  <2>5. CASE CreateFile(h) /\ HeadOf(h).version = 0
    BY <2>4, <2>5, CreateBase DEF CreateFile
  <2> QED
    BY <1>7, <2>3, <2>4, <2>5 DEF CreateFile, UpdateFile
<1> QED
  BY <1>1, <1>2, <1>4, <1>5, <1>6, <1>7 DEF Next, HandlerStep

\* There is no history in the beginning.
LEMMA ChainInvInit == Init => ChainInv
<1> SUFFICES ASSUME Init PROVE ChainInv
  OBVIOUS
<1>1. TypeInv
  BY TypeInvInit
<1>2. \A f \in Files : log[f] = <<>> /\ files[f].version = 0
  BY DEF Init
<1>3. DOMAIN <<>> = {} /\ Len(<<>>) = 0
  OBVIOUS
<1>4. HeadInv /\ LogSent /\ LogBase /\ NoLostUpdate
  BY <1>2, <1>3 DEF HeadInv, LogSent, LogBase, NoLostUpdate
<1>5. SentBase
  BY DEF Init, SentBase
<1>6. \A h \in Handlers : BaseInv(h)
  BY DEF Init, BaseInv, Idle
<1> QED
  BY <1>1, <1>4, <1>5, <1>6 DEF ChainInv

\* ChainInv holds throughout.
LEMMA ChainInvCorrect == Spec => []ChainInv
BY ChainInvInit, ChainInvNext, PTL DEF Spec

\* However the store calls of any number of PUT, DELETE, restore and batch handlers
\* interleave, fail, are retried or are cut off by a crash, no write replaces a
\* version other than the one it was based on.
THEOREM NoLostUpdateCorrect == Spec => []NoLostUpdate
<1>1. ChainInv => NoLostUpdate
  BY DEF ChainInv
<1> QED
  BY <1>1, ChainInvCorrect, PTL

\* A retried upload is applied at most once, with or without an idempotency key and
\* even if its first answer was never saved: both writes would be based on the one
\* version the request declares, and no two writes are.
THEOREM UploadsAtMostOnceCorrect == Spec => []UploadsAtMostOnce
<1>1. ChainInv => UploadsAtMostOnce
  <2> SUFFICES ASSUME ChainInv, NEW f \in Files,
                      NEW i \in DOMAIN log[f], NEW j \in DOMAIN log[f],
                      log[f][i].req = log[f][j].req,
                      sent[log[f][i].req].kind \in UploadKinds
               PROVE  i = j
    BY DEF UploadsAtMostOnce
  <2>1. log[f][i].base = log[f][j].base
    BY DEF ChainInv, LogBase
  <2>2. log[f][i].base = i - 1 /\ log[f][j].base = j - 1
    BY DEF ChainInv, NoLostUpdate
  <2>3. i \in Nat /\ j \in Nat
    <3>1. log[f] \in Seq(Write)
      BY DEF ChainInv, TypeInv, StoreOK
    <3>2. DOMAIN log[f] = 1..Len(log[f]) /\ Len(log[f]) \in Nat
      BY <3>1
    <3> QED
      BY <3>2
  <2>4. i - 1 = j - 1
    BY <2>1, <2>2
  <2>5. \A m, n \in Nat : m - 1 = n - 1 => m = n
    OBVIOUS
  <2> QED
    BY <2>3, <2>4, <2>5
<1> QED
  BY <1>1, ChainInvCorrect, PTL

-----------------------------------------------------------------------------
(* Refinement.                                                             *)

\* A commit is the abstract store accepting a write.
LEMMA CommitAccepts ==
    ASSUME TypeInv, NEW h \in Handlers, hd[h].pc # "idle",
           CommitVersion(h, HeadOf(h).version + 1)
    PROVE  Store!Next
<1> DEFINE f == FileOf(h)
           p == hd[h].rec
           n == files[f].version
<1>1. f \in Files /\ p \in Payload /\ files \in [Files -> HeadRow]
  BY ServedRequest DEF TypeInv, StoreOK, ControlOK, Serving, Busy
<1>2. files' = [files EXCEPT ![f] = [version |-> n + 1, payload |-> p]]
  BY DEF CommitVersion, HeadOf
<1>3. files' = [files EXCEPT ![f] = [version |-> @.version + 1, payload |-> p]]
  BY <1>1, <1>2
<1>4. Feed' = Feed \cup {[file |-> f, version |-> n + 1, deleted |-> p.deleted]}
  <2> DEFINE c == [seq |-> nextSeq, file |-> f, version |-> n + 1, deleted |-> p.deleted]
  <2>1. changes' = changes \cup {c}
    BY DEF CommitVersion, HeadOf
  <2>2. /\ c.file = f /\ c.version = n + 1 /\ c.deleted = p.deleted
    OBVIOUS
  <2> HIDE DEF c, f, p, n
  <2> QED
    BY <2>1, <2>2 DEF Feed
<1>5. Store!Accept(f, p)
  BY <1>3, <1>4 DEF Store!Accept
<1> QED
  BY <1>1, <1>5 DEF Store!Next

\* Every step of the server maps to a step of the abstract store or a stutter.
LEMMA StoreStep ==
    TypeInv /\ [Next]_vars => [Store!Next]_<<files, Feed>>
<1> SUFFICES ASSUME TypeInv, [Next]_vars
             PROVE  Store!Next \/ UNCHANGED <<files, Feed>>
  OBVIOUS
<1>1. CASE UNCHANGED <<files, changes>>
  BY <1>1 DEF Feed
<1>2. ASSUME NEW h \in Handlers, CreateFile(h) \/ UpdateFile(h)
      PROVE  Store!Next \/ UNCHANGED <<files, changes>>
  <2>1. CASE hd[h].pc # "idle" /\ CommitVersion(h, HeadOf(h).version + 1)
    BY <2>1, CommitAccepts
  <2>2. CASE hd[h].pc # "idle" /\ HeadOf(h).version = 0 /\ CommitVersion(h, 1)
    BY <2>1, <2>2
  <2> QED
    BY <1>2, <2>1, <2>2 DEF CreateFile, UpdateFile
<1>3. ASSUME NEW h \in Handlers, HandlerStep(h), ~CreateFile(h), ~UpdateFile(h)
      PROVE  UNCHANGED <<files, changes>>
  BY <1>3 DEF HandlerStep, Receive, CheckIdempotency, storeBlob, ReadCurrent,
     PruneVersions, DeleteBlob, publish, saveIdempotency, ReadVersion, ReadHead,
     readBlob, Fail, Finish, serverVars
<1>4. ASSUME NEW r \in Requests, Send(r) \/ Retry(r)
      PROVE  UNCHANGED <<files, changes>>
  BY <1>4 DEF Send, Retry, serverVars
<1>5. CASE UNCHANGED vars
  BY <1>1, <1>5 DEF vars, serverVars
<1> QED
  BY <1>1, <1>2, <1>3, <1>4, <1>5 DEF Next

\* The server with its handlers, retries, conflicts, pruning and crashes implements
\* one atomic versioned register per file with a feed that announces every write.
THEOREM StoreImplemented == Spec => ImplementsStore
<1>1. Init => Store!Init
  BY DEF Init, Store!Init, Feed
<1>2. Spec => []TypeInv
  BY TypeInvInit, TypeInvNext, PTL DEF Spec
<1> QED
  BY <1>1, <1>2, StoreStep, PTL DEF Spec, ImplementsStore, Store!Spec

-----------------------------------------------------------------------------
(* What the server remembers of a committed write: the delta feed, the     *)
(* version rows that pruning leaves, the stored answers and the answers    *)
(* themselves.  Everything is measured against the history variable log,   *)
(* which only a commit extends.                                            *)

(* The two kinds of step.                                                  *)

\* A handler's CreateFile or UpdateFile transaction goes through.
Committing(h) ==
    /\ hd[h].pc \in {"createFile", "updateFile"}
    /\ hd[h].base = HeadOf(h).version
    /\ CommitVersion(h, HeadOf(h).version + 1)
    /\ UNCHANGED <<blobs, idem, events, clientVars>>
    /\ \E pc \in {"prune", "publish"} :
          hd' = [hd EXCEPT ![h].pc = pc, ![h].out = HeadOf(h).version + 1]

\* CreateFile and UpdateFile commit or write nothing.
LEMMA CommitOrNot ==
    ASSUME ChainInv, NEW h \in Handlers, CreateFile(h) \/ UpdateFile(h)
    PROVE  Committing(h) \/ UNCHANGED <<files, versions, changes, nextSeq, log>>
<1>1. CASE CreateFile(h)
  <2>1. CASE HeadOf(h).version = 0
    <3>1. hd[h].base = 0
      BY <1>1, <2>1, CreateBase
    <3>2. CommitVersion(h, HeadOf(h).version + 1)
      BY <1>1, <2>1 DEF CreateFile
    <3>3. HeadOf(h).version + 1 = 1
      BY <2>1
    <3>4. /\ UNCHANGED <<blobs, idem, events, clientVars>> /\ hd[h].pc = "createFile"
          /\ hd' = [hd EXCEPT ![h].pc = "publish", ![h].out = HeadOf(h).version + 1]
      BY <1>1, <2>1, <3>3 DEF CreateFile
    <3> QED
      BY <2>1, <3>1, <3>2, <3>4 DEF Committing
  <2> QED
    BY <1>1, <2>1 DEF CreateFile
<1>2. CASE UpdateFile(h)
  <2>1. CASE HeadOf(h).version # 0 /\ HeadOf(h).version = hd[h].base
    BY <1>2, <2>1 DEF UpdateFile, Committing
  <2> QED
    BY <1>2, <2>1 DEF UpdateFile
<1> QED
  BY <1>1, <1>2

\* Every other step leaves the tables alone, but for the rows pruning removes.
LEMMA StepKinds ==
    ASSUME ChainInv, [Next]_vars
    PROVE  \/ \E h \in Handlers : Committing(h)
           \/ /\ UNCHANGED <<files, changes, nextSeq, log>>
              /\ UNCHANGED versions \/ \E h \in Handlers : PruneVersions(h)
<1>1. CASE UNCHANGED vars
  BY <1>1 DEF vars, serverVars
<1>2. ASSUME NEW r \in Requests, Send(r) \/ Retry(r)
      PROVE  UNCHANGED <<files, versions, changes, nextSeq, log>>
  BY <1>2 DEF Send, Retry, serverVars
<1>3. ASSUME NEW h \in Handlers, HandlerStep(h), ~CreateFile(h), ~UpdateFile(h)
      PROVE  /\ UNCHANGED <<files, changes, nextSeq, log>>
             /\ UNCHANGED versions \/ PruneVersions(h)
  BY <1>3 DEF HandlerStep, Receive, CheckIdempotency, storeBlob, ReadCurrent,
     PruneVersions, DeleteBlob, publish, saveIdempotency, ReadVersion, ReadHead,
     readBlob, Fail, Finish, serverVars
<1> QED
  BY <1>1, <1>2, <1>3, CommitOrNot DEF Next

\* Answers are stored by saveIdempotency only, events added by publish only.
LEMMA RareWrites ==
    ASSUME [Next]_vars
    PROVE  /\ (\E h \in Handlers : saveIdempotency(h)) \/ UNCHANGED idem
           /\ (\E h \in Handlers : publish(h)) \/ UNCHANGED events
<1>1. ASSUME NEW h \in Handlers, HandlerStep(h)
      PROVE  /\ saveIdempotency(h) \/ UNCHANGED idem
             /\ publish(h) \/ UNCHANGED events
  BY <1>1 DEF HandlerStep, Receive, CheckIdempotency, storeBlob, CreateFile, UpdateFile,
     ReadCurrent, PruneVersions, DeleteBlob, publish, saveIdempotency, ReadVersion,
     ReadHead, readBlob, Fail, Finish, serverVars
<1>2. ASSUME NEW r \in Requests, Send(r) \/ Retry(r)
      PROVE  UNCHANGED <<idem, events>>
  BY <1>2 DEF Send, Retry, serverVars
<1>3. CASE UNCHANGED vars
  BY <1>3 DEF vars, serverVars
<1> QED
  BY <1>1, <1>2, <1>3 DEF Next

\* What a commit of version n + 1 of file f does.
CommittedAs(h, f, n) ==
    /\ f = FileOf(h) /\ n = HeadOf(h).version /\ n = files[f].version
    /\ Len(log[f]) = n /\ Len(log'[f]) = n + 1
    /\ DOMAIN log[f] = 1..n /\ DOMAIN log'[f] = 1..(n + 1)
    /\ \A i \in 1..n : log'[f][i] = log[f][i]
    /\ log'[f][n + 1] = [payload |-> hd[h].rec, base |-> hd[h].base, req |-> hd[h].req]
    /\ \A g \in Files : g # f => log'[g] = log[g] /\ files'[g] = files[g]
    /\ files'[f] = [version |-> n + 1, payload |-> hd[h].rec]
    /\ versions' = versions \cup
          {[file |-> f, version |-> n + 1, payload |-> hd[h].rec]}
    /\ changes' = changes \cup {[seq |-> nextSeq, file |-> f, version |-> n + 1,
                                 deleted |-> hd[h].rec.deleted]}
    /\ nextSeq' = nextSeq + 1
    /\ \A g \in Handlers : g # h => hd'[g] = hd[g]
    /\ hd'[h].pc \in {"prune", "publish"} /\ hd'[h].out = n + 1
    /\ hd'[h].req = hd[h].req /\ hd'[h].rec = hd[h].rec
    /\ sent' = sent

\* A transaction that goes through has that effect.
LEMMA CommitEffect ==
    ASSUME ChainInv, NEW h \in Handlers, Committing(h)
    PROVE  \E f \in Files, n \in Nat : CommittedAs(h, f, n)
<1> DEFINE f == FileOf(h)
           n == HeadOf(h).version
           w == [payload |-> hd[h].rec, base |-> hd[h].base, req |-> hd[h].req]
<1>0. hd[h].pc # "idle"
  BY DEF Committing
<1>1. /\ f \in Files /\ n \in Nat /\ hd[h] \in Busy /\ hd[h].req \in Requests
      /\ hd[h].rec \in Payload /\ hd[h].base \in Nat
  BY <1>0, ServedRequest DEF ChainInv, HeadRow
<1>2. w \in Write
  BY <1>1 DEF Write
<1>3. /\ files \in [Files -> HeadRow] /\ log \in [Files -> Seq(Write)]
      /\ hd \in [Handlers -> Busy \cup {Idle}]
  BY DEF ChainInv, TypeInv, StoreOK, ControlOK
<1>4. log' = [log EXCEPT ![f] = Append(log[f], w)]
  BY <1>3 DEF Committing, CommitVersion
<1>5. Len(log[f]) = n /\ log[f] \in Seq(Write) /\ n = files[f].version
  BY <1>1, <1>3 DEF ChainInv, HeadInv, HeadOf
<1>6. /\ files' = [files EXCEPT ![f] = [version |-> n + 1, payload |-> hd[h].rec]]
      /\ versions' = versions \cup
            {[file |-> f, version |-> n + 1, payload |-> hd[h].rec]}
      /\ changes' = changes \cup {[seq |-> nextSeq, file |-> f, version |-> n + 1,
                                   deleted |-> hd[h].rec.deleted]}
      /\ nextSeq' = nextSeq + 1 /\ sent' = sent
  BY DEF Committing, CommitVersion, clientVars
<1>7. /\ \A g \in Handlers : g # h => hd'[g] = hd[g]
      /\ hd'[h].pc \in {"prune", "publish"} /\ hd'[h].out = n + 1
      /\ hd'[h].req = hd[h].req /\ hd'[h].rec = hd[h].rec
  <2>1. PICK pc \in {"prune", "publish"} :
            hd' = [hd EXCEPT ![h].pc = pc, ![h].out = n + 1]
    BY DEF Committing
  <2> QED
    BY <1>1, <1>3, <2>1 DEF Busy
<1> HIDE DEF w, f, n
<1>8. /\ DOMAIN log[f] = 1..n /\ DOMAIN log'[f] = 1..(n + 1)
      /\ Len(log'[f]) = n + 1 /\ log'[f][n + 1] = w
      /\ \A i \in 1..n : log'[f][i] = log[f][i]
  BY <1>1, <1>2, <1>3, <1>4, <1>5
<1>9. /\ \A g \in Files : g # f => log'[g] = log[g] /\ files'[g] = files[g]
      /\ files'[f] = [version |-> n + 1, payload |-> hd[h].rec]
  BY <1>1, <1>3, <1>4, <1>6
<1>10. CommittedAs(h, f, n)
  BY <1>5, <1>6, <1>7, <1>8, <1>9 DEF w, f, n, CommittedAs
<1> QED
  BY <1>1, <1>10

\* Nothing committed is taken back: the history and the head only grow.
LEMMA LogGrows ==
    ASSUME ChainInv, [Next]_vars, NEW f \in Files
    PROVE  /\ \A i \in DOMAIN log[f] : i \in DOMAIN log'[f] /\ log'[f][i] = log[f][i]
           /\ files[f].version <= files'[f].version
<1>1. files[f].version \in Nat
  BY DEF ChainInv, TypeInv, StoreOK, HeadRow
<1>2. ASSUME NEW h \in Handlers, Committing(h), f = FileOf(h)
      PROVE  /\ \A i \in DOMAIN log[f] : i \in DOMAIN log'[f] /\ log'[f][i] = log[f][i]
             /\ files[f].version <= files'[f].version
  <2>1. PICK g \in Files, n \in Nat : CommittedAs(h, g, n)
    BY <1>2, CommitEffect
  <2>2. g = f
    BY <1>2, <2>1 DEF CommittedAs
  <2>3. \A i \in 1..n : i \in 1..(n + 1)
    OBVIOUS
  <2>4. \A i \in DOMAIN log[f] : i \in DOMAIN log'[f] /\ log'[f][i] = log[f][i]
    BY <2>1, <2>2, <2>3 DEF CommittedAs
  <2>5. files[f].version = n /\ files'[f].version = n + 1
    BY <2>1, <2>2 DEF CommittedAs
  <2> QED
    BY <2>4, <2>5
<1>3. ASSUME NEW h \in Handlers, Committing(h), f # FileOf(h)
      PROVE  log'[f] = log[f] /\ files'[f] = files[f]
  <2>1. PICK g \in Files, n \in Nat : CommittedAs(h, g, n)
    BY <1>3, CommitEffect
  <2> QED
    BY <1>3, <2>1 DEF CommittedAs
<1> QED
  BY <1>1, <1>2, <1>3, StepKinds

\* A request that was made keeps all but its ciphertext.
LEMMA SentKept ==
    ASSUME TypeInv, [Next]_vars, NEW r \in Requests, sent[r] \in Request
    PROVE  /\ sent'[r] \in Request /\ sent'[r].kind = sent[r].kind
           /\ sent'[r].file = sent[r].file /\ sent'[r].version = sent[r].version
           /\ sent'[r].flaw = sent[r].flaw
<1>1. ASSUME NEW q \in Requests, Send(q)
      PROVE  sent'[r] = sent[r]
  BY <1>1 DEF Send, TypeInv, ControlOK, Request, NoRequest, AllKinds, UploadKinds
<1>2. ASSUME NEW q \in Requests, Retry(q)
      PROVE  /\ sent'[r] \in Request /\ sent'[r].kind = sent[r].kind
             /\ sent'[r].file = sent[r].file /\ sent'[r].version = sent[r].version
             /\ sent'[r].flaw = sent[r].flaw
  BY <1>2 DEF Retry, TypeInv, ControlOK, Request, Payload
<1>3. CASE UNCHANGED sent
  BY <1>3
<1>4. ASSUME NEW h \in Handlers, HandlerStep(h)
      PROVE  UNCHANGED sent
  BY <1>4 DEF HandlerStep, Receive, CheckIdempotency, storeBlob, CreateFile, UpdateFile,
     ReadCurrent, PruneVersions, DeleteBlob, publish, saveIdempotency, ReadVersion,
     ReadHead, readBlob, Fail, Finish, clientVars
<1> QED
  BY <1>1, <1>2, <1>3, <1>4 DEF Next, vars, clientVars

\* A handler's state is changed by the handler itself.
LEMMA OneActor ==
    ASSUME TypeInv, [Next]_vars, NEW g \in Handlers, hd'[g] # hd[g]
    PROVE  HandlerStep(g)
<1>1. ASSUME NEW h \in Handlers, HandlerStep(h), h # g
      PROVE  hd'[g] = hd[g]
  <2>1. ASSUME NEW r \in Requests, Receive(h, r)
        PROVE  hd'[g] = hd[g]
    BY <1>1, <2>1 DEF Receive, TypeInv, ControlOK
  <2>2. CASE Finish(h)
    BY <1>1, <2>2 DEF Finish, TypeInv, ControlOK
  <2> QED
    BY <1>1, <2>1, <2>2, OthersKept DEF HandlerStep
<1>2. ASSUME NEW r \in Requests, Send(r) \/ Retry(r)
      PROVE  hd' = hd
  BY <1>2 DEF Send, Retry
<1> QED
  BY <1>1, <1>2 DEF Next, vars

\* A handler goes on with the request it was started for, and none of its steps
\* changes what the clients hold.
LEMMA ServesOn ==
    ASSUME TypeInv, NEW h \in Handlers, HandlerStep(h)
    PROVE  /\ UNCHANGED clientVars
           /\ hd[h].pc # "idle" /\ hd'[h].pc # "idle" => hd'[h].req = hd[h].req
<1>1. ASSUME NEW r \in Requests, Receive(h, r)
      PROVE  UNCHANGED clientVars /\ hd[h].pc = "idle"
  BY <1>1 DEF Receive
<1>2. CASE Finish(h)
  BY <1>2 DEF Finish, TypeInv, ControlOK, Idle
<1> QED
  BY <1>1, <1>2, OthersKept DEF HandlerStep

-----------------------------------------------------------------------------
(* The invariant.                                                          *)

\* The version a handler is to answer with is a write of its own request.
Wrote(h) == /\ hd[h].out \in DOMAIN log[FileOf(h)]
            /\ log[FileOf(h)][hd[h].out].req = hd[h].req

\* Between the commit and the answer a handler holds what it committed; a conflict
\* it is about to report has a version beyond its base.
AnswerInv(h) ==
    hd[h].pc # "idle" =>
       /\ hd[h].pc \in {"prune", "deleteBlobs", "publish", "saveIdem"} =>
             Wrote(h) /\ log[FileOf(h)][hd[h].out].payload = hd[h].rec
       /\ hd[h].pc = "readCurrent" => hd[h].base < HeadOf(h).version
       /\ hd[h].pc = "readBlob" => KindOf(h) = "get"
       /\ hd[h].pc = "done" /\ KindOf(h) \in UploadKinds =>
             /\ hd[h].code \in {200, 201} => Wrote(h)
             /\ hd[h].code = 409 /\ KindOf(h) # "create" => hd[h].out > hd[h].base

\* A stored answer names a version its own request wrote.
SavedInv == \A r \in Requests : idem[r] # 0 =>
    /\ sent[r] \in Request
    /\ idem[r] \in DOMAIN log[sent[r].file]
    /\ log[sent[r].file][idem[r]].req = r

\* The feed row of every write, and what FeedComplete says of rows and events.
FeedInv ==
    /\ \A c \in changes : c.seq < nextSeq /\ c.version \in DOMAIN log[c.file]
    /\ \A f \in Files : \A i \in DOMAIN log[f] : \E c \in changes :
          c.file = f /\ c.version = i /\ c.deleted = log[f][i].payload.deleted
    /\ \A c, d \in changes :
          /\ c.seq = d.seq => c = d
          /\ c.file = d.file /\ c.seq < d.seq => c.version < d.version
    /\ \A e \in events : \E c \in changes :
          c.file = e.file /\ c.version = e.version /\ c.deleted = e.deleted

RecordInv ==
    /\ ChainInv /\ SavedInv /\ FeedInv /\ HistoryKept
    /\ \A h \in Handlers : AnswerInv(h)

-----------------------------------------------------------------------------
(* Answers.                                                                *)

\* What a handler holds is not touched by the steps of the others.
LEMMA AnswerStays ==
    ASSUME ChainInv, [Next]_vars, NEW g \in Handlers, AnswerInv(g), hd'[g] = hd[g]
    PROVE  AnswerInv(g)'
<1> SUFFICES ASSUME hd[g].pc # "idle" PROVE AnswerInv(g)'
  BY DEF AnswerInv
<1>1. /\ hd[g].req \in Requests /\ sent[hd[g].req] \in Request /\ FileOf(g) \in Files
      /\ hd[g].base \in Nat /\ HeadOf(g).version \in Nat
  BY ServedRequest DEF ChainInv, TypeInv, ControlOK, Serving, HeadRow
<1>2. KindOf(g)' = KindOf(g) /\ FileOf(g)' = FileOf(g)
  BY <1>1, SentKept DEF ChainInv, KindOf, FileOf
<1>3. Wrote(g) => Wrote(g)' /\ log'[FileOf(g)][hd[g].out] = log[FileOf(g)][hd[g].out]
  BY <1>1, <1>2, LogGrows DEF Wrote
<1>4. HeadOf(g).version <= HeadOf(g)'.version
  BY <1>1, <1>2, LogGrows DEF HeadOf
<1>5. HeadOf(g)'.version \in Nat
  <2>1. TypeInv'
    BY TypeInvNext DEF ChainInv
  <2> QED
    BY <1>1, <1>2, <2>1 DEF TypeInv, StoreOK, HeadRow, HeadOf
<1>6. hd[g].base < HeadOf(g).version => hd[g].base < HeadOf(g)'.version
  BY <1>1, <1>4, <1>5
<1> QED
  BY <1>2, <1>3, <1>6 DEF AnswerInv

\* A step of the handler itself: what it answers is what it committed, what the
\* first delivery of its request committed, or a version beyond its base.
LEMMA AnswerOwn ==
    ASSUME ChainInv, SavedInv, NEW h \in Handlers, AnswerInv(h), HandlerStep(h)
    PROVE  AnswerInv(h)'
<1>0. hd \in [Handlers -> Busy \cup {Idle}] /\ UNCHANGED sent
  BY DEF ChainInv, TypeInv, ControlOK, HandlerStep, Receive, CheckIdempotency, storeBlob,
     CreateFile, UpdateFile, ReadCurrent, PruneVersions, DeleteBlob, publish,
     saveIdempotency, ReadVersion, ReadHead, readBlob, Fail, Finish, clientVars
<1>1. ASSUME NEW r \in Requests, Receive(h, r)
      PROVE  AnswerInv(h)'
  <2>1. \/ hd'[h] = Start(r, "done", 400)
        \/ hd'[h] = Start(r, FirstPC(sent[r].kind), 0)
    BY <1>0, <1>1 DEF Receive
  <2>2. FirstPC(sent[r].kind) \in {"checkIdem", "storeBlob", "readVersion", "readHead"}
    BY DEF FirstPC
  <2> QED
    BY <2>1, <2>2 DEF Start, AnswerInv
<1>2. CASE Finish(h)
  BY <1>0, <1>2 DEF Finish, Idle, AnswerInv
<1>3. ASSUME hd[h].pc # "idle" PROVE hd[h] \in Busy
  BY <1>0, <1>3 DEF Idle
<1>4. CASE CheckIdempotency(h)
  <2>1. hd[h] \in Busy /\ hd[h].req \in Requests
    BY <1>3, <1>4 DEF CheckIdempotency, Busy
  <2>2. CASE Goto(h, "storeBlob")
    BY <1>0, <2>1, <2>2 DEF Goto, Busy, AnswerInv
  <2>3. CASE /\ idem[hd[h].req] # 0
             /\ hd' = [hd EXCEPT ![h].pc = "done", ![h].code = 200,
                                 ![h].out = idem[hd[h].req]]
    <3>1. /\ hd'[h].pc = "done" /\ hd'[h].code = 200 /\ hd'[h].req = hd[h].req
          /\ hd'[h].out = idem[hd[h].req]
      BY <1>0, <2>1, <2>3 DEF Busy
    <3>2. UNCHANGED log
      BY <1>4 DEF CheckIdempotency
    <3>3. Wrote(h)'
      BY <1>0, <2>1, <2>3, <3>1, <3>2 DEF Wrote, SavedInv, FileOf
    <3> QED
      BY <3>1, <3>3 DEF AnswerInv
  <2> QED
    BY <1>4, <2>2, <2>3 DEF CheckIdempotency
<1>5. CASE storeBlob(h)
  <2>1. /\ hd'[h].pc \in {"readHead", "createFile", "updateFile"}
    BY <1>0, <1>3, <1>5 DEF storeBlob, Goto, CommitPC, Busy
  <2> QED
    BY <2>1 DEF AnswerInv
<1>6. CASE Committing(h)
  <2>1. PICK f \in Files, n \in Nat : CommittedAs(h, f, n)
    BY <1>6, CommitEffect
  <2>2. FileOf(h)' = f
    BY <2>1 DEF CommittedAs, FileOf
  <2>3. n + 1 \in 1..(n + 1)
    OBVIOUS
  <2>4. Wrote(h)' /\ log'[f][hd'[h].out].payload = hd'[h].rec
    BY <2>1, <2>2, <2>3 DEF CommittedAs, Wrote
  <2>5. hd'[h].pc \in {"prune", "publish"}
    BY <2>1 DEF CommittedAs
  <2> QED
    BY <2>2, <2>4, <2>5 DEF AnswerInv
<1>7. CASE CreateFile(h) /\ ~Committing(h)
  <2>1. hd'[h].pc = "done" /\ hd'[h].code = (IF KindOf(h) = "create" THEN 409 ELSE 500)
    <3>1. HeadOf(h).version # 0
      <4> SUFFICES ASSUME HeadOf(h).version = 0 PROVE Committing(h)
        BY <1>7
      <4>1. hd[h].base = 0
        BY <1>7, CreateBase
      <4>2. /\ CommitVersion(h, HeadOf(h).version + 1)
            /\ hd' = [hd EXCEPT ![h].pc = "publish", ![h].out = HeadOf(h).version + 1]
        BY <1>7 DEF CreateFile
      <4> QED
        BY <1>7, <4>1, <4>2 DEF CreateFile, Committing
    <3> QED
      BY <1>0, <1>3, <1>7, <3>1 DEF CreateFile, Reply, Busy
  <2>2. KindOf(h)' = KindOf(h)
    BY <1>0, <1>3, <1>7, OthersKept DEF KindOf, ChainInv
  <2> QED
    BY <2>1, <2>2 DEF AnswerInv
<1>8. CASE UpdateFile(h) /\ ~Committing(h)
  <2>0. hd[h].pc # "idle" /\ KindOf(h)' = KindOf(h) /\ hd[h] \in Busy
    BY <1>0, <1>3, <1>8, OthersKept DEF KindOf, ChainInv, UpdateFile
  <2>1. CASE HeadOf(h).version = 0
    <3>1. hd'[h].pc = "done" /\ hd'[h].code = 404
      BY <1>0, <1>8, <2>0, <2>1 DEF UpdateFile, Reply, Busy
    <3> QED
      BY <3>1 DEF AnswerInv
  <2>2. CASE HeadOf(h).version # 0 /\ HeadOf(h).version # hd[h].base
    <3>1. CASE KindOf(h) \in {"update", "batch"}
      <4>1. hd'[h].pc = "readCurrent" /\ hd'[h].req = hd[h].req /\ hd'[h].base = hd[h].base
        BY <1>0, <1>8, <2>0, <2>2, <3>1 DEF UpdateFile, Goto, Busy
      <4>2. hd[h].base = sent[hd[h].req].version /\ hd[h].req \in Requests
            /\ sent[hd[h].req] \in Request
        BY <2>0, <3>1 DEF ChainInv, BaseInv, UploadKinds, TypeInv, ControlOK, Serving, Busy
      <4>3. sent[hd[h].req] # NoRequest
        BY <4>2 DEF Request, NoRequest, AllKinds, UploadKinds
      <4>4. hd[h].base <= HeadOf(h).version
        BY <4>2, <4>3 DEF ChainInv, SentBase, HeadOf, FileOf
      <4>5. hd[h].base \in Nat /\ HeadOf(h).version \in Nat
        BY <2>0, ServedRequest DEF ChainInv, HeadRow
      <4>6. hd[h].base < HeadOf(h).version
        BY <2>2, <4>4, <4>5
      <4>7. HeadOf(h)' = HeadOf(h)
        BY <1>0, <1>8, <2>2, <4>1 DEF UpdateFile, HeadOf, FileOf
      <4> QED
        BY <4>1, <4>6, <4>7 DEF AnswerInv
    <3>2. CASE KindOf(h) \notin {"update", "batch"}
      <4>1. hd'[h].pc = "done" /\ hd'[h].code = 500
        BY <1>0, <1>8, <2>0, <2>2, <3>2 DEF UpdateFile, Reply, Busy
      <4> QED
        BY <4>1 DEF AnswerInv
    <3> QED
      BY <3>1, <3>2
  <2> QED
    BY <1>8, <2>1, <2>2 DEF UpdateFile, Committing
<1>9. CASE ReadCurrent(h)
  <2>1. /\ hd'[h].pc = "done" /\ hd'[h].code = 409 /\ hd'[h].base = hd[h].base
        /\ hd'[h].out = HeadOf(h).version /\ hd[h].base < HeadOf(h).version
    BY <1>0, <1>3, <1>9 DEF ReadCurrent, Busy, AnswerInv
  <2>2. hd[h].base \in Nat /\ HeadOf(h).version \in Nat
    BY <1>9, ServedRequest DEF ChainInv, HeadRow, ReadCurrent
  <2> QED
    BY <2>1, <2>2 DEF AnswerInv
<1>10. ASSUME hd[h].pc \in {"prune", "deleteBlobs", "publish", "saveIdem"},
              hd'[h].pc \in {"deleteBlobs", "publish", "saveIdem", "done"},
              hd'[h].req = hd[h].req, hd'[h].out = hd[h].out, hd'[h].rec = hd[h].rec,
              hd'[h].pc = "done" => hd'[h].code \in {200, 201}, UNCHANGED log
       PROVE  AnswerInv(h)'
  <2>1. Wrote(h) /\ log[FileOf(h)][hd[h].out].payload = hd[h].rec
    BY <1>10 DEF AnswerInv
  <2>2. FileOf(h)' = FileOf(h)
    BY <1>0, <1>10 DEF FileOf
  <2>3. Wrote(h)' /\ log'[FileOf(h)'][hd'[h].out].payload = hd'[h].rec
    BY <1>10, <2>1, <2>2 DEF Wrote
  <2>4. hd'[h].pc = "done" => hd'[h].code # 409
    BY <1>10
  <2> QED
    BY <1>10, <2>3, <2>4 DEF AnswerInv
<1>11. CASE PruneVersions(h) \/ DeleteBlob(h)
  BY <1>0, <1>3, <1>10, <1>11 DEF PruneVersions, DeleteBlob, Goto, Busy
<1>12. CASE publish(h) \/ saveIdempotency(h)
  BY <1>0, <1>3, <1>10, <1>12 DEF publish, saveIdempotency, Goto, Reply, Busy
<1>13. CASE ReadVersion(h)
  <2>1. hd[h] \in Busy
    BY <1>3, <1>13 DEF ReadVersion
  <2>2. CASE Reply(h, 404)
    BY <1>0, <2>1, <2>2 DEF Reply, Busy, AnswerInv
  <2>3. CASE ~Reply(h, 404)
    <3>1. PICK v \in RowsOf(FileOf(h)) :
             hd' = [hd EXCEPT ![h].pc = "readHead", ![h].rec = v.payload]
      BY <1>13, <2>3 DEF ReadVersion
    <3>2. hd'[h].pc = "readHead"
      BY <1>0, <2>1, <3>1 DEF Busy
    <3> QED
      BY <3>2 DEF AnswerInv
  <2> QED
    BY <2>2, <2>3
<1>14. CASE ReadHead(h)
  <2>1. KindOf(h)' = KindOf(h)
    BY <1>0, <1>14, OthersKept DEF KindOf, ChainInv
  <2>2. \/ hd'[h].pc \in {"createFile", "updateFile"}
        \/ hd'[h].pc = "done" /\ hd'[h].code = 404
        \/ hd'[h].pc \in {"readBlob", "done"} /\ KindOf(h) = "get"
    BY <1>0, <1>3, <1>14 DEF ReadHead, Goto, Reply, Busy
  <2> QED
    BY <2>1, <2>2 DEF AnswerInv, UploadKinds
<1>15. CASE readBlob(h)
  <2>1. hd'[h].pc = "done" /\ KindOf(h)' = "get"
    BY <1>0, <1>3, <1>15 DEF KindOf, readBlob, Reply, Busy, AnswerInv
  <2> QED
    BY <2>1 DEF AnswerInv, UploadKinds
<1>16. CASE Fail(h)
  <2>1. hd'[h].pc = "done" /\ hd'[h].code = 500
    BY <1>0, <1>3, <1>16 DEF Fail, Reply, Busy
  <2> QED
    BY <2>1 DEF AnswerInv
<1> QED
  BY <1>1, <1>2, <1>4, <1>5, <1>6, <1>7, <1>8, <1>9, <1>11, <1>12, <1>13, <1>14, <1>15,
     <1>16 DEF HandlerStep

\* Only saveIdempotency stores an answer, and it stores its own.
LEMMA SavedKept ==
    ASSUME ChainInv, SavedInv, \A h \in Handlers : AnswerInv(h), [Next]_vars
    PROVE  SavedInv'
<1> SUFFICES ASSUME NEW r \in Requests, idem'[r] # 0
             PROVE  /\ sent'[r] \in Request
                    /\ idem'[r] \in DOMAIN log'[sent'[r].file]
                    /\ log'[sent'[r].file][idem'[r]].req = r
  BY DEF SavedInv
<1>1. CASE idem'[r] = idem[r]
  <2>1. /\ sent[r] \in Request /\ idem[r] \in DOMAIN log[sent[r].file]
        /\ log[sent[r].file][idem[r]].req = r
    BY <1>1 DEF SavedInv
  <2>2. sent'[r] \in Request /\ sent'[r].file = sent[r].file /\ sent[r].file \in Files
    BY <2>1, SentKept DEF ChainInv, Request
  <2> QED
    BY <1>1, <2>1, <2>2, LogGrows
<1>2. CASE idem'[r] # idem[r]
  <2>1. PICK h \in Handlers : saveIdempotency(h)
    BY <1>2, RareWrites
  <2>2. /\ hd[h].pc = "saveIdem" /\ idem \in [Requests -> Nat] /\ hd[h].req \in Requests
        /\ sent[hd[h].req] \in Request /\ UNCHANGED <<sent, log>>
    BY <2>1 DEF saveIdempotency, ChainInv, TypeInv, StoreOK, ControlOK, Serving, Busy,
       clientVars
  <2>3. r = hd[h].req /\ idem'[r] = hd[h].out
    BY <1>2, <2>1, <2>2 DEF saveIdempotency
  <2>4. Wrote(h)
    BY <2>2 DEF AnswerInv
  <2> QED
    BY <2>2, <2>3, <2>4 DEF Wrote, FileOf
<1> QED
  BY <1>1, <1>2

-----------------------------------------------------------------------------
(* The delta feed.                                                         *)

\* The row a commit adds has the greatest sequence number so far and its file's
\* greatest version, and an event is published only of a version that has a row.
LEMMA FeedKept ==
    ASSUME ChainInv, FeedInv, \A h \in Handlers : AnswerInv(h), [Next]_vars
    PROVE  FeedInv'
<1>0. changes \subseteq ChangeRow /\ nextSeq \in Nat
  BY DEF ChainInv, TypeInv, StoreOK
<1>1. ASSUME NEW h \in Handlers, publish(h)
      PROVE  FeedInv'
  <2>1. /\ UNCHANGED <<changes, nextSeq, log>> /\ hd[h].pc = "publish"
        /\ events' = events \cup {[file |-> FileOf(h), version |-> hd[h].out,
                                   deleted |-> hd[h].rec.deleted]}
    BY <1>1 DEF publish
  <2>2. FileOf(h) \in Files
    BY <2>1, ServedRequest DEF ChainInv
  <2>3. /\ hd[h].out \in DOMAIN log[FileOf(h)]
        /\ log[FileOf(h)][hd[h].out].payload = hd[h].rec
    BY <2>1 DEF AnswerInv, Wrote
  <2>4. \E c \in changes : /\ c.file = FileOf(h) /\ c.version = hd[h].out
                           /\ c.deleted = hd[h].rec.deleted
    BY <2>2, <2>3 DEF FeedInv
  <2>5. \A e \in events' : \E c \in changes' :
           c.file = e.file /\ c.version = e.version /\ c.deleted = e.deleted
    BY <2>1, <2>4 DEF FeedInv
  <2> QED
    BY <2>1, <2>5 DEF FeedInv
<1>2. ASSUME NEW h \in Handlers, Committing(h)
      PROVE  FeedInv'
  <2>1. PICK f \in Files, n \in Nat : CommittedAs(h, f, n)
    BY <1>2, CommitEffect
  <2>2. PICK row : row = [seq |-> nextSeq, file |-> f, version |-> n + 1,
                          deleted |-> hd[h].rec.deleted]
    OBVIOUS
  <2>3. /\ changes' = changes \cup {row} /\ nextSeq' = nextSeq + 1
        /\ row.seq = nextSeq /\ row.file = f /\ row.version = n + 1
        /\ row.deleted = hd[h].rec.deleted
    BY <2>1, <2>2 DEF CommittedAs
  <2>4. /\ DOMAIN log[f] = 1..n /\ DOMAIN log'[f] = 1..(n + 1)
        /\ \A i \in 1..n : log'[f][i] = log[f][i]
        /\ log'[f][n + 1].payload = hd[h].rec
        /\ \A g \in Files : g # f => log'[g] = log[g]
    BY <2>1 DEF CommittedAs
  <2>5. \A c \in changes : /\ c.seq \in Nat /\ c.version \in Nat /\ c.file \in Files
                           /\ c.seq < nextSeq /\ c.version \in DOMAIN log[c.file]
    BY <1>0 DEF FeedInv, ChangeRow
  <2>6. ASSUME NEW c \in changes'
        PROVE  c.seq < nextSeq' /\ c.version \in DOMAIN log'[c.file]
    <3>1. CASE c = row
      BY <1>0, <2>3, <2>4, <3>1
    <3>2. CASE c \in changes /\ c.file = f
      BY <1>0, <2>3, <2>4, <2>5, <3>2
    <3>3. CASE c \in changes /\ c.file # f
      BY <1>0, <2>3, <2>4, <2>5, <3>3
    <3> QED
      BY <2>3, <2>6, <3>1, <3>2, <3>3
  <2>7. ASSUME NEW g \in Files, NEW i \in DOMAIN log'[g]
        PROVE  \E c \in changes' : /\ c.file = g /\ c.version = i
                                   /\ c.deleted = log'[g][i].payload.deleted
    <3>1. CASE g = f /\ i = n + 1
      BY <2>3, <2>4, <3>1
    <3>2. CASE g = f /\ i # n + 1
      <4>1. i \in DOMAIN log[f] /\ log'[f][i] = log[f][i]
        BY <2>4, <2>7, <3>2
      <4> QED
        BY <2>3, <3>2, <4>1 DEF FeedInv
    <3>3. CASE g # f
      BY <2>3, <2>4, <2>7, <3>3 DEF FeedInv
    <3> QED
      BY <3>1, <3>2, <3>3
  <2>8. ASSUME NEW c \in changes', NEW d \in changes'
        PROVE  /\ c.seq = d.seq => c = d
               /\ c.file = d.file /\ c.seq < d.seq => c.version < d.version
    <3>1. CASE c \in changes /\ d \in changes
      BY <3>1 DEF FeedInv
    <3>2. CASE c = row /\ d \in changes
      BY <1>0, <2>3, <2>5, <3>2
    <3>3. CASE c \in changes /\ d = row
      BY <1>0, <2>3, <2>4, <2>5, <3>3
    <3>4. CASE c = row /\ d = row
      BY <1>0, <2>3, <3>4
    <3> QED
      BY <2>3, <2>8, <3>1, <3>2, <3>3, <3>4
  <2>9. events' = events
    BY <1>2 DEF Committing
  <2> QED
    BY <2>3, <2>6, <2>7, <2>8, <2>9 DEF FeedInv
<1>3. CASE UNCHANGED <<changes, nextSeq, log, events>>
  BY <1>3 DEF FeedInv
<1>4. (\E h \in Handlers : publish(h)) \/ UNCHANGED events
  BY RareWrites
<1> QED
  BY <1>1, <1>2, <1>3, <1>4, StepKinds

-----------------------------------------------------------------------------
(* The version rows.                                                       *)

\* PruneVersions keeps the newest Retention rows: the rows newer than a version are
\* no more than the versions newer than it.
LEMMA NewestNotSurplus ==
    ASSUME ChainInv, HistoryKept, NEW f \in Files, NEW v \in RowsOf(f),
           v.version + Retention > Len(log[f]), Retention # 0
    PROVE  v \notin Surplus(f)
<1> DEFINE n == Len(log[f])
           W == {w \in RowsOf(f) : w.version > v.version}
           T == (v.version + 1)..n
           g == [w \in W |-> w.version]
<1>1. /\ log[f] \in Seq(Write) /\ n \in Nat /\ DOMAIN log[f] = 1..n /\ Retention \in Nat
  BY ConstantsAssumption DEF ChainInv, TypeInv, StoreOK
<1>2. \A w \in RowsOf(f) : /\ w \in VersionRow /\ w.file = f /\ w.version \in 1..n
                           /\ w.payload = log[f][w.version].payload
  BY <1>1 DEF RowsOf, HistoryKept, ChainInv, TypeInv, StoreOK
<1>3. v.version \in 1..n
  BY <1>2
<1>4. \A w, x \in W : w.version = x.version => w = x
  BY <1>2 DEF VersionRow
<1>5. \A w \in W : w.version \in T
  BY <1>1, <1>2, <1>3
<1>6. g \in Injection(W, T)
  BY <1>4, <1>5 DEF Injection, IsInjective
<1> HIDE DEF n, W, g
<1>7. IsFiniteSet(T) /\ Cardinality(T) = n - v.version
  <2>1. v.version + 1 \in Int /\ n \in Int
    BY <1>1, <1>3
  <2>2. /\ IsFiniteSet(T)
        /\ Cardinality(T) = IF v.version + 1 > n THEN 0 ELSE n - (v.version + 1) + 1
    BY <2>1, FS_Interval
  <2> HIDE DEF T
  <2> QED
    BY <1>1, <1>3, <2>2
<1> HIDE DEF T
<1>8. IsFiniteSet(W) /\ Cardinality(W) <= Cardinality(T)
  BY <1>6, <1>7, FS_Injection
<1>9. Cardinality(W) \in Nat
  BY <1>8, FS_CardinalityType
<1>10. Cardinality(W) < Retention
  <2>1. v.version + Retention > n
    BY DEF n
  <2> QED
    BY <1>1, <1>3, <1>7, <1>8, <1>9, <2>1
<1> QED
  BY <1>1, <1>9, <1>10 DEF Surplus, W

\* A commit adds its row, pruning removes only surplus ones, nothing else touches them.
LEMMA HistoryStep ==
    ASSUME ChainInv, HistoryKept, [Next]_vars
    PROVE  HistoryKept'
<1>0. versions \subseteq VersionRow
  BY DEF ChainInv, TypeInv, StoreOK
<1>1. ASSUME NEW h \in Handlers, Committing(h)
      PROVE  HistoryKept'
  <2>1. PICK f \in Files, n \in Nat : CommittedAs(h, f, n)
    BY <1>1, CommitEffect
  <2>2. PICK row : row = [file |-> f, version |-> n + 1, payload |-> hd[h].rec]
    OBVIOUS
  <2>3. /\ versions' = versions \cup {row}
        /\ row.file = f /\ row.version = n + 1 /\ row.payload = hd[h].rec
    BY <2>1, <2>2 DEF CommittedAs
  <2>4. /\ DOMAIN log[f] = 1..n /\ DOMAIN log'[f] = 1..(n + 1)
        /\ Len(log[f]) = n /\ Len(log'[f]) = n + 1
        /\ \A i \in 1..n : log'[f][i] = log[f][i]
        /\ log'[f][n + 1].payload = hd[h].rec
        /\ files'[f].version = n + 1 /\ files'[f].payload = hd[h].rec
        /\ \A g \in Files : g # f => log'[g] = log[g] /\ files'[g] = files[g]
    BY <2>1 DEF CommittedAs
  <2>5. /\ RowsOf(f)' = RowsOf(f) \cup {row}
        /\ \A g \in Files : g # f => RowsOf(g)' = RowsOf(g)
    BY <2>3 DEF RowsOf
  <2>6. ASSUME NEW v \in RowsOf(f)'
        PROVE  v.version \in DOMAIN log'[f] /\ v.payload = log'[f][v.version].payload
    <3>1. CASE v = row
      BY <2>3, <2>4, <3>1
    <3>2. CASE v \in RowsOf(f)
      <4>1. v.version \in 1..n /\ v.payload = log[f][v.version].payload
        BY <2>4, <3>2 DEF HistoryKept
      <4> QED
        BY <2>4, <4>1
    <3> QED
      BY <2>5, <2>6, <3>1, <3>2
  <2>7. ASSUME NEW i \in DOMAIN log'[f], Retention = 0 \/ i + Retention > Len(log'[f])
        PROVE  \E v \in RowsOf(f)' : v.version = i
    <3>1. CASE i = n + 1
      BY <2>3, <2>5, <3>1
    <3>2. CASE i # n + 1
      <4>1. i \in DOMAIN log[f] /\ (Retention = 0 \/ i + Retention > Len(log[f]))
        BY <2>4, <2>7, <3>2, ConstantsAssumption
      <4> QED
        BY <2>5, <4>1 DEF HistoryKept
    <3> QED
      BY <3>1, <3>2
  <2> SUFFICES ASSUME NEW g \in Files
               PROVE  /\ files'[g].version = Len(log'[g])
                      /\ log'[g] # <<>> => files'[g].payload = log'[g][Len(log'[g])].payload
                      /\ \A v \in RowsOf(g)' : /\ v.version \in DOMAIN log'[g]
                                               /\ v.payload = log'[g][v.version].payload
                      /\ \A i \in DOMAIN log'[g] :
                            Retention = 0 \/ i + Retention > Len(log'[g])
                              => \E v \in RowsOf(g)' : v.version = i
    BY DEF HistoryKept
  <2>8. CASE g = f
    BY <2>4, <2>6, <2>7, <2>8
  <2>9. CASE g # f
    BY <2>4, <2>5, <2>9 DEF HistoryKept
  <2> QED
    BY <2>8, <2>9
<1>2. ASSUME UNCHANGED <<files, log>>,
             \A f \in Files : /\ RowsOf(f)' \subseteq RowsOf(f)
                              /\ Retention = 0 => RowsOf(f)' = RowsOf(f)
                              /\ \A v \in RowsOf(f) \ RowsOf(f)' : v \in Surplus(f)
      PROVE  HistoryKept'
  <2>1. ASSUME NEW f \in Files, NEW i \in DOMAIN log[f],
               Retention = 0 \/ i + Retention > Len(log[f])
        PROVE  \E v \in RowsOf(f)' : v.version = i
    <3>1. PICK v \in RowsOf(f) : v.version = i
      BY <2>1 DEF HistoryKept
    <3>2. v \in RowsOf(f)'
      BY <1>2, <2>1, <3>1, NewestNotSurplus
    <3> QED
      BY <3>1, <3>2
  <2> QED
    BY <1>2, <2>1 DEF HistoryKept
<1>3. ASSUME NEW h \in Handlers, PruneVersions(h), versions' # versions
      PROVE  HistoryKept'
  <2>1. /\ versions' = versions \ Surplus(FileOf(h)) /\ Retention # 0
        /\ UNCHANGED <<files, log>>
    BY <1>3 DEF PruneVersions
  <2>2. \A v \in Surplus(FileOf(h)) : v.file = FileOf(h)
    BY DEF Surplus, RowsOf
  <2>3. ASSUME NEW f \in Files
        PROVE  /\ RowsOf(f)' \subseteq RowsOf(f)
               /\ \A v \in RowsOf(f) \ RowsOf(f)' : v \in Surplus(f)
    BY <2>1, <2>2 DEF RowsOf
  <2> QED
    BY <1>2, <2>1, <2>3
<1>4. CASE UNCHANGED <<files, log, versions>>
  BY <1>4 DEF HistoryKept, RowsOf
<1> QED
  BY <1>1, <1>3, <1>4, StepKinds

-----------------------------------------------------------------------------
(* The theorems.                                                           *)

\* An empty server has nothing to remember.
LEMMA RecordInvInit == Init => RecordInv
<1> SUFFICES ASSUME Init PROVE RecordInv
  OBVIOUS
<1>1. ChainInv
  BY ChainInvInit
<1>2. DOMAIN <<>> = {} /\ Len(<<>>) = 0
  OBVIOUS
<1>3. \A f \in Files : log[f] = <<>> /\ files[f].version = 0
  BY DEF Init
<1>4. versions = {} /\ changes = {} /\ events = {}
  BY DEF Init
<1>5. HistoryKept
  BY <1>2, <1>3, <1>4 DEF HistoryKept, RowsOf
<1>6. FeedInv
  BY <1>2, <1>3, <1>4 DEF FeedInv
<1>7. SavedInv /\ \A h \in Handlers : AnswerInv(h)
  BY DEF Init, SavedInv, AnswerInv, Idle
<1> QED
  BY <1>1, <1>5, <1>6, <1>7 DEF RecordInv

\* RecordInv is inductive.
LEMMA RecordInvNext == RecordInv /\ [Next]_vars => RecordInv'
<1> SUFFICES ASSUME RecordInv, [Next]_vars PROVE RecordInv'
  OBVIOUS
<1>1. ChainInv' /\ SavedInv' /\ FeedInv' /\ HistoryKept'
  BY ChainInvNext, SavedKept, FeedKept, HistoryStep DEF RecordInv
<1>2. ASSUME NEW g \in Handlers
      PROVE  AnswerInv(g)'
  <2>1. CASE hd'[g] = hd[g]
    BY <2>1, AnswerStays DEF RecordInv
  <2>2. CASE hd'[g] # hd[g]
    <3>1. HandlerStep(g)
      BY <2>2, OneActor DEF RecordInv, ChainInv
    <3> QED
      BY <3>1, AnswerOwn DEF RecordInv
  <2> QED
    BY <2>1, <2>2
<1> QED
  BY <1>1, <1>2 DEF RecordInv

\* RecordInv holds throughout.
LEMMA RecordInvCorrect == Spec => []RecordInv
BY RecordInvInit, RecordInvNext, PTL DEF Spec

\* Whatever is retried, fails or dies, the delta feed has a row for every committed
\* version of every file and lists a file's versions in order, so a device that pages
\* through it misses none; and no event announces a version the feed does not have.
THEOREM FeedCompleteCorrect == Spec => []FeedComplete
<1>1. RecordInv => FeedComplete
  <2> SUFFICES ASSUME ChainInv, FeedInv PROVE FeedComplete
    BY DEF RecordInv
  <2>1. ASSUME NEW f \in Files
        PROVE  {c.version : c \in {d \in changes : d.file = f}} = DOMAIN log[f]
    BY DEF FeedInv
  <2> QED
    BY <2>1 DEF FeedInv, FeedComplete
<1> QED
  BY <1>1, RecordInvCorrect, PTL

\* For every retention setting: the head is the last write, every history row is the
\* write it says it is, and the newest Retention versions can still be restored (all
\* of them when retention is off), however PUTs and their pruning interleave.
THEOREM HistoryKeptCorrect == Spec => []HistoryKept
<1>1. RecordInv => HistoryKept
  BY DEF RecordInv
<1> QED
  BY <1>1, RecordInvCorrect, PTL

\* A success answer to an upload names the version that very upload wrote, also when
\* it is replayed from idempotency_keys after a lost answer; a PUT or batch item is
\* answered "conflict" only with a version beyond the base it declared.
THEOREM AnswersAreTrueCorrect == Spec => []AnswersAreTrue
<1>1. RecordInv => AnswersAreTrue
  BY DEF RecordInv, AnswerInv, AnswersAreTrue, Wrote
<1> QED
  BY <1>1, RecordInvCorrect, PTL
=============================================================================
