----------------------------- MODULE SyncServer -----------------------------
(***************************************************************************)
(* The file half of the sync server: the REST handlers of                  *)
(* server/internal/api/sync_handlers.go over the metadata store            *)
(* (server/internal/store) and the blob store (server/internal/blob).      *)
(*                                                                         *)
(* Every request runs in a goroutine of its own (a handler).  A store or   *)
(* blob call is one atomic step (the store wraps each call in a mutex or a *)
(* transaction); between two calls any other handler may run.  A request   *)
(* may be received any number of times (network retries), a handler may    *)
(* die between any two calls, and a store call may fail.                   *)
(*                                                                         *)
(* One account is modelled: every table is keyed by account_id and no      *)
(* handler reads another account's rows.                                   *)
(***************************************************************************)
EXTENDS Naturals, FiniteSets, Sequences

CONSTANTS
    Files,      \* file ids
    Blobs,      \* blob keys, i.e. SHA-256 of a ciphertext
    Requests,   \* identities of the requests the devices make
    Keyed,      \* the requests that carry an idempotency key
    Handlers,   \* goroutines serving requests
    Kinds,      \* the endpoints in use
    Flaws,      \* what can be wrong with an upload's body
    Retention,  \* NPSYNC_VERSION_RETENTION
    MaxVersion  \* bound: no request is received for a file that has this many versions

UploadKinds == {"create", "update", "batch"}
AllKinds == UploadKinds \cup {"delete", "restore", "get"}
AllFlaws == {"none", "shape", "content"}

ASSUME ConstantsAssumption ==
    /\ Keyed \subseteq Requests
    /\ Kinds \subseteq AllKinds
    /\ Flaws \subseteq AllFlaws
    /\ Retention \in Nat
    /\ MaxVersion \in Nat

VARIABLES
    files,     \* the files table: the head record of each file, version 0 = no row
    versions,  \* the file_versions table, a set of rows
    changes,   \* the changes table (delta feed), a set of rows
    nextSeq,   \* the change_seq counter
    blobs,     \* the keys present in blob storage
    idem,      \* idempotency_keys: the version in the stored response, 0 = no row
    events,    \* what was handed to the websocket hub
    sent,      \* the request each identity stands for
    used,      \* ciphertexts produced so far (a random nonce makes each one new)
    hd,        \* the handlers in flight
    log        \* history variable: every write committed to a file, in order

serverVars == <<files, versions, changes, nextSeq, blobs, idem, events>>
clientVars == <<sent, used>>
vars == <<serverVars, clientVars, hd, log>>

-----------------------------------------------------------------------------
(* Data.  A payload is what a write replaces: content and deleted flag.    *)

NoBlob == "none"
ASSUME NoBlobAssumption == NoBlob \notin Blobs

Payload == [blob : Blobs \cup {NoBlob}, deleted : BOOLEAN]
Empty == [blob |-> NoBlob, deleted |-> FALSE]

HeadRow == [version : Nat, payload : Payload]
VersionRow == [file : Files, version : Nat, payload : Payload]
ChangeRow == [seq : Nat, file : Files, version : Nat, deleted : BOOLEAN]
Event == [file : Files, version : Nat, deleted : BOOLEAN]

\* flaw: "shape" for a body that fails validateIncomingFile's checks of the file
\* id, hash or metadata, "content" for one that fails those of the content.
\* version: base_version of an upload, the version asked for by a restore.
Request == [kind : AllKinds, file : Files, version : Nat,
            payload : Payload, flaw : AllFlaws]
NoRequest == [kind |-> "none", file |-> "none", version |-> 0,
              payload |-> Empty, flaw |-> "none"]

PCs == {"idle", "checkIdem", "storeBlob", "createFile", "updateFile",
        "readCurrent", "prune", "deleteBlobs", "publish", "saveIdem",
        "readVersion", "readHead", "readBlob", "done"}

\* rec, base: what the handler is about to write and over which version;
\* drop: pruned keys not deleted yet; out: the version in the answer.
Busy == [pc : PCs \ {"idle"}, req : Requests, rec : Payload, base : Nat,
         drop : SUBSET (Blobs \cup {NoBlob}), out : Nat, code : Nat]
Idle == [pc |-> "idle", req |-> "none", rec |-> Empty, base |-> 0,
         drop |-> {}, out |-> 0, code |-> 0]

Write == [payload : Payload, base : Nat, req : Requests]

KindOf(h) == sent[hd[h].req].kind
FileOf(h) == sent[hd[h].req].file
HeadOf(h) == files[FileOf(h)]

-----------------------------------------------------------------------------
(* Steps of a handler.                                                     *)

Goto(h, pc) == hd' = [hd EXCEPT ![h].pc = pc]
Reply(h, code) == hd' = [hd EXCEPT ![h].pc = "done", ![h].code = code]

\* Mutant: the declared hash is not compared with the content.
validateIncomingFileTrusting(q) == q.flaw # "shape"

\* validateIncomingFile: a tombstone's content is not looked at.
validateIncomingFile(q) ==
    q.flaw = "none" \/ (q.flaw = "content" /\ q.payload.deleted)

CommitPC(kind) == IF kind = "create" THEN "createFile" ELSE "updateFile"
\* Mutants: a DELETE served like an upload; a batch item committed without its blob.
FirstPCDeleteUploads(kind) ==
    CASE kind \in {"create", "update"} -> "checkIdem"
      [] kind \in {"batch", "delete"} -> "storeBlob"
      [] kind = "restore" -> "readVersion"
      [] OTHER -> "readHead"
FirstPCBatchNoBlob(kind) ==
    CASE kind \in {"create", "update"} -> "checkIdem"
      [] kind = "restore" -> "readVersion"
      [] OTHER -> "readHead"

FirstPC(kind) ==
    CASE kind \in {"create", "update"} -> "checkIdem"
      [] kind = "batch" -> "storeBlob"
      [] kind = "restore" -> "readVersion"
      [] OTHER -> "readHead"

\* A device makes a new request: an upload carries a ciphertext of its own, and
\* no device knows of a version the server does not have.
Plausible(q) ==
    /\ q.version <= files[q.file].version
    /\ q.kind \in {"create", "delete", "get"} => q.version = 0
    /\ IF q.kind \in UploadKinds THEN q.payload.blob \in Blobs \ used
       ELSE q.payload = Empty /\ q.flaw = "none"

Send(r) ==
    /\ sent[r] = NoRequest
    /\ \E q \in [kind : Kinds, file : Files, version : 0..MaxVersion,
                 payload : Payload, flaw : Flaws] :
          /\ Plausible(q)
          /\ sent' = [sent EXCEPT ![r] = q]
          /\ used' = used \cup ({q.payload.blob} \ {NoBlob})
    /\ UNCHANGED <<serverVars, hd, log>>

\* The plugin encrypts again for each attempt: same key, new ciphertext.
Retry(r) ==
    /\ sent[r].kind \in UploadKinds
    /\ \E b \in Blobs \ used :
          /\ sent' = [sent EXCEPT ![r].payload.blob = b]
          /\ used' = used \cup {b}
    /\ UNCHANGED <<serverVars, hd, log>>

\* A request, or a copy of one received before, reaches the router.
Start(r, pc, code) ==
    [pc |-> pc, req |-> r, rec |-> sent[r].payload, base |-> sent[r].version,
     drop |-> {}, out |-> 0, code |-> code]

Receive(h, r) ==
    /\ hd[h].pc = "idle"
    /\ sent[r] # NoRequest
    /\ files[sent[r].file].version < MaxVersion
    /\ hd' = [hd EXCEPT ![h] =
          IF sent[r].kind \in UploadKinds /\ ~validateIncomingFile(sent[r])
          THEN Start(r, "done", 400) ELSE Start(r, FirstPC(sent[r].kind), 0)]
    /\ UNCHANGED <<serverVars, clientVars, log>>

\* Mutant: the metadata is committed and the blob never stored.
CheckIdempotencyNoBlob(h) ==
    /\ hd[h].pc = "checkIdem"
    /\ Goto(h, CommitPC(KindOf(h)))
    /\ UNCHANGED <<serverVars, clientVars, log>>

\* checkIdempotency.  A failed lookup counts as a miss.
CheckIdempotency(h) ==
    /\ hd[h].pc = "checkIdem"
    /\ \/ /\ hd[h].req \in Keyed /\ idem[hd[h].req] # 0
          /\ hd' = [hd EXCEPT ![h].pc = "done", ![h].code = 200,
                              ![h].out = idem[hd[h].req]]
       \/ Goto(h, "storeBlob")
    /\ UNCHANGED <<serverVars, clientVars, log>>

storeBlob(h) ==
    /\ hd[h].pc = "storeBlob"
    /\ blobs' = IF hd[h].rec.deleted THEN blobs ELSE blobs \cup {hd[h].rec.blob}
    /\ Goto(h, IF KindOf(h) = "batch" THEN "readHead" ELSE CommitPC(KindOf(h)))
    /\ UNCHANGED <<files, versions, changes, nextSeq, idem, events, clientVars, log>>

\* Mutants: change_seq is not advanced; a tombstone gets no feed row.
CommitVersionSeqReused(h, v) ==
    LET f == FileOf(h)
        p == hd[h].rec
    IN /\ files' = [files EXCEPT ![f] = [version |-> v, payload |-> p]]
       /\ versions' = versions \cup {[file |-> f, version |-> v, payload |-> p]}
       /\ changes' = changes \cup
             {[seq |-> nextSeq, file |-> f, version |-> v, deleted |-> p.deleted]}
       /\ UNCHANGED nextSeq
       /\ log' = [log EXCEPT ![f] =
             Append(@, [payload |-> p, base |-> hd[h].base, req |-> hd[h].req])]
CommitVersionQuietDelete(h, v) ==
    LET f == FileOf(h)
        p == hd[h].rec
    IN /\ files' = [files EXCEPT ![f] = [version |-> v, payload |-> p]]
       /\ versions' = versions \cup {[file |-> f, version |-> v, payload |-> p]}
       /\ changes' = changes \cup IF p.deleted THEN {} ELSE
             {[seq |-> nextSeq, file |-> f, version |-> v, deleted |-> p.deleted]}
       /\ nextSeq' = nextSeq + 1
       /\ log' = [log EXCEPT ![f] =
             Append(@, [payload |-> p, base |-> hd[h].base, req |-> hd[h].req])]

\* The rows one CreateFile or UpdateFile transaction writes.
CommitVersion(h, v) ==
    LET f == FileOf(h)
        p == hd[h].rec
    IN /\ files' = [files EXCEPT ![f] = [version |-> v, payload |-> p]]
       /\ versions' = versions \cup {[file |-> f, version |-> v, payload |-> p]}
       /\ changes' = changes \cup
             {[seq |-> nextSeq, file |-> f, version |-> v, deleted |-> p.deleted]}
       /\ nextSeq' = nextSeq + 1
       /\ log' = [log EXCEPT ![f] =
             Append(@, [payload |-> p, base |-> hd[h].base, req |-> hd[h].req])]

\* Mutant: a duplicate create is answered as if it had been this request's.
CreateFileDuplicateIsSuccess(h) ==
    /\ hd[h].pc = "createFile"
    /\ IF HeadOf(h).version # 0
       THEN /\ hd' = [hd EXCEPT ![h].pc = "done", ![h].out = 1, ![h].code = 201]
            /\ UNCHANGED <<files, versions, changes, nextSeq, log>>
       ELSE /\ CommitVersion(h, 1)
            /\ hd' = [hd EXCEPT ![h].pc = "publish", ![h].out = 1]
    /\ UNCHANGED <<blobs, idem, events, clientVars>>

\* The answer to a duplicate id is 409 "duplicate" (an internal error in a batch).
CreateFile(h) ==
    /\ hd[h].pc = "createFile"
    /\ IF HeadOf(h).version # 0
       THEN /\ Reply(h, IF KindOf(h) = "create" THEN 409 ELSE 500)
            /\ UNCHANGED <<files, versions, changes, nextSeq, log>>
       ELSE /\ CommitVersion(h, 1)
            /\ hd' = [hd EXCEPT ![h].pc = "publish", ![h].out = 1]
    /\ UNCHANGED <<blobs, idem, events, clientVars>>

\* Mutant: no comparison of the head's version with the base.
UpdateFileUnchecked(h) ==
    /\ hd[h].pc = "updateFile"
    /\ HeadOf(h).version # 0
    /\ CommitVersion(h, HeadOf(h).version + 1)
    /\ hd' = [hd EXCEPT ![h].out = HeadOf(h).version + 1,
                        ![h].pc = IF KindOf(h) = "update" THEN "prune" ELSE "publish"]
    /\ UNCHANGED <<blobs, idem, events, clientVars>>

\* Only PUT asks for the current record again and prunes.
UpdateFile(h) ==
    /\ hd[h].pc = "updateFile"
    /\ IF HeadOf(h).version = 0
       THEN /\ Reply(h, 404)
            /\ UNCHANGED <<files, versions, changes, nextSeq, log>>
       ELSE IF HeadOf(h).version # hd[h].base
       THEN /\ IF KindOf(h) \in {"update", "batch"}
               THEN Goto(h, "readCurrent") ELSE Reply(h, 500)
            /\ UNCHANGED <<files, versions, changes, nextSeq, log>>
       ELSE /\ CommitVersion(h, HeadOf(h).version + 1)
            /\ hd' = [hd EXCEPT
                  ![h].pc = IF KindOf(h) = "update" THEN "prune" ELSE "publish",
                  ![h].out = HeadOf(h).version + 1]
    /\ UNCHANGED <<blobs, idem, events, clientVars>>

\* The conflict answer carries the record as it is now.
ReadCurrent(h) ==
    /\ hd[h].pc = "readCurrent"
    /\ hd' = [hd EXCEPT ![h].pc = "done", ![h].code = 409,
                        ![h].out = HeadOf(h).version]
    /\ UNCHANGED <<serverVars, clientVars, log>>

\* PruneVersions: the rows beyond the newest `keep', and the keys of those rows
\* that neither the head nor a remaining row of the file uses.
RowsOf(f) == {v \in versions : v.file = f}
SurplusOffByOne(f) == {v \in RowsOf(f) :   \* mutant
    Cardinality({w \in RowsOf(f) : w.version > v.version}) >= Retention - 1}
Surplus(f) == {v \in RowsOf(f) :
    Cardinality({w \in RowsOf(f) : w.version > v.version}) >= Retention}
KeysOf(rows) == {v.payload.blob : v \in rows}
PrunedKeys(f) == KeysOf(Surplus(f)) \
    (KeysOf(RowsOf(f) \ Surplus(f)) \cup {files[f].payload.blob})

\* Mutant: the keys are kept for deletion although the transaction rolled back.
PruneVersionsRolledBack(h) ==
    /\ hd[h].pc = "prune"
    /\ hd' = [hd EXCEPT ![h].pc = "deleteBlobs", ![h].drop = PrunedKeys(FileOf(h))]
    /\ UNCHANGED <<serverVars, clientVars, log>>

PruneVersions(h) ==
    /\ hd[h].pc = "prune"
    /\ IF Retention = 0
       THEN Goto(h, "publish") /\ UNCHANGED versions
       ELSE \/ /\ versions' = versions \ Surplus(FileOf(h))
               /\ hd' = [hd EXCEPT ![h].pc = "deleteBlobs",
                                   ![h].drop = PrunedKeys(FileOf(h))]
            \/ Goto(h, "publish") /\ UNCHANGED versions   \* its error is dropped
    /\ UNCHANGED <<files, changes, nextSeq, blobs, idem, events, clientVars, log>>

\* One blobs.Delete per key; its error is dropped too.
DeleteBlob(h) ==
    /\ hd[h].pc = "deleteBlobs"
    /\ \/ /\ hd[h].drop = {}
          /\ Goto(h, "publish") /\ UNCHANGED blobs
       \/ \E k \in hd[h].drop :
             /\ hd' = [hd EXCEPT ![h].drop = @ \ {k}]
             /\ blobs' \in {blobs, blobs \ {k}}
    /\ UNCHANGED <<files, versions, changes, nextSeq, idem, events, clientVars, log>>

publish(h) ==
    /\ hd[h].pc = "publish"
    /\ events' = events \cup {[file |-> FileOf(h), version |-> hd[h].out,
                               deleted |-> hd[h].rec.deleted]}
    /\ IF KindOf(h) \in {"create", "update"} THEN Goto(h, "saveIdem")
                                             ELSE Reply(h, 200)
    /\ UNCHANGED <<files, versions, changes, nextSeq, blobs, idem, clientVars, log>>

\* saveIdempotency: ON CONFLICT DO NOTHING, and its error is dropped.
saveIdempotency(h) ==
    /\ hd[h].pc = "saveIdem"
    /\ idem' \in IF hd[h].req \in Keyed /\ idem[hd[h].req] = 0
                 THEN {idem, [idem EXCEPT ![hd[h].req] = hd[h].out]} ELSE {idem}
    /\ Reply(h, IF KindOf(h) = "create" THEN 201 ELSE 200)
    /\ UNCHANGED <<files, versions, changes, nextSeq, blobs, events, clientVars, log>>

\* GetVersion, the first call of a restore.
ReadVersion(h) ==
    /\ hd[h].pc = "readVersion"
    /\ \/ \E v \in RowsOf(FileOf(h)) :
             /\ v.version = hd[h].base
             /\ hd' = [hd EXCEPT ![h].pc = "readHead", ![h].rec = v.payload]
       \/ /\ \A v \in RowsOf(FileOf(h)) : v.version # hd[h].base
          /\ Reply(h, 404)
    /\ UNCHANGED <<serverVars, clientVars, log>>

\* GetFile, as DELETE, restore, a batch item and GET call it.
ReadHead(h) ==
    /\ hd[h].pc = "readHead"
    /\ \/ /\ KindOf(h) = "batch"
          /\ Goto(h, IF HeadOf(h).version = 0 THEN "createFile" ELSE "updateFile")
       \/ /\ KindOf(h) # "batch" /\ HeadOf(h).version = 0
          /\ Reply(h, 404)
       \/ /\ KindOf(h) = "delete" /\ HeadOf(h).version # 0
          /\ hd' = [hd EXCEPT ![h].pc = "updateFile", ![h].base = HeadOf(h).version,
                              ![h].rec = [HeadOf(h).payload EXCEPT !.deleted = TRUE]]
       \/ /\ KindOf(h) = "restore" /\ HeadOf(h).version # 0
          /\ hd' = [hd EXCEPT ![h].pc = "updateFile", ![h].base = HeadOf(h).version]
       \/ /\ KindOf(h) = "get" /\ HeadOf(h).version # 0
          /\ hd' = [hd EXCEPT ![h].pc = IF HeadOf(h).payload.deleted
                                        THEN "done" ELSE "readBlob",
                              ![h].code = IF HeadOf(h).payload.deleted THEN 200 ELSE 0,
                              ![h].out = HeadOf(h).version,
                              ![h].rec = HeadOf(h).payload]
    /\ UNCHANGED <<serverVars, clientVars, log>>

readBlob(h) ==
    /\ hd[h].pc = "readBlob"
    /\ Reply(h, IF hd[h].rec.blob \in blobs THEN 200 ELSE 404)
    /\ UNCHANGED <<serverVars, clientVars, log>>

\* A store or blob call fails, or its context is cancelled: nothing is written
\* and the handler answers 500.
Fail(h) ==
    /\ hd[h].pc \in {"storeBlob", "createFile", "updateFile", "readCurrent",
                     "readVersion", "readHead", "readBlob"}
    /\ Reply(h, 500)
    /\ UNCHANGED <<serverVars, clientVars, log>>

\* The answer leaves; or the process dies (a crash ends every handler, here one
\* by one) and nothing is answered.
Finish(h) ==
    /\ hd[h].pc # "idle"
    /\ hd' = [hd EXCEPT ![h] = Idle]
    /\ UNCHANGED <<serverVars, clientVars, log>>

HandlerStep(h) ==
    \/ \E r \in Requests : Receive(h, r)
    \/ CheckIdempotency(h) \/ storeBlob(h)
    \/ CreateFile(h) \/ UpdateFile(h) \/ ReadCurrent(h)
    \/ PruneVersions(h) \/ DeleteBlob(h)
    \/ publish(h) \/ saveIdempotency(h)
    \/ ReadVersion(h) \/ ReadHead(h) \/ readBlob(h)
    \/ Fail(h) \/ Finish(h)

-----------------------------------------------------------------------------
Init ==
    /\ files = [f \in Files |-> [version |-> 0, payload |-> Empty]]
    /\ versions = {} /\ changes = {} /\ nextSeq = 1
    /\ blobs = {} /\ events = {} /\ used = {}
    /\ idem = [r \in Requests |-> 0]
    /\ sent = [r \in Requests |-> NoRequest]
    /\ hd = [h \in Handlers |-> Idle]
    /\ log = [f \in Files |-> <<>>]

Next ==
    \/ \E r \in Requests : Send(r) \/ Retry(r)
    \/ \E h \in Handlers : HandlerStep(h)

Spec == Init /\ [][Next]_vars
-----------------------------------------------------------------------------
(* Properties.                                                             *)

\* Every variable holds a value of its type.
TypeOK ==
    /\ files \in [Files -> HeadRow]
    /\ versions \subseteq VersionRow
    /\ changes \subseteq ChangeRow
    /\ nextSeq \in Nat
    /\ blobs \subseteq Blobs
    /\ idem \in [Requests -> Nat]
    /\ events \subseteq Event
    /\ sent \in [Requests -> Request \cup {NoRequest}]
    /\ used \subseteq Blobs
    /\ hd \in [Handlers -> Busy \cup {Idle}]
    /\ log \in [Files -> Seq(Write)]

\* No lost update: whatever the interleaving of PUT, DELETE, restore and batch,
\* the version a write was based on is the version it replaced.
NoLostUpdate ==
    \A f \in Files : \A i \in DOMAIN log[f] : log[f][i].base = i - 1

\* The head is the last write, every history row is the write of its number, and
\* the newest Retention versions (all of them when retention is off) can still be
\* restored, however PUTs, their pruning and crashes interleave.
HistoryKept ==
    \A f \in Files :
       /\ files[f].version = Len(log[f])
       /\ log[f] # <<>> => files[f].payload = log[f][Len(log[f])].payload
       /\ \A v \in RowsOf(f) : /\ v.version \in DOMAIN log[f]
                               /\ v.payload = log[f][v.version].payload
       /\ \A i \in DOMAIN log[f] : Retention = 0 \/ i + Retention > Len(log[f])
             => \E v \in RowsOf(f) : v.version = i

\* The delta feed has one row per committed version and lists the versions of a
\* file in order, so a device that missed the event of a version, or whose event
\* was never published because the handler died, finds it there.
FeedComplete ==
    /\ \A f \in Files :
         {c.version : c \in {d \in changes : d.file = f}} = DOMAIN log[f]
    /\ \A c, d \in changes :
         /\ c.seq = d.seq => c = d
         /\ c.file = d.file /\ c.seq < d.seq => c.version < d.version
    /\ \A e \in events : \E c \in changes :
         c.file = e.file /\ c.version = e.version /\ c.deleted = e.deleted

\* The handlers implement one atomic versioned register per file: the files and
\* changes tables move together, one version at a time, and nothing else (a
\* retry, a conflict, pruning, a crash) moves either.
Feed == {[file |-> c.file, version |-> c.version, deleted |-> c.deleted] :
            c \in changes}
Store == INSTANCE VersionedStore
            WITH Payloads <- Payload, NoPayload <- Empty, head <- files, feed <- Feed
ImplementsStore == Store!Spec

\* An upload takes effect at most once, however often it is received, whether or
\* not it carries a key and whether or not its answer was saved.
UploadsAtMostOnce ==
    \A f \in Files : \A i, j \in DOMAIN log[f] :
       /\ log[f][i].req = log[f][j].req
       /\ sent[log[f][i].req].kind \in UploadKinds
       => i = j

\* A success answer, replayed from idempotency_keys or not, names the version
\* this very request wrote; a version conflict is answered only when another
\* version was committed over the declared base.
AnswersAreTrue ==
    \A h \in Handlers : hd[h].pc = "done" /\ KindOf(h) \in UploadKinds =>
       /\ hd[h].code \in {200, 201} =>
             /\ hd[h].out \in DOMAIN log[FileOf(h)]
             /\ log[FileOf(h)][hd[h].out].req = hd[h].req
       /\ hd[h].code = 409 /\ KindOf(h) # "create" => hd[h].out > hd[h].base

\* "Store the blob BEFORE committing metadata so a head record never points at a
\* missing blob" (handleUpdateFile): a live head's blob is in blob storage.
HeadBlobPresent ==
    \A f \in Files : files[f].version # 0 /\ ~files[f].payload.deleted
       => files[f].payload.blob \in blobs

\* The same for the history: a version that can be restored has its content.
RetainedBlobsPresent ==
    \A v \in versions : ~v.payload.deleted => v.payload.blob \in blobs

\* A GET answers "not found" for a live file only if the version it read has
\* been pruned since: its metadata and blob reads are two calls.
MissMeansPruned ==
    \A h \in Handlers :
       hd[h].pc = "done" /\ KindOf(h) = "get" /\ hd[h].code = 404 /\ hd[h].out # 0
       => \A v \in RowsOf(FileOf(h)) : v.version # hd[h].out

\* "The declared hash must match the received ciphertext [...] this also prevents
\* storage of corrupt uploads" (validateIncomingFile), on every path to the blob
\* store, the one that skips the content checks included.
CorruptNeverStored ==
    \A r \in Requests : sent[r].flaw = "content" => sent[r].payload.blob \notin blobs
=============================================================================
