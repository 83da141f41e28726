------------------------------ MODULE Uploads -------------------------------
(***************************************************************************)
(* Uploads into one workspace: the upload API (packages/db uploads.ts),    *)
(* the storage account it charges (quota.ts), the browser's PUTs to S3,    *)
(* the job queue and the worker that verifies what was uploaded            *)
(* (verification.ts, apps/workers).                                        *)
(*                                                                         *)
(* An asset has the id, the key and the file of the upload it came from,   *)
(* so one index serves uploads, multipart sessions, objects and assets.    *)
(* Each request and each job is a process that takes one step per          *)
(* database write, S3 call or transaction, and may crash between any two.  *)
(***************************************************************************)
EXTENDS ByteSets

CONSTANTS Ids,          \* upload ids newId() hands out
          Users,        \* people uploading into the workspace
          Files,        \* distinct (bytes, type) pairs somebody uploads
          Size,         \* Size[f]: bytes of file f
          Multipart,    \* files over SINGLE_UPLOAD_MAX_BYTES, sent in parts
          Genuine,      \* files whose first bytes match their declared type
          PartCount,    \* parts of a multipart upload
          Limit,        \* the workspace owner's storage limit
          MaxReceives,  \* deliveries before a job goes to the dead-letter queue
          Procs,        \* API requests being handled at once
          Workers,      \* jobs being run at once
          None

ASSUME SizeAssumption == Size \in [Files -> Nat \ {0}]
ASSUME LimitAssumption == Limit \in Nat
ASSUME MaxReceivesAssumption == MaxReceives \in Nat

VARIABLES uploads,   \* upload records (the `uploads` collection)
          session,   \* S3 multipart sessions
          parts,     \* S3: the parts each session holds
          object,    \* S3: the object at each upload's key
          assets,    \* status of asset records (the `assets` collection)
          used,      \* the owner's storageUsedBytes
          req,       \* what each API request is doing
          queue,     \* verifyAsset jobs in SQS, by asset id
          receives,  \* how often each job has been delivered
          dead,      \* jobs in the dead-letter queue
          job        \* what each worker is doing

s3 == <<session, parts, object>>
sqs == <<queue, receives, dead>>
vars == <<uploads, s3, assets, used, req, sqs, job>>

PartNumbers == 1 .. PartCount
NoParts == [n \in PartNumbers |-> "missing"]
Idle == [at |-> "idle", by |-> None, file |-> None, up |-> None]
Resting == [at |-> "idle", up |-> None]

-----------------------------------------------------------------------------
\* Helpers of the handlers.

Live(u) == assets[u] \in {"verifying", "ready"}

\* The partial unique index on (workspace, sha256) and the primary key.
Duplicate(u) == \/ assets[u] # "none"
                \/ \E v \in Ids : Live(v) /\ uploads[v].file = uploads[u].file

\* (Mutant: the total before the file is compared with the limit.)
FitsBefore(f) == used <= Limit

\* chargeStorage's condition, part of the update itself.
Fits(f) == used + Size[f] <= Limit

\* (Mutant: a rejected file's bytes are not given back.)
NotRefunded(f) == used

\* refundStorage never goes below zero.
Refunded(f) == IF used < Size[f] THEN 0 ELSE used - Size[f]

Single(u) == uploads[u].file \notin Multipart

\* (Mutant: the hash of a multipart upload is not computed.)
PassesUnhashed(u) == object[u] # "none" /\ uploads[u].file \in Genuine

\* What the worker looks at: the object, its type, and the hash S3 could not check.
Passes(u) == /\ object[u] # "none"
             /\ uploads[u].file \in Genuine
             /\ Single(u) \/ object[u] = "right"

\* (Mutant: the verdict is written whatever the asset's status.)
AlwaysUnjudged(u) == TRUE

\* The verdict's update only finds an asset nobody has judged yet.
Unjudged(u) == assets[u] = "verifying"

\* pendingUpload, which every request about an upload begins with.
Pending(u) == uploads[u].status = "pending"

\* (Mutant: the upload record is left pending.)
Unmarked(u, status) == uploads

\* updateOne on an upload record, which finds nothing once the TTL index has removed it.
WithStatus(u, status) == IF uploads[u].status = "expired" THEN uploads
                         ELSE [uploads EXCEPT ![u].status = status]

\* An id nothing was ever stored under.
Fresh(u) == /\ uploads[u].status = "none"
            /\ session[u] = "none"
            /\ \A p \in Procs : req[p].up # u

Resumable(user, f) == {u \in Ids : /\ uploads[u].status = "pending"
                                   /\ uploads[u].by = user
                                   /\ uploads[u].file = f}

Goto(p, step) == req' = [req EXCEPT ![p].at = step]
Respond(p) == req' = [req EXCEPT ![p] = Idle]

-----------------------------------------------------------------------------
Init ==
  /\ uploads = [u \in Ids |-> [status |-> "none", by |-> None, file |-> None]]
  /\ session = [u \in Ids |-> "none"]
  /\ parts = [u \in Ids |-> NoParts]
  /\ object = [u \in Ids |-> "none"]
  /\ assets = [u \in Ids |-> "none"]
  /\ used = 0
  /\ req = [p \in Procs |-> Idle]
  /\ queue = {} /\ receives = [u \in Ids |-> 0] /\ dead = {}
  /\ job = [w \in Workers |-> Resting]

-----------------------------------------------------------------------------
\* POST /api/uploads.  A file the workspace already has, or that does not fit, starts nothing.
InitCheck(p, user, f) ==
  /\ req[p] = Idle
  /\ ~ \E u \in Ids : Live(u) /\ uploads[u].file = f
  /\ Fits(f)
  /\ req' = [req EXCEPT ![p] = [at |-> "lookup", by |-> user, file |-> f, up |-> None]]
  /\ UNCHANGED <<uploads, s3, assets, used, sqs, job>>

\* The same person picking the same file again is given the upload that is still pending.
InitResume(p) ==
  /\ req[p].at = "lookup"
  /\ Resumable(req[p].by, req[p].file) # {}
  /\ Respond(p)
  /\ UNCHANGED <<uploads, s3, assets, used, sqs, job>>

\* Otherwise a new id is made and, for a big file, a multipart session started.
InitStart(p, u) ==
  /\ req[p].at = "lookup"
  /\ Resumable(req[p].by, req[p].file) = {}
  /\ Fresh(u)
  /\ req' = [req EXCEPT ![p].at = "insert", ![p].up = u]
  /\ session' = IF req[p].file \in Multipart THEN [session EXCEPT ![u] = "open"] ELSE session
  /\ UNCHANGED <<uploads, parts, object, assets, used, sqs, job>>

\* The record is written last; the response carries the signed URLs.
InitInsert(p) ==
  /\ req[p].at = "insert"
  /\ uploads' = [uploads EXCEPT ![req[p].up] =
                   [status |-> "pending", by |-> req[p].by, file |-> req[p].file]]
  /\ Respond(p)
  /\ UNCHANGED <<s3, assets, used, sqs, job>>

-----------------------------------------------------------------------------
\* S3, as the browser and the bucket's lifecycle rule use it.

\* A signed PUT.  S3 refuses any other bytes, and keeps accepting these after the upload is over.
PutObject(u) ==
  /\ uploads[u].status # "none"
  /\ Single(u)
  /\ object' = [object EXCEPT ![u] = "right"]
  /\ UNCHANGED <<uploads, session, parts, assets, used, req, sqs, job>>

\* A part's signed PUT fixes its size but not its bytes: the file may have changed since it was
\* hashed.
PutPart(u, n, bytes) ==
  /\ uploads[u].status # "none"
  /\ session[u] = "open"
  /\ parts[u][n] = "missing"
  /\ parts' = [parts EXCEPT ![u][n] = bytes]
  /\ UNCHANGED <<uploads, session, object, assets, used, req, sqs, job>>

\* A day passes: pendingUpload no longer finds the record and the TTL index removes it.
Expire(u) ==
  /\ Pending(u)
  /\ uploads' = [uploads EXCEPT ![u].status = "expired"]
  /\ UNCHANGED <<s3, assets, used, req, sqs, job>>

\* The bucket's lifecycle rule drops a multipart session nobody finished.
DropSession(u) ==
  /\ session[u] = "open"
  /\ uploads[u].status # "pending"
  /\ \A p \in Procs : req[p].up # u
  /\ session' = [session EXCEPT ![u] = "none"]
  /\ parts' = [parts EXCEPT ![u] = NoParts]
  /\ UNCHANGED <<uploads, object, assets, used, req, sqs, job>>

-----------------------------------------------------------------------------
\* POST /api/uploads/[id]/complete.

CompleteCheck(p, u) ==
  /\ req[p] = Idle
  /\ Pending(u)
  /\ req' = [req EXCEPT ![p] = [at |-> IF Single(u) THEN "head" ELSE "merge",
                                by |-> uploads[u].by, file |-> uploads[u].file, up |-> u]]
  /\ UNCHANGED <<uploads, s3, assets, used, sqs, job>>

\* listParts and completeMultipart: every part must be there, and the session still open.
CompleteMerge(p) ==
  LET u == req[p].up IN
  /\ req[p].at = "merge"
  /\ \/ /\ session[u] = "open" /\ \A n \in PartNumbers : parts[u][n] # "missing"
        /\ object' = [object EXCEPT ![u] =
                        IF \A n \in PartNumbers : parts[u][n] = "right" THEN "right" ELSE "wrong"]
        /\ session' = [session EXCEPT ![u] = "none"]
        /\ parts' = [parts EXCEPT ![u] = NoParts]
        /\ Goto(p, "head")
     \/ /\ session[u] = "none" \/ \E n \in PartNumbers : parts[u][n] = "missing"
        /\ Respond(p)
        /\ UNCHANGED s3
  /\ UNCHANGED <<uploads, assets, used, sqs, job>>

\* head: nothing there is an error; the size and the checksum are what the signatures allowed.
CompleteHead(p) ==
  /\ req[p].at = "head"
  /\ IF object[req[p].up] = "none" THEN Respond(p) ELSE Goto(p, "commit")
  /\ UNCHANGED <<uploads, s3, assets, used, sqs, job>>

\* The transaction: charge the owner, create the asset, mark the upload completed.
CompleteCommit(p) ==
  LET u == req[p].up IN
  /\ req[p].at = "commit"
  /\ Fits(uploads[u].file)
  /\ ~ Duplicate(u)
  /\ used' = used + Size[uploads[u].file]
  /\ assets' = [assets EXCEPT ![u] = "verifying"]
  /\ uploads' = WithStatus(u, "completed")
  /\ Goto(p, "enqueue")
  /\ UNCHANGED <<s3, sqs, job>>

\* No room, the workspace has this file by now, or the database fails: the transaction is rolled back
\* and this copy is dropped.
CompleteRollback(p) ==
  /\ req[p].at = "commit"
  /\ Goto(p, "discard")
  /\ UNCHANGED <<uploads, s3, assets, used, sqs, job>>

\* The route hands the new asset to the workers.
Enqueue(p) ==
  /\ req[p].at = "enqueue"
  /\ queue' = queue \cup {req[p].up}
  /\ Respond(p)
  /\ UNCHANGED <<uploads, s3, assets, used, receives, dead, job>>

\* discard: the object first, then the record.
DiscardRemove(p) ==
  /\ req[p].at = "discard"
  /\ object' = [object EXCEPT ![req[p].up] = "none"]
  /\ Goto(p, "mark")
  /\ UNCHANGED <<uploads, session, parts, assets, used, sqs, job>>

DiscardMark(p) ==
  /\ req[p].at = "mark"
  /\ uploads' = WithStatus(req[p].up, "aborted")
  /\ Respond(p)
  /\ UNCHANGED <<s3, assets, used, sqs, job>>

-----------------------------------------------------------------------------
\* DELETE /api/uploads/[id].

AbortCheck(p, u) ==
  /\ req[p] = Idle
  /\ Pending(u)
  /\ req' = [req EXCEPT ![p] = [at |-> IF Single(u) THEN "discard" ELSE "abortSession",
                                by |-> uploads[u].by, file |-> uploads[u].file, up |-> u]]
  /\ UNCHANGED <<uploads, s3, assets, used, sqs, job>>

\* abortMultipart tolerates a session that is already gone.
AbortSession(p) ==
  /\ req[p].at = "abortSession"
  /\ session' = [session EXCEPT ![req[p].up] = "none"]
  /\ parts' = [parts EXCEPT ![req[p].up] = NoParts]
  /\ Goto(p, "discard")
  /\ UNCHANGED <<uploads, object, assets, used, sqs, job>>

\* A request dies, or S3, MongoDB or SQS fails it, before its next step.
RequestCrash(p) ==
  /\ req[p] # Idle
  /\ Respond(p)
  /\ UNCHANGED <<uploads, s3, assets, used, sqs, job>>

-----------------------------------------------------------------------------
\* The verifyAsset job.  A message stays in the queue until its job has ended, and SQS may deliver
\* it again meanwhile.

Receive(w, u) ==
  /\ job[w] = Resting
  /\ u \in queue
  /\ receives[u] < MaxReceives
  /\ receives' = [receives EXCEPT ![u] = @ + 1]
  /\ job' = [job EXCEPT ![w] = [at |-> IF Unjudged(u) THEN "inspect" ELSE "ack",
                                up |-> u]]
  /\ UNCHANGED <<uploads, s3, assets, used, req, queue, dead>>

Inspect(w) ==
  /\ job[w].at = "inspect"
  /\ job' = [job EXCEPT ![w].at = IF Passes(job[w].up) THEN "approve" ELSE "remove"]
  /\ UNCHANGED <<uploads, s3, assets, used, req, sqs>>

Approve(w) ==
  LET u == job[w].up IN
  /\ job[w].at = "approve"
  /\ assets' = IF Unjudged(u) THEN [assets EXCEPT ![u] = "ready"] ELSE assets
  /\ job' = [job EXCEPT ![w].at = "ack"]
  /\ UNCHANGED <<uploads, s3, used, req, sqs>>

RejectRemove(w) ==
  /\ job[w].at = "remove"
  /\ object' = [object EXCEPT ![job[w].up] = "none"]
  /\ job' = [job EXCEPT ![w].at = "refund"]
  /\ UNCHANGED <<uploads, session, parts, assets, used, req, sqs>>

\* Conditional on the status, so a job delivered twice refunds once.
RejectRefund(w) ==
  LET u == job[w].up IN
  /\ job[w].at = "refund"
  /\ IF Unjudged(u)
       THEN /\ assets' = [assets EXCEPT ![u] = "rejected"]
            /\ used' = Refunded(uploads[u].file)
       ELSE UNCHANGED <<assets, used>>
  /\ job' = [job EXCEPT ![w].at = "ack"]
  /\ UNCHANGED <<uploads, s3, req, sqs>>

Ack(w) ==
  /\ job[w].at = "ack"
  /\ queue' = queue \ {job[w].up}
  /\ job' = [job EXCEPT ![w] = Resting]
  /\ UNCHANGED <<uploads, s3, assets, used, req, receives, dead>>

\* (Mutant: a failed job's message is deleted too.)
CrashAcks(w) ==
  /\ job[w] # Resting
  /\ queue' = queue \ {job[w].up}
  /\ job' = [job EXCEPT ![w] = Resting]
  /\ UNCHANGED <<uploads, s3, assets, used, req, receives, dead>>

\* The job throws or its worker dies: the message stays for another delivery.
JobCrash(w) ==
  /\ job[w] # Resting
  /\ job' = [job EXCEPT ![w] = Resting]
  /\ UNCHANGED <<uploads, s3, assets, used, req, sqs>>

\* The message becomes visible again after its last delivery.  The visibility timeout outlives
\* every worker.
DeadLetter(u) ==
  /\ u \in queue
  /\ receives[u] = MaxReceives
  /\ \A w \in Workers : job[w].up # u
  /\ queue' = queue \ {u}
  /\ dead' = dead \cup {u}
  /\ UNCHANGED <<uploads, s3, assets, used, req, receives, job>>

-----------------------------------------------------------------------------
InitStep(p) == \/ InitResume(p) \/ InitInsert(p)
               \/ \E u \in Ids : InitStart(p, u)
CompleteStep(p) == \/ CompleteMerge(p) \/ CompleteHead(p) \/ CompleteCommit(p)
                   \/ CompleteRollback(p) \/ Enqueue(p)
DiscardStep(p) == AbortSession(p) \/ DiscardRemove(p) \/ DiscardMark(p)
JobStep(w) == \/ Inspect(w) \/ Approve(w) \/ RejectRemove(w) \/ RejectRefund(w) \/ Ack(w)

Next ==
  \/ \E p \in Procs :
       \/ \E user \in Users, f \in Files : InitCheck(p, user, f)
       \/ \E u \in Ids : CompleteCheck(p, u) \/ AbortCheck(p, u)
       \/ InitStep(p) \/ CompleteStep(p) \/ DiscardStep(p)
       \/ RequestCrash(p)
  \/ \E w \in Workers : (\E u \in Ids : Receive(w, u)) \/ JobStep(w) \/ JobCrash(w)
  \/ \E u \in Ids :
       \/ PutObject(u) \/ Expire(u) \/ DropSession(u) \/ DeadLetter(u)
       \/ \E n \in PartNumbers, bytes \in {"right", "wrong"} : PutPart(u, n, bytes)

Spec == Init /\ [][Next]_vars

\* Lambda and the API server keep running what they began; nobody makes them crash, and nobody makes
\* a browser call.
Fairness ==
  /\ \A p \in Procs : WF_vars(InitStep(p) \/ CompleteStep(p) \/ DiscardStep(p))
  /\ \A w \in Workers : WF_vars(JobStep(w)) /\ \A u \in Ids : WF_vars(Receive(w, u))
  /\ \A u \in Ids : WF_vars(DeadLetter(u))

FairSpec == Spec /\ Fairness

-----------------------------------------------------------------------------
\* Properties.

\* The database's records: an upload that was started has its file, an asset its upload.
RecordsOK ==
  /\ uploads \in [Ids -> [status : {"none", "pending", "completed", "aborted", "expired"},
                         by : Users \cup {None}, file : Files \cup {None}]]
  /\ assets \in [Ids -> {"none", "verifying", "ready", "rejected"}]
  /\ used \in Nat
  /\ \A u \in Ids : uploads[u].status # "none" => /\ uploads[u].by \in Users
                                                  /\ uploads[u].file \in Files
  /\ \A u \in Ids : assets[u] # "none" => uploads[u].status # "none"

\* S3's sessions and objects.
StoreOK ==
  /\ session \in [Ids -> {"none", "open"}]
  /\ parts \in [Ids -> [PartNumbers -> {"missing", "right", "wrong"}]]
  /\ object \in [Ids -> {"none", "right", "wrong"}]

\* A request about to insert has an id nobody uses; one past its first check, an upload that exists.
Starting == {"lookup", "insert"}
Handling == {"merge", "head", "commit", "enqueue", "discard", "mark", "abortSession"}
RequestsOK ==
  /\ req \in [Procs -> [at : {"idle"} \cup Starting \cup Handling, by : Users \cup {None},
                        file : Files \cup {None}, up : Ids \cup {None}]]
  /\ \A p \in Procs :
       /\ req[p].at = "idle" => req[p] = Idle
       /\ req[p].at \in Starting => req[p].by \in Users /\ req[p].file \in Files
       /\ req[p].at = "insert" => req[p].up \in Ids /\ uploads[req[p].up].status = "none"
       /\ req[p].at \in Handling => req[p].up \in Ids /\ uploads[req[p].up].status # "none"
       /\ req[p].at = "enqueue" => assets[req[p].up] # "none"
  /\ \A p, q \in Procs : /\ req[p].at = "insert" /\ req[q].at = "insert"
                         /\ req[p].up = req[q].up
                         => p = q

\* Jobs are about assets that were created.
JobsOK ==
  /\ queue \in SUBSET Ids /\ dead \in SUBSET Ids
  /\ receives \in [Ids -> 0 .. MaxReceives]
  /\ job \in [Workers -> [at : {"idle", "inspect", "approve", "remove", "refund", "ack"},
                          up : Ids \cup {None}]]
  /\ \A u \in queue \cup dead : assets[u] # "none"
  /\ \A w \in Workers : IF job[w].at = "idle" THEN job[w] = Resting
                         ELSE job[w].up \in Ids /\ assets[job[w].up] # "none"

\* Every variable has its type, and requests, jobs and records refer to what exists.
TypeOK == RecordsOK /\ StoreOK /\ RequestsOK /\ JobsOK

\* What the owner is charged for: the bytes of the workspace's live files.
Held == [u \in Ids |-> IF Live(u) THEN Size[uploads[u].file] ELSE 0]

\* quota.ts: the stored counter is exactly the bytes of live files, whatever requests race, jobs are
\* delivered twice, and requests and workers die between their steps.
StorageConserved == used = TotalBytes(Held)

\* chargeStorage: "parallel uploads cannot both slip under the limit".
QuotaNeverExceeded == used <= Limit

\* verification.ts: a file is only ready when its bytes have the declared type and are the ones the
\* browser hashed; nothing that happens afterwards puts other bytes under its key.
ReadyIsGenuine ==
  \A u \in Ids : assets[u] = "ready" => uploads[u].file \in Genuine /\ object[u] # "wrong"

\* A file in use has its bytes: once ready, its object is never removed.  complete, abort and the
\* worker all delete objects on their failure paths; this says none of them hits a ready file.
ReadyHasObject == \A u \in Ids : assets[u] = "ready" => object[u] = "right"

\* discard: "Marks the upload finished without an asset, deleting whatever reached S3".
AbortedHasNoAsset == \A u \in Ids : uploads[u].status = "aborted" => ~ Live(u)

\* A verdict is final: redelivered or concurrent jobs never turn a ready file into a rejected one or
\* back, and complete never reopens one.
VerdictIsFinal ==
  [][\A u \in Ids : assets[u] \in {"ready", "rejected"} => assets'[u] = assets[u]]_vars

\* The protocol implements the account's ledger: every step charges one file that fits, gives back
\* one file's bytes, or leaves the account alone.
Ledger == INSTANCE Ledger WITH Assets <- Ids, held <- Held
LedgerSpec == Ledger!Spec

\* sqs.ts: a queued job is carried out, or ends up in the dead-letter queue for somebody to inspect.
JobSettles == \A u \in Ids : u \in queue ~> (assets[u] # "verifying" \/ u \in dead)

\* uploads.ts: "`complete` checks what landed in S3 and creates the asset, and a worker then verifies
\* the file's real type": no asset stays in verification unless its job is in the dead-letter queue.
AssetSettles == \A u \in Ids : assets[u] = "verifying" ~> (assets[u] # "verifying" \/ u \in dead)
=============================================================================
