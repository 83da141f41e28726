--------------------------- MODULE UploadsProofs ----------------------------
(***************************************************************************)
(* Theorems about Uploads, for any number of uploads, requests, workers    *)
(* and files of any size: the type invariant, conservation of the owner's  *)
(* storage counter, the quota, and the implementation of Ledger; a verdict *)
(* is final, and a file that passed has the bytes and the type that were   *)
(* declared, although its key can still be written to while it is          *)
(* inspected and afterwards; and, with one request at a time, a file that  *)
(* passed keeps its object.                                                *)
(***************************************************************************)
EXTENDS Uploads, ByteSetsProofs

USE SizeAssumption, LimitAssumption, MaxReceivesAssumption

\* The parts of the type invariant that concern requests and S3 are disturbed by requests, browsers
\* and jobs alike; each action is a case of its own.
LEMMA InitTypeOK == Init => TypeOK
BY DEF Init, TypeOK, RecordsOK, StoreOK, RequestsOK, JobsOK, Idle, Resting, NoParts, Starting, Handling

\* A request that goes on to its next step stays about the same upload.
LEMMA MoveOn ==
  ASSUME RequestsOK, NEW p \in Procs, NEW step \in Handling,
         req[p].at \in Handling, Goto(p, step),
         step = "enqueue" => assets'[req[p].up] # "none",
         \A u \in Ids : uploads'[u].status = "none" <=> uploads[u].status = "none",
         \A u \in Ids : assets[u] # "none" => assets'[u] # "none"
  PROVE  RequestsOK'
<1>1. req' \in [Procs -> [at : {"idle"} \cup Starting \cup Handling, by : Users \cup {None},
                         file : Files \cup {None}, up : Ids \cup {None}]]
  BY DEF RequestsOK, Goto
<1>2. \A q \in Procs : q # p => req'[q] = req[q]
  BY DEF RequestsOK, Goto
<1>3. req'[p].at = step /\ req'[p].up = req[p].up
  BY DEF RequestsOK, Goto
<1>4. req[p].up \in Ids /\ uploads[req[p].up].status # "none"
  BY DEF RequestsOK
<1>5. step \notin Starting \cup {"idle"}
  BY DEF Starting, Handling
<1>6. \A q \in Procs :
        /\ req'[q].at = "idle" => req'[q] = Idle
        /\ req'[q].at \in Starting => req'[q].by \in Users /\ req'[q].file \in Files
        /\ req'[q].at = "insert" => req'[q].up \in Ids /\ uploads'[req'[q].up].status = "none"
        /\ req'[q].at \in Handling => req'[q].up \in Ids /\ uploads'[req'[q].up].status # "none"
        /\ req'[q].at = "enqueue" => assets'[req'[q].up] # "none"
  <2>1. SUFFICES ASSUME NEW q \in Procs
                 PROVE  /\ req'[q].at = "idle" => req'[q] = Idle
                        /\ req'[q].at \in Starting => req'[q].by \in Users /\ req'[q].file \in Files
                        /\ req'[q].at = "insert" =>
                             req'[q].up \in Ids /\ uploads'[req'[q].up].status = "none"
                        /\ req'[q].at \in Handling =>
                             req'[q].up \in Ids /\ uploads'[req'[q].up].status # "none"
                        /\ req'[q].at = "enqueue" => assets'[req'[q].up] # "none"
    OBVIOUS
  <2>2. CASE q = p
    BY <1>3, <1>4, <1>5, <2>2 DEF Starting
  <2>3. CASE q # p
    BY <1>2, <2>3 DEF RequestsOK, Handling
  <2>4. QED BY <2>2, <2>3
<1>7. \A q, r \in Procs : /\ req'[q].at = "insert" /\ req'[r].at = "insert"
                         /\ req'[q].up = req'[r].up
                         => q = r
  BY <1>2, <1>3, <1>5 DEF RequestsOK, Starting
<1>8. QED BY <1>1, <1>6, <1>7 DEF RequestsOK, Idle

\* Marking a record changes its status, never whose upload of which file it is.
LEMMA MarkedRecords ==
  ASSUME RecordsOK, NEW u \in Ids, uploads[u].status # "none",
         NEW status \in {"completed", "aborted"}, uploads' = WithStatus(u, status)
  PROVE  /\ uploads' \in [Ids -> [status : {"none", "pending", "completed", "aborted", "expired"},
                                by : Users \cup {None}, file : Files \cup {None}]]
         /\ \A v \in Ids : /\ uploads'[v].status = "none" <=> uploads[v].status = "none"
                           /\ uploads'[v].by = uploads[v].by
                           /\ uploads'[v].file = uploads[v].file
<1>1. CASE uploads[u].status = "expired"
  BY <1>1 DEF RecordsOK, WithStatus
<1>2. CASE uploads[u].status # "expired"
  BY <1>2 DEF RecordsOK, WithStatus
<1>3. QED BY <1>1, <1>2

\* The first request of an upload only remembers who asks for which file.
LEMMA TypeInitCheck ==
  ASSUME TypeOK, NEW p \in Procs, NEW user \in Users, NEW f \in Files, InitCheck(p, user, f)
  PROVE  TypeOK'
<1>1. RecordsOK'
  BY DEF InitCheck, TypeOK, RecordsOK, s3, sqs
<1>2. StoreOK'
  BY DEF InitCheck, TypeOK, StoreOK, s3
<1>3. RequestsOK'
  BY DEF InitCheck, TypeOK, RequestsOK, Idle, Starting, Handling
<1>4. JobsOK'
  BY DEF InitCheck, TypeOK, JobsOK, sqs
<1>5. QED BY <1>1, <1>2, <1>3, <1>4 DEF TypeOK

\* Resuming ends the request.
LEMMA TypeInitResume ==
  ASSUME TypeOK, NEW p \in Procs, InitResume(p)
  PROVE  TypeOK'
<1>1. RecordsOK'
  BY DEF InitResume, TypeOK, RecordsOK, s3, sqs
<1>2. StoreOK'
  BY DEF InitResume, TypeOK, StoreOK, s3
<1>3. RequestsOK'
  BY DEF InitResume, TypeOK, RequestsOK, Idle, Starting, Handling, Respond
<1>4. JobsOK'
  BY DEF InitResume, TypeOK, JobsOK, sqs
<1>5. QED BY <1>1, <1>2, <1>3, <1>4 DEF TypeOK

\* Starting takes an id no record, session or request has.
LEMMA TypeInitStart ==
  ASSUME TypeOK, NEW p \in Procs, NEW u \in Ids, InitStart(p, u)
  PROVE  TypeOK'
<1>1. RecordsOK'
  BY DEF InitStart, TypeOK, RecordsOK, s3, sqs
<1>2. StoreOK'
  BY DEF InitStart, TypeOK, StoreOK, s3
<1>3. RequestsOK'
  BY DEF InitStart, TypeOK, RequestsOK, Idle, Starting, Handling, Fresh
<1>4. JobsOK'
  BY DEF InitStart, TypeOK, JobsOK, sqs
<1>5. QED BY <1>1, <1>2, <1>3, <1>4 DEF TypeOK

\* The inserted record is the one its request holds the id of.
LEMMA TypeInitInsert ==
  ASSUME TypeOK, NEW p \in Procs, InitInsert(p)
  PROVE  TypeOK'
<1>1. RecordsOK'
  BY DEF InitInsert, TypeOK, RecordsOK, s3, sqs, RequestsOK, Starting
<1>2. StoreOK'
  BY DEF InitInsert, TypeOK, StoreOK, s3
<1>3. RequestsOK'
  BY DEF InitInsert, TypeOK, RequestsOK, Idle, Starting, Handling, Respond, RecordsOK
<1>4. JobsOK'
  BY DEF InitInsert, TypeOK, JobsOK, sqs
<1>5. QED BY <1>1, <1>2, <1>3, <1>4 DEF TypeOK

\* A signed PUT leaves the right bytes.
LEMMA TypePutObject ==
  ASSUME TypeOK, NEW u \in Ids, PutObject(u)
  PROVE  TypeOK'
<1>1. RecordsOK'
  BY DEF PutObject, TypeOK, RecordsOK, s3, sqs
<1>2. StoreOK'
  BY DEF PutObject, TypeOK, StoreOK, s3
<1>3. RequestsOK'
  BY DEF PutObject, TypeOK, RequestsOK, Idle, Starting, Handling
<1>4. JobsOK'
  BY DEF PutObject, TypeOK, JobsOK, sqs
<1>5. QED BY <1>1, <1>2, <1>3, <1>4 DEF TypeOK

\* A part is right or wrong once it is sent.
LEMMA TypePutPart ==
  ASSUME TypeOK, NEW u \in Ids, NEW n \in PartNumbers, NEW bytes \in {"right", "wrong"}, PutPart(u, n, bytes)
  PROVE  TypeOK'
<1>1. RecordsOK'
  BY DEF PutPart, TypeOK, RecordsOK, s3, sqs
<1>2. StoreOK'
  BY DEF PutPart, TypeOK, StoreOK, s3
<1>3. RequestsOK'
  BY DEF PutPart, TypeOK, RequestsOK, Idle, Starting, Handling
<1>4. JobsOK'
  BY DEF PutPart, TypeOK, JobsOK, sqs
<1>5. QED BY <1>1, <1>2, <1>3, <1>4 DEF TypeOK

\* An expired upload still exists for the requests about it.
LEMMA TypeExpire ==
  ASSUME TypeOK, NEW u \in Ids, Expire(u)
  PROVE  TypeOK'
<1>1. RecordsOK'
  BY DEF Expire, TypeOK, RecordsOK, s3, sqs, Pending
<1>2. StoreOK'
  BY DEF Expire, TypeOK, StoreOK, s3
<1>3. RequestsOK'
  BY DEF Expire, TypeOK, RequestsOK, Idle, Starting, Handling, Pending
<1>4. JobsOK'
  BY DEF Expire, TypeOK, JobsOK, sqs
<1>5. QED BY <1>1, <1>2, <1>3, <1>4 DEF TypeOK

\* The lifecycle rule closes a session and forgets its parts.
LEMMA TypeDropSession ==
  ASSUME TypeOK, NEW u \in Ids, DropSession(u)
  PROVE  TypeOK'
<1>1. RecordsOK'
  BY DEF DropSession, TypeOK, RecordsOK, s3, sqs
<1>2. StoreOK'
  BY DEF DropSession, TypeOK, StoreOK, s3, NoParts
<1>3. RequestsOK'
  BY DEF DropSession, TypeOK, RequestsOK, Idle, Starting, Handling
<1>4. JobsOK'
  BY DEF DropSession, TypeOK, JobsOK, sqs
<1>5. QED BY <1>1, <1>2, <1>3, <1>4 DEF TypeOK

\* complete begins with a pending upload.
LEMMA TypeCompleteCheck ==
  ASSUME TypeOK, NEW p \in Procs, NEW u \in Ids, CompleteCheck(p, u)
  PROVE  TypeOK'
<1>1. RecordsOK'
  BY DEF CompleteCheck, TypeOK, RecordsOK, s3, sqs, Pending
<1>2. StoreOK'
  BY DEF CompleteCheck, TypeOK, StoreOK, s3
<1>3. RequestsOK'
  BY DEF CompleteCheck, TypeOK, RequestsOK, RecordsOK, Idle, Starting, Handling, Pending
<1>4. JobsOK'
  BY DEF CompleteCheck, TypeOK, JobsOK, sqs
<1>5. QED BY <1>1, <1>2, <1>3, <1>4 DEF TypeOK

\* Merging ends the session and moves the request on, or ends the request.
LEMMA TypeCompleteMerge ==
  ASSUME TypeOK, NEW p \in Procs, CompleteMerge(p)
  PROVE  TypeOK'
<1> DEFINE u == req[p].up
<1>1. RecordsOK' /\ JobsOK'
  BY DEF CompleteMerge, TypeOK, RecordsOK, JobsOK, s3, sqs
<1>2. CASE /\ object' = [object EXCEPT ![u] = IF \A n \in PartNumbers : parts[u][n] = "right"
                                              THEN "right" ELSE "wrong"]
           /\ session' = [session EXCEPT ![u] = "none"]
           /\ parts' = [parts EXCEPT ![u] = NoParts]
           /\ Goto(p, "head")
  <2>1. StoreOK'
    BY <1>2 DEF TypeOK, StoreOK, NoParts
  <2>2. RequestsOK'
    BY <1>2, MoveOn DEF CompleteMerge, TypeOK, Handling
  <2>3. QED BY <1>1, <2>1, <2>2 DEF TypeOK
<1>3. CASE Respond(p) /\ UNCHANGED s3
  <2>1. StoreOK'
    BY <1>3 DEF TypeOK, StoreOK, s3
  <2>2. RequestsOK'
    BY <1>3 DEF CompleteMerge, TypeOK, RequestsOK, Respond, Idle, Starting, Handling
  <2>3. QED BY <1>1, <2>1, <2>2 DEF TypeOK
<1>4. QED BY <1>2, <1>3 DEF CompleteMerge

\* The head check moves the request on, or ends it.
LEMMA TypeCompleteHead ==
  ASSUME TypeOK, NEW p \in Procs, CompleteHead(p)
  PROVE  TypeOK'
<1>1. RecordsOK' /\ StoreOK' /\ JobsOK'
  BY DEF CompleteHead, TypeOK, RecordsOK, StoreOK, JobsOK, s3, sqs
<1>2. CASE object[req[p].up] = "none"
  <2>1. Respond(p)
    BY <1>2 DEF CompleteHead
  <2>2. RequestsOK'
    BY <2>1 DEF CompleteHead, TypeOK, RequestsOK, Respond, Idle, Starting, Handling
  <2>3. QED BY <1>1, <2>2 DEF TypeOK
<1>3. CASE object[req[p].up] # "none"
  <2>1. RequestsOK'
    BY <1>3, MoveOn DEF CompleteHead, TypeOK, Handling
  <2>2. QED BY <1>1, <2>1 DEF TypeOK
<1>4. QED BY <1>2, <1>3

\* The transaction creates the asset the next step enqueues.
LEMMA TypeCompleteCommit ==
  ASSUME TypeOK, NEW p \in Procs, CompleteCommit(p)
  PROVE  TypeOK'
<1> DEFINE u == req[p].up
<1>1. u \in Ids /\ uploads[u].status # "none" /\ uploads[u].file \in Files
  BY DEF CompleteCommit, TypeOK, RequestsOK, RecordsOK, Handling
<1>2. /\ uploads' \in [Ids -> [status : {"none", "pending", "completed", "aborted", "expired"},
                             by : Users \cup {None}, file : Files \cup {None}]]
      /\ \A v \in Ids : /\ uploads'[v].status = "none" <=> uploads[v].status = "none"
                        /\ uploads'[v].by = uploads[v].by
                        /\ uploads'[v].file = uploads[v].file
  BY <1>1, MarkedRecords DEF CompleteCommit, TypeOK
<1>3. /\ assets' \in [Ids -> {"none", "verifying", "ready", "rejected"}]
      /\ assets'[u] = "verifying"
      /\ \A v \in Ids : v # u => assets'[v] = assets[v]
  BY <1>1 DEF CompleteCommit, TypeOK, RecordsOK
<1>4. used' \in Nat
  BY <1>1 DEF CompleteCommit, TypeOK, RecordsOK
<1>5. RecordsOK'
  BY <1>1, <1>2, <1>3, <1>4 DEF TypeOK, RecordsOK
<1>6. StoreOK'
  BY DEF CompleteCommit, TypeOK, StoreOK, s3
<1>7. RequestsOK'
  BY <1>2, <1>3, MoveOn DEF CompleteCommit, TypeOK, Handling
<1>8. JobsOK'
  BY <1>3 DEF CompleteCommit, TypeOK, JobsOK, sqs
<1>9. QED BY <1>5, <1>6, <1>7, <1>8 DEF TypeOK

\* A rolled-back transaction leaves its upload to be discarded.
LEMMA TypeCompleteRollback ==
  ASSUME TypeOK, NEW p \in Procs, CompleteRollback(p)
  PROVE  TypeOK'
<1>1. RecordsOK'
  BY DEF CompleteRollback, TypeOK, RecordsOK, RequestsOK, Handling, s3, sqs
<1>2. StoreOK'
  BY DEF CompleteRollback, TypeOK, StoreOK, RequestsOK, Handling, s3, sqs
<1>3. RequestsOK'
  BY MoveOn DEF CompleteRollback, TypeOK, RecordsOK, Handling
<1>4. JobsOK'
  BY DEF CompleteRollback, TypeOK, JobsOK, s3, sqs
<1>5. QED BY <1>1, <1>2, <1>3, <1>4 DEF TypeOK

\* What is enqueued is an asset that exists.
LEMMA TypeEnqueue ==
  ASSUME TypeOK, NEW p \in Procs, Enqueue(p)
  PROVE  TypeOK'
<1>1. RecordsOK'
  BY DEF Enqueue, TypeOK, RecordsOK, s3, sqs
<1>2. StoreOK'
  BY DEF Enqueue, TypeOK, StoreOK, s3
<1>3. RequestsOK'
  BY DEF Enqueue, TypeOK, RequestsOK, Idle, Starting, Handling, Respond
<1>4. JobsOK'
  BY DEF Enqueue, TypeOK, JobsOK, sqs, RequestsOK, Handling
<1>5. QED BY <1>1, <1>2, <1>3, <1>4 DEF TypeOK

\* Discarding removes the object before it marks the record.
LEMMA TypeDiscardRemove ==
  ASSUME TypeOK, NEW p \in Procs, DiscardRemove(p)
  PROVE  TypeOK'
<1>1. RecordsOK'
  BY DEF DiscardRemove, TypeOK, RecordsOK, RequestsOK, Handling, s3, sqs
<1>2. StoreOK'
  BY DEF DiscardRemove, TypeOK, StoreOK, RequestsOK, Handling, s3, sqs
<1>3. RequestsOK'
  BY MoveOn DEF DiscardRemove, TypeOK, RecordsOK, Handling
<1>4. JobsOK'
  BY DEF DiscardRemove, TypeOK, JobsOK, s3, sqs
<1>5. QED BY <1>1, <1>2, <1>3, <1>4 DEF TypeOK

\* Marking the record ends the request.
LEMMA TypeDiscardMark ==
  ASSUME TypeOK, NEW p \in Procs, DiscardMark(p)
  PROVE  TypeOK'
<1>1. req[p].up \in Ids /\ uploads[req[p].up].status # "none"
  BY DEF DiscardMark, TypeOK, RequestsOK, Handling
<1>2. /\ uploads' \in [Ids -> [status : {"none", "pending", "completed", "aborted", "expired"},
                             by : Users \cup {None}, file : Files \cup {None}]]
      /\ \A v \in Ids : /\ uploads'[v].status = "none" <=> uploads[v].status = "none"
                        /\ uploads'[v].by = uploads[v].by
                        /\ uploads'[v].file = uploads[v].file
  BY <1>1, MarkedRecords DEF DiscardMark, TypeOK
<1>3. RecordsOK'
  BY <1>2 DEF DiscardMark, TypeOK, RecordsOK
<1>4. StoreOK' /\ JobsOK'
  BY DEF DiscardMark, TypeOK, StoreOK, JobsOK, s3, sqs
<1>5. RequestsOK'
  BY <1>2 DEF DiscardMark, TypeOK, RequestsOK, Respond, Idle, Starting, Handling
<1>6. QED BY <1>3, <1>4, <1>5 DEF TypeOK

\* abort begins with a pending upload.
LEMMA TypeAbortCheck ==
  ASSUME TypeOK, NEW p \in Procs, NEW u \in Ids, AbortCheck(p, u)
  PROVE  TypeOK'
<1>1. RecordsOK'
  BY DEF AbortCheck, TypeOK, RecordsOK, s3, sqs, Pending
<1>2. StoreOK'
  BY DEF AbortCheck, TypeOK, StoreOK, s3
<1>3. RequestsOK'
  BY DEF AbortCheck, TypeOK, RequestsOK, RecordsOK, Idle, Starting, Handling, Pending
<1>4. JobsOK'
  BY DEF AbortCheck, TypeOK, JobsOK, sqs
<1>5. QED BY <1>1, <1>2, <1>3, <1>4 DEF TypeOK

\* Aborting the session moves on to the discard.
LEMMA TypeAbortSession ==
  ASSUME TypeOK, NEW p \in Procs, AbortSession(p)
  PROVE  TypeOK'
<1>1. RecordsOK'
  BY DEF AbortSession, TypeOK, RecordsOK, RequestsOK, Handling, s3, sqs
<1>2. StoreOK'
  BY DEF AbortSession, TypeOK, StoreOK, RequestsOK, Handling, s3, sqs, NoParts
<1>3. RequestsOK'
  BY MoveOn DEF AbortSession, TypeOK, RecordsOK, Handling
<1>4. JobsOK'
  BY DEF AbortSession, TypeOK, JobsOK, s3, sqs
<1>5. QED BY <1>1, <1>2, <1>3, <1>4 DEF TypeOK

\* A request that dies leaves every record as it was.
LEMMA TypeRequestCrash ==
  ASSUME TypeOK, NEW p \in Procs, RequestCrash(p)
  PROVE  TypeOK'
<1>1. RecordsOK'
  BY DEF RequestCrash, TypeOK, RecordsOK, s3, sqs
<1>2. StoreOK'
  BY DEF RequestCrash, TypeOK, StoreOK, s3
<1>3. RequestsOK'
  BY DEF RequestCrash, TypeOK, RequestsOK, Idle, Starting, Handling, Respond
<1>4. JobsOK'
  BY DEF RequestCrash, TypeOK, JobsOK, sqs
<1>5. QED BY <1>1, <1>2, <1>3, <1>4 DEF TypeOK

\* A delivered job is about an asset in the queue, and is counted.
LEMMA TypeReceive ==
  ASSUME TypeOK, NEW w \in Workers, NEW u \in Ids, Receive(w, u)
  PROVE  TypeOK'
<1>1. RecordsOK'
  BY DEF Receive, TypeOK, RecordsOK, s3, sqs
<1>2. StoreOK'
  BY DEF Receive, TypeOK, StoreOK, s3
<1>3. RequestsOK'
  BY DEF Receive, TypeOK, RequestsOK, Idle, Starting, Handling
<1>4. JobsOK'
  BY DEF Receive, TypeOK, JobsOK, sqs, Resting, Unjudged
<1>5. QED BY <1>1, <1>2, <1>3, <1>4 DEF TypeOK

\* Inspecting decides between approving and rejecting.
LEMMA TypeInspect ==
  ASSUME TypeOK, NEW w \in Workers, Inspect(w)
  PROVE  TypeOK'
<1>1. RecordsOK'
  BY DEF Inspect, TypeOK, RecordsOK, s3, sqs
<1>2. StoreOK'
  BY DEF Inspect, TypeOK, StoreOK, s3
<1>3. RequestsOK'
  BY DEF Inspect, TypeOK, RequestsOK, Idle, Starting, Handling
<1>4. JobsOK'
  BY DEF Inspect, TypeOK, JobsOK, sqs, Resting
<1>5. QED BY <1>1, <1>2, <1>3, <1>4 DEF TypeOK

\* Approving changes the status of an asset that exists.
LEMMA TypeApprove ==
  ASSUME TypeOK, NEW w \in Workers, Approve(w)
  PROVE  TypeOK'
<1>1. RecordsOK'
  BY DEF Approve, TypeOK, RecordsOK, s3, sqs, JobsOK, Unjudged
<1>2. StoreOK'
  BY DEF Approve, TypeOK, StoreOK, s3
<1>3. RequestsOK'
  BY DEF Approve, TypeOK, RequestsOK, Idle, Starting, Handling, Unjudged, RecordsOK
<1>4. JobsOK'
  BY DEF Approve, TypeOK, JobsOK, sqs, Resting, Unjudged, RecordsOK
<1>5. QED BY <1>1, <1>2, <1>3, <1>4 DEF TypeOK

\* Removing the bad object touches no record.
LEMMA TypeRejectRemove ==
  ASSUME TypeOK, NEW w \in Workers, RejectRemove(w)
  PROVE  TypeOK'
<1>1. RecordsOK'
  BY DEF RejectRemove, TypeOK, RecordsOK, s3, sqs
<1>2. StoreOK'
  BY DEF RejectRemove, TypeOK, StoreOK, s3, JobsOK
<1>3. RequestsOK'
  BY DEF RejectRemove, TypeOK, RequestsOK, Idle, Starting, Handling
<1>4. JobsOK'
  BY DEF RejectRemove, TypeOK, JobsOK, sqs, Resting
<1>5. QED BY <1>1, <1>2, <1>3, <1>4 DEF TypeOK

\* Rejecting changes an asset that exists and gives its bytes back.
LEMMA TypeRejectRefund ==
  ASSUME TypeOK, NEW w \in Workers, RejectRefund(w)
  PROVE  TypeOK'
<1> DEFINE u == job[w].up
<1>1. u \in Ids /\ assets[u] # "none" /\ uploads[u].file \in Files
  BY DEF RejectRefund, TypeOK, JobsOK, RecordsOK, Resting
<1>2. /\ assets' \in [Ids -> {"none", "verifying", "ready", "rejected"}]
      /\ \A v \in Ids : assets'[v] = "none" <=> assets[v] = "none"
  BY <1>1 DEF RejectRefund, TypeOK, RecordsOK, Unjudged
<1>3. used' \in Nat
  <2>1. Size[uploads[u].file] \in Nat
    BY <1>1
  <2>2. QED BY <2>1 DEF RejectRefund, Refunded, TypeOK, RecordsOK
<1>4. RecordsOK'
  BY <1>2, <1>3 DEF RejectRefund, TypeOK, RecordsOK
<1>5. StoreOK'
  BY DEF RejectRefund, TypeOK, StoreOK, s3
<1>6. RequestsOK'
  BY <1>2 DEF RejectRefund, TypeOK, RequestsOK, Handling
<1>7. JobsOK'
  BY <1>1, <1>2 DEF RejectRefund, TypeOK, JobsOK, Resting, sqs
<1>8. QED BY <1>4, <1>5, <1>6, <1>7 DEF TypeOK

\* Acknowledging takes the job off the queue.
LEMMA TypeAck ==
  ASSUME TypeOK, NEW w \in Workers, Ack(w)
  PROVE  TypeOK'
<1>1. RecordsOK'
  BY DEF Ack, TypeOK, RecordsOK, s3, sqs
<1>2. StoreOK'
  BY DEF Ack, TypeOK, StoreOK, s3
<1>3. RequestsOK'
  BY DEF Ack, TypeOK, RequestsOK, Idle, Starting, Handling
<1>4. JobsOK'
  BY DEF Ack, TypeOK, JobsOK, sqs, Resting
<1>5. QED BY <1>1, <1>2, <1>3, <1>4 DEF TypeOK

\* A job that dies leaves its message in the queue.
LEMMA TypeJobCrash ==
  ASSUME TypeOK, NEW w \in Workers, JobCrash(w)
  PROVE  TypeOK'
<1>1. RecordsOK'
  BY DEF JobCrash, TypeOK, RecordsOK, s3, sqs
<1>2. StoreOK'
  BY DEF JobCrash, TypeOK, StoreOK, s3
<1>3. RequestsOK'
  BY DEF JobCrash, TypeOK, RequestsOK, Idle, Starting, Handling
<1>4. JobsOK'
  BY DEF JobCrash, TypeOK, JobsOK, sqs, Resting
<1>5. QED BY <1>1, <1>2, <1>3, <1>4 DEF TypeOK

\* A message moves to the dead-letter queue as it is.
LEMMA TypeDeadLetter ==
  ASSUME TypeOK, NEW u \in Ids, DeadLetter(u)
  PROVE  TypeOK'
<1>1. RecordsOK'
  BY DEF DeadLetter, TypeOK, RecordsOK, s3, sqs
<1>2. StoreOK'
  BY DEF DeadLetter, TypeOK, StoreOK, s3
<1>3. RequestsOK'
  BY DEF DeadLetter, TypeOK, RequestsOK, Idle, Starting, Handling
<1>4. JobsOK'
  BY DEF DeadLetter, TypeOK, JobsOK, sqs, Resting
<1>5. QED BY <1>1, <1>2, <1>3, <1>4 DEF TypeOK

\* The type invariant is inductive.
LEMMA TypeStep == TypeOK /\ [Next]_vars => TypeOK'
<1> SUFFICES ASSUME TypeOK, [Next]_vars  PROVE TypeOK'
  OBVIOUS
<1>1. CASE \E p \in Procs :
             \/ \E user \in Users, f \in Files : InitCheck(p, user, f)
             \/ \E u \in Ids : CompleteCheck(p, u) \/ AbortCheck(p, u)
             \/ RequestCrash(p)
  BY <1>1, TypeInitCheck, TypeCompleteCheck, TypeAbortCheck, TypeRequestCrash
<1>2. CASE \E p \in Procs : InitStep(p)
  BY <1>2, TypeInitResume, TypeInitStart, TypeInitInsert DEF InitStep
<1>3. CASE \E p \in Procs : CompleteStep(p)
  BY <1>3, TypeCompleteMerge, TypeCompleteHead, TypeCompleteCommit, TypeCompleteRollback,
     TypeEnqueue
  DEF CompleteStep
<1>4. CASE \E p \in Procs : DiscardStep(p)
  BY <1>4, TypeAbortSession, TypeDiscardRemove, TypeDiscardMark DEF DiscardStep
<1>5. CASE \E w \in Workers : (\E u \in Ids : Receive(w, u)) \/ JobStep(w) \/ JobCrash(w)
  BY <1>5, TypeReceive, TypeInspect, TypeApprove, TypeRejectRemove, TypeRejectRefund, TypeAck,
     TypeJobCrash
  DEF JobStep
<1>6. CASE \E u \in Ids :
             \/ PutObject(u) \/ Expire(u) \/ DropSession(u) \/ DeadLetter(u)
             \/ \E n \in PartNumbers, bytes \in {"right", "wrong"} : PutPart(u, n, bytes)
  BY <1>6, TypePutObject, TypeExpire, TypeDropSession, TypeDeadLetter, TypePutPart
<1>7. CASE UNCHANGED vars
  BY <1>7 DEF vars, s3, sqs, TypeOK, RecordsOK, StoreOK, RequestsOK, JobsOK
<1>8. QED BY <1>1, <1>2, <1>3, <1>4, <1>5, <1>6, <1>7 DEF Next

\* Requests and jobs only ever refer to uploads and assets that exist, and every variable keeps its
\* type.
THEOREM TypeCorrect == Spec => []TypeOK
<1>1. QED BY InitTypeOK, TypeStep, PTL DEF Spec

-----------------------------------------------------------------------------
\* Each live file's size, 0 for the others, is a number.
LEMMA HeldType ==
  ASSUME TypeOK
  PROVE  Held \in [Ids -> Nat]
BY DEF Held, Live, TypeOK, RecordsOK

\* The inductive invariant: the counter equals the bytes of live files, a finite set no bigger than
\* the limit.
Accounted == /\ TypeOK
             /\ IsFiniteSet(Bytes(Held))
             /\ StorageConserved
             /\ QuotaNeverExceeded

\* Before anything is uploaded nothing is charged.
LEMMA InitAccounted == Init => Accounted
<1> SUFFICES ASSUME Init  PROVE Accounted
  OBVIOUS
<1>1. Bytes(Held) = {}
  BY DEF Init, Bytes, Held, Live
<1>2. IsFiniteSet(Bytes(Held)) /\ TotalBytes(Held) = 0
  BY <1>1, FS_EmptySet DEF TotalBytes
<1>3. QED BY <1>2, InitTypeOK DEF Init, Accounted, StorageConserved, QuotaNeverExceeded

\* A step that leaves the account alone: no asset is created or refused, and the files of uploads
\* that have an asset stay what they are.
SameAccount == /\ used' = used
               /\ \A u \in Ids : Live(u)' = Live(u)
               /\ \A u \in Ids : Live(u) => uploads'[u].file = uploads[u].file

\* Such a step charges and refunds nothing.
LEMMA SameHeld ==
  ASSUME SameAccount
  PROVE  Held' = Held
BY DEF SameAccount, Held

\* Inserting an upload record touches no live asset: an asset's upload already exists.
LEMMA InsertSame ==
  ASSUME TypeOK, NEW p \in Procs, InitInsert(p)
  PROVE  SameAccount
BY DEF InitInsert, SameAccount, Live, TypeOK, RequestsOK, RecordsOK

\* Marking an upload record leaves its file alone.
LEMMA MarkSame ==
  ASSUME TypeOK, NEW p \in Procs, DiscardMark(p)
  PROVE  SameAccount
BY DEF DiscardMark, WithStatus, SameAccount, Live, TypeOK, RequestsOK, RecordsOK, Handling

\* Neither does letting it expire.
LEMMA ExpireSame ==
  ASSUME TypeOK, NEW u \in Ids, Expire(u)
  PROVE  SameAccount
BY DEF Expire, SameAccount, Live, TypeOK, RecordsOK

\* A verdict that a file is good keeps it live.
LEMMA ApproveSame ==
  ASSUME TypeOK, NEW w \in Workers, Approve(w)
  PROVE  SameAccount
BY DEF Approve, Unjudged, SameAccount, Live, TypeOK, JobsOK, RecordsOK, Resting

\* complete's transaction takes in a file that fits.
LEMMA CommitCharges ==
  ASSUME TypeOK, NEW p \in Procs, CompleteCommit(p)
  PROVE  \E u \in Ids, n \in Nat \ {0} :
           /\ Held[u] = 0
           /\ used + n <= Limit /\ used' = used + n
           /\ Held' = [Held EXCEPT ![u] = n]
<1> DEFINE u == req[p].up
           n == Size[uploads[u].file]
<1>1. u \in Ids /\ uploads[u].status # "none" /\ uploads[u].file \in Files
  BY DEF CompleteCommit, TypeOK, RequestsOK, RecordsOK, Handling
<1>2. n \in Nat \ {0}
  BY <1>1
<1>3. ~ Live(u) /\ used + n <= Limit /\ used' = used + n
  BY <1>1 DEF CompleteCommit, Duplicate, Fits, Live
<1>4. \A v \in Ids : uploads'[v].file = uploads[v].file
  BY <1>1, MarkedRecords DEF CompleteCommit, TypeOK
<1>5. \A v \in Ids : Live(v)' = (v = u \/ Live(v))
  BY <1>1 DEF CompleteCommit, Live, TypeOK, RecordsOK
<1>6. Held[u] = 0
  BY <1>1, <1>3 DEF Held
<1>7. Held' = [Held EXCEPT ![u] = n]
  BY <1>1, <1>4, <1>5 DEF Held
<1>8. QED BY <1>1, <1>2, <1>3, <1>6, <1>7

\* A rejecting job gives one file's bytes back, or finds the verdict taken and does nothing.
LEMMA RejectRefunds ==
  ASSUME TypeOK, NEW w \in Workers, RejectRefund(w)
  PROVE  \/ SameAccount
         \/ \E u \in Ids : /\ Held[u] > 0
                           /\ used' = IF used < Held[u] THEN 0 ELSE used - Held[u]
                           /\ Held' = [Held EXCEPT ![u] = 0]
<1> DEFINE u == job[w].up
<1>1. u \in Ids /\ uploads[u].file \in Files
  BY DEF RejectRefund, TypeOK, JobsOK, RecordsOK, Resting
<1>2. CASE ~ Unjudged(u)
  BY <1>2 DEF RejectRefund, SameAccount, Live
<1>3. CASE Unjudged(u)
  <2>1. Held[u] = Size[uploads[u].file] /\ Held[u] > 0
    BY <1>1, <1>3 DEF Unjudged, Held, Live
  <2>2. used' = IF used < Held[u] THEN 0 ELSE used - Held[u]
    BY <1>3, <2>1 DEF RejectRefund, Refunded
  <2>3. \A v \in Ids : Live(v)' = (v # u /\ Live(v))
    BY <1>1, <1>3 DEF RejectRefund, Live, TypeOK, RecordsOK
  <2>4. Held' = [Held EXCEPT ![u] = 0]
    BY <1>1, <2>3 DEF Held, RejectRefund
  <2>5. QED BY <1>1, <2>1, <2>2, <2>4
<1>4. QED BY <1>2, <1>3

\* Every other step leaves assets, usage and upload records alone.
Bystander == UNCHANGED <<uploads, assets, used>>

\* Such a step leaves the account as it was.
LEMMA BystanderSame == Bystander => SameAccount
BY DEF Bystander, SameAccount, Live

\* What a step does to the account.
LEMMA AccountStep ==
  ASSUME TypeOK, [Next]_vars
  PROVE  \/ SameAccount
         \/ \E p \in Procs : CompleteCommit(p)
         \/ \E w \in Workers : RejectRefund(w)
<1>1. CASE \E p \in Procs :
             \/ \E user \in Users, f \in Files : InitCheck(p, user, f)
             \/ \E u \in Ids : CompleteCheck(p, u) \/ AbortCheck(p, u)
             \/ RequestCrash(p)
  <2>1. Bystander
    BY <1>1 DEF InitCheck, CompleteCheck, AbortCheck, RequestCrash, Bystander
  <2>2. QED BY <2>1, BystanderSame
<1>2. CASE \E p \in Procs : InitStep(p)
  <2>1. Bystander \/ \E p \in Procs : InitInsert(p)
    BY <1>2 DEF InitStep, InitResume, InitStart, Bystander
  <2>2. QED BY <2>1, BystanderSame, InsertSame
<1>3. CASE \E p \in Procs : CompleteStep(p)
  <2>1. Bystander \/ \E p \in Procs : CompleteCommit(p)
    BY <1>3 DEF CompleteStep, CompleteMerge, CompleteHead, CompleteRollback, Enqueue, Bystander
  <2>2. QED BY <2>1, BystanderSame
<1>4. CASE \E p \in Procs : DiscardStep(p)
  <2>1. Bystander \/ \E p \in Procs : DiscardMark(p)
    BY <1>4 DEF DiscardStep, AbortSession, DiscardRemove, Bystander
  <2>2. QED BY <2>1, BystanderSame, MarkSame
<1>5. CASE \E w \in Workers : (\E u \in Ids : Receive(w, u)) \/ JobStep(w) \/ JobCrash(w)
  <2>1. Bystander \/ \E w \in Workers : Approve(w) \/ RejectRefund(w)
    BY <1>5 DEF JobStep, Receive, Inspect, RejectRemove, Ack, JobCrash, Bystander
  <2>2. QED BY <2>1, BystanderSame, ApproveSame
<1>6. CASE \E u \in Ids :
             \/ PutObject(u) \/ Expire(u) \/ DropSession(u) \/ DeadLetter(u)
             \/ \E n \in PartNumbers, bytes \in {"right", "wrong"} : PutPart(u, n, bytes)
  <2>1. Bystander \/ \E u \in Ids : Expire(u)
    BY <1>6 DEF PutObject, DropSession, DeadLetter, PutPart, Bystander
  <2>2. QED BY <2>1, BystanderSame, ExpireSame
<1>7. CASE UNCHANGED vars
  BY <1>7, BystanderSame DEF vars, Bystander
<1>8. QED BY <1>1, <1>2, <1>3, <1>4, <1>5, <1>6, <1>7 DEF Next

\* The inductive step: charging and refunding move the counter and the live files together.
LEMMA AccountedStep == Accounted /\ [Next]_vars => Accounted'
<1> SUFFICES ASSUME Accounted, [Next]_vars  PROVE Accounted'
  OBVIOUS
<1>1. TypeOK'
  BY TypeStep DEF Accounted
<1>2. Held \in [Ids -> Nat] /\ IsFiniteSet(Bytes(Held)) /\ used = TotalBytes(Held) /\ used <= Limit
  BY HeldType DEF Accounted, StorageConserved, QuotaNeverExceeded
<1>3. CASE SameAccount
  <2>1. Held' = Held /\ used' = used
    BY <1>3, SameHeld DEF SameAccount
  <2>2. QED BY <1>1, <1>2, <2>1 DEF Accounted, StorageConserved, QuotaNeverExceeded
<1>4. CASE \E p \in Procs : CompleteCommit(p)
  <2>1. PICK u \in Ids, n \in Nat \ {0} : /\ Held[u] = 0
                                          /\ used + n <= Limit /\ used' = used + n
                                          /\ Held' = [Held EXCEPT ![u] = n]
    BY <1>4, CommitCharges DEF Accounted
  <2>2. IsFiniteSet(Bytes(Held')) /\ TotalBytes(Held') = TotalBytes(Held) + n
    BY <1>2, <2>1, ChargeTotal
  <2>3. QED BY <1>1, <1>2, <2>1, <2>2 DEF Accounted, StorageConserved, QuotaNeverExceeded
<1>5. CASE \E w \in Workers : RejectRefund(w)
  <2>1. CASE \E u \in Ids : /\ Held[u] > 0
                            /\ used' = IF used < Held[u] THEN 0 ELSE used - Held[u]
                            /\ Held' = [Held EXCEPT ![u] = 0]
    <3>1. PICK u \in Ids : /\ Held[u] > 0
                           /\ used' = IF used < Held[u] THEN 0 ELSE used - Held[u]
                           /\ Held' = [Held EXCEPT ![u] = 0]
      BY <2>1
    <3>2. /\ IsFiniteSet(Bytes(Held')) /\ TotalBytes(Held') \in Nat
          /\ TotalBytes(Held) = TotalBytes(Held') + Held[u]
      BY <1>2, <3>1, RefundTotal
    <3>3. used' = TotalBytes(Held') /\ used' <= Limit
      BY <1>2, <3>1, <3>2
    <3>4. QED BY <1>1, <3>2, <3>3 DEF Accounted, StorageConserved, QuotaNeverExceeded
  <2>2. QED BY <1>3, <1>5, <2>1, RejectRefunds DEF Accounted
<1>6. QED BY <1>3, <1>4, <1>5, AccountStep DEF Accounted

\* The accounting invariant of every run of the protocol.
THEOREM AlwaysAccounted == Spec => []Accounted
<1>1. QED BY InitAccounted, AccountedStep, PTL DEF Spec

\* The owner's counter is exactly the bytes of the workspace's live files, however requests race, jobs
\* repeat and processes die.
THEOREM StorageIsConserved == Spec => []StorageConserved
<1>1. Accounted => StorageConserved
  BY DEF Accounted
<1>2. QED BY <1>1, AlwaysAccounted, PTL

\* Parallel uploads cannot both slip under the limit.
THEOREM QuotaHolds == Spec => []QuotaNeverExceeded
<1>1. Accounted => QuotaNeverExceeded
  BY DEF Accounted
<1>2. QED BY <1>1, AlwaysAccounted, PTL

-----------------------------------------------------------------------------
\* The ledger starts empty.
LEMMA InitImplements == Init => Ledger!Init
BY DEF Init, Ledger!Init, Held, Live

\* The ledger counts bytes as this module does.
LEMMA SameTotal ==
  ASSUME NEW h
  PROVE  Ledger!TotalBytes(h) = TotalBytes(h)
BY DEF Ledger!TotalBytes, TotalBytes, Ledger!Bytes, Bytes, Ledger!Cardinality, Cardinality

\* Every step of the protocol is a charge, a refund of one file, or a stutter of the ledger.
LEMMA StepImplements == Accounted /\ [Next]_vars => [Ledger!Next]_(Ledger!vars)
<1> SUFFICES ASSUME Accounted, [Next]_vars  PROVE [Ledger!Next]_(Ledger!vars)
  OBVIOUS
<1>1. Held \in [Ids -> Nat] /\ IsFiniteSet(Bytes(Held)) /\ used = TotalBytes(Held) /\ used \in Nat
  BY HeldType DEF Accounted, StorageConserved, TypeOK, RecordsOK
<1>2. CASE SameAccount
  BY <1>2, SameHeld DEF SameAccount, Ledger!vars
<1>3. CASE \E p \in Procs : CompleteCommit(p)
  <2>1. PICK u \in Ids, n \in Nat \ {0} : /\ Held[u] = 0
                                          /\ used + n <= Limit /\ used' = used + n
                                          /\ Held' = [Held EXCEPT ![u] = n]
    BY <1>3, CommitCharges DEF Accounted
  <2>2. n \in 1 .. Limit
    BY <1>1, <2>1
  <2>3. Ledger!Charge(u, n)
    BY <2>1 DEF Ledger!Charge
  <2>4. QED BY <2>2, <2>3 DEF Ledger!Next
<1>4. CASE \E w \in Workers : RejectRefund(w)
  <2>1. CASE \E u \in Ids : /\ Held[u] > 0
                            /\ used' = IF used < Held[u] THEN 0 ELSE used - Held[u]
                            /\ Held' = [Held EXCEPT ![u] = 0]
    <3>1. PICK u \in Ids : /\ Held[u] > 0
                           /\ used' = IF used < Held[u] THEN 0 ELSE used - Held[u]
                           /\ Held' = [Held EXCEPT ![u] = 0]
      BY <2>1
    <3>2. TotalBytes([Held EXCEPT ![u] = 0]) \in Nat
          /\ TotalBytes(Held) = TotalBytes([Held EXCEPT ![u] = 0]) + Held[u]
      BY <1>1, RefundTotal
    <3>3. used' = used - Held[u]
      BY <1>1, <3>1, <3>2
    <3>4. [a \in {u} |-> Held[a]] = [a \in {u} |-> Held[u]]
      OBVIOUS
    <3>5. TotalBytes([a \in {u} |-> Held[u]]) = Held[u]
      BY <1>1, OneFileTotal
    <3>6. used' = used - Ledger!TotalBytes([a \in {u} |-> Held[a]])
      BY <3>3, <3>4, <3>5, SameTotal
    <3>7. Held' = [a \in Ids |-> IF a \in {u} THEN 0 ELSE Held[a]]
      BY <1>1, <3>1
    <3>8. Ledger!Refund({u})
      BY <3>1, <3>6, <3>7 DEF Ledger!Refund
    <3>9. QED BY <3>8 DEF Ledger!Next
  <2>2. QED BY <1>2, <1>4, <2>1, RejectRefunds DEF Accounted
<1>5. QED BY <1>2, <1>3, <1>4, AccountStep DEF Accounted

\* The upload protocol implements the account's ledger: files are charged only when they fit and
\* refunded once.
THEOREM ImplementsLedger == Spec => LedgerSpec
<1>1. QED BY InitImplements, StepImplements, AlwaysAccounted, PTL DEF Spec, LedgerSpec, Ledger!Spec

-----------------------------------------------------------------------------
\* The verdicts of the worker.

\* The steps of complete that follow the merge of a multipart upload.
Merged == {"head", "commit", "enqueue"}

\* A file put together wrongly is a multipart upload whose session is over.
WrongIsMerged ==
  \A u \in Ids : object[u] = "wrong" => /\ uploads[u].status # "none"
                                        /\ ~ Single(u) /\ session[u] = "none"

\* A request past the merge, and an asset, have no session left that could be merged again.
SessionsOver ==
  /\ \A p \in Procs : /\ req[p].at = "merge" => ~ Single(req[p].up)
                      /\ req[p].at \in Merged => Single(req[p].up) \/ session[req[p].up] = "none"
  /\ \A u \in Ids : assets[u] # "none" => Single(u) \/ session[u] = "none"

\* A job about to approve a file found it genuine.
ApprovalsSound ==
  \A w \in Workers : job[w].at = "approve" => /\ uploads[job[w].up].file \in Genuine
                                              /\ object[job[w].up] # "wrong"

\* The inductive invariant behind ReadyIsGenuine.
Sound == TypeOK /\ WrongIsMerged /\ SessionsOver /\ ApprovalsSound /\ ReadyIsGenuine

\* Nothing is uploaded or judged at first.
LEMMA InitSound == Init => Sound
BY InitTypeOK DEF Init, Sound, WrongIsMerged, SessionsOver, ApprovalsSound, ReadyIsGenuine, Merged,
  Idle, Resting

-----------------------------------------------------------------------------
\* What a step may do to each part of the state.

\* An upload that exists keeps its file.
LEMMA FileStays ==
  ASSUME TypeOK, [Next]_vars, NEW u \in Ids, uploads[u].status # "none"
  PROVE  uploads'[u].status # "none" /\ uploads'[u].file = uploads[u].file
<1>1. CASE UNCHANGED uploads
  BY <1>1
<1>2. CASE \E p \in Procs : InitInsert(p)
  BY <1>2 DEF InitInsert, TypeOK, RequestsOK, RecordsOK
<1>3. CASE \E v \in Ids : Expire(v)
  BY <1>3 DEF Expire, TypeOK, RecordsOK
<1>4. CASE \E p \in Procs : CompleteCommit(p) \/ DiscardMark(p)
  <2>1. PICK p \in Procs, status \in {"completed", "aborted"} :
          req[p].at \in Handling /\ uploads' = WithStatus(req[p].up, status)
    BY <1>4 DEF CompleteCommit, DiscardMark, Handling
  <2>2. req[p].up \in Ids /\ uploads[req[p].up].status # "none"
    BY <2>1 DEF TypeOK, RequestsOK
  <2>3. QED BY <2>1, <2>2, MarkedRecords DEF TypeOK
<1>5. \/ UNCHANGED uploads \/ (\E v \in Ids : Expire(v))
      \/ \E p \in Procs : InitInsert(p) \/ CompleteCommit(p) \/ DiscardMark(p)
  <2>1. CASE \E p \in Procs :
               \/ \E user \in Users, f \in Files : InitCheck(p, user, f)
               \/ \E v \in Ids : CompleteCheck(p, v) \/ AbortCheck(p, v)
               \/ InitStep(p) \/ CompleteStep(p) \/ DiscardStep(p)
               \/ RequestCrash(p)
    BY <2>1 DEF InitCheck, CompleteCheck, AbortCheck, RequestCrash, InitStep, InitResume, InitStart,
      CompleteStep, CompleteMerge, CompleteHead, CompleteRollback, Enqueue,
      DiscardStep, AbortSession, DiscardRemove
  <2>2. CASE \E w \in Workers : (\E v \in Ids : Receive(w, v)) \/ JobStep(w) \/ JobCrash(w)
    BY <2>2 DEF JobStep, Receive, Inspect, Approve, RejectRemove, RejectRefund, Ack, JobCrash
  <2>3. CASE \E v \in Ids :
               \/ PutObject(v) \/ Expire(v) \/ DropSession(v) \/ DeadLetter(v)
               \/ \E n \in PartNumbers, bytes \in {"right", "wrong"} : PutPart(v, n, bytes)
    BY <2>3 DEF PutObject, DropSession, DeadLetter, PutPart
  <2>4. CASE UNCHANGED vars
    BY <2>4 DEF vars
  <2>5. QED BY <2>1, <2>2, <2>3, <2>4 DEF Next
<1>6. QED BY <1>1, <1>2, <1>3, <1>4, <1>5

\* A session that is over is only opened again for an upload that does not exist yet.
LEMMA SessionStays ==
  ASSUME TypeOK, [Next]_vars, NEW u \in Ids, uploads[u].status # "none", session[u] = "none"
  PROVE  session'[u] = "none"
<1>1. CASE \E p \in Procs :
             \/ \E user \in Users, f \in Files : InitCheck(p, user, f)
             \/ \E v \in Ids : CompleteCheck(p, v) \/ AbortCheck(p, v)
             \/ RequestCrash(p)
  BY <1>1 DEF InitCheck, CompleteCheck, AbortCheck, RequestCrash, s3
<1>2. CASE \E p \in Procs : InitStep(p)
  BY <1>2 DEF InitStep, InitResume, InitStart, InitInsert, Fresh, TypeOK, StoreOK, s3
<1>3. CASE \E p \in Procs : CompleteStep(p)
  <2>1. UNCHANGED session \/ \E v \in Ids : session' = [session EXCEPT ![v] = "none"]
    BY <1>3 DEF CompleteStep, CompleteMerge, CompleteHead, CompleteCommit, CompleteRollback, Enqueue,
      TypeOK, RequestsOK, Handling, s3
  <2>2. QED BY <2>1 DEF TypeOK, StoreOK
<1>4. CASE \E p \in Procs : DiscardStep(p)
  <2>1. UNCHANGED session \/ \E v \in Ids : session' = [session EXCEPT ![v] = "none"]
    BY <1>4 DEF DiscardStep, AbortSession, DiscardRemove, DiscardMark, TypeOK, RequestsOK, Handling, s3
  <2>2. QED BY <2>1 DEF TypeOK, StoreOK
<1>5. CASE \E w \in Workers : (\E v \in Ids : Receive(w, v)) \/ JobStep(w) \/ JobCrash(w)
  BY <1>5 DEF JobStep, Receive, Inspect, Approve, RejectRemove, RejectRefund, Ack, JobCrash, s3
<1>6. CASE \E v \in Ids :
             \/ PutObject(v) \/ Expire(v) \/ DropSession(v) \/ DeadLetter(v)
             \/ \E n \in PartNumbers, bytes \in {"right", "wrong"} : PutPart(v, n, bytes)
  BY <1>6 DEF PutObject, Expire, DropSession, DeadLetter, PutPart, TypeOK, StoreOK, s3
<1>7. CASE UNCHANGED vars
  BY <1>7 DEF vars, s3
<1>8. QED BY <1>1, <1>2, <1>3, <1>4, <1>5, <1>6, <1>7 DEF Next

\* An object only becomes wrong when a session is merged, which ends it.
LEMMA WrongByMerge ==
  ASSUME TypeOK, [Next]_vars, NEW u \in Ids, object'[u] = "wrong"
  PROVE  \/ object[u] = "wrong"
         \/ /\ session[u] = "open" /\ session'[u] = "none"
            /\ \E p \in Procs : req[p].at = "merge" /\ req[p].up = u
<1>1. CASE \E p \in Procs :
             \/ \E user \in Users, f \in Files : InitCheck(p, user, f)
             \/ \E v \in Ids : CompleteCheck(p, v) \/ AbortCheck(p, v)
             \/ InitStep(p) \/ RequestCrash(p)
  BY <1>1 DEF InitCheck, CompleteCheck, AbortCheck, RequestCrash, InitStep, InitResume, InitStart,
    InitInsert, s3
<1>2. CASE \E p \in Procs : CompleteStep(p)
  <2>1. CASE UNCHANGED object
    BY <2>1
  <2>2. CASE \E p \in Procs : /\ req[p].at = "merge" /\ session[req[p].up] = "open"
                              /\ session' = [session EXCEPT ![req[p].up] = "none"]
                              /\ \E bytes : object' = [object EXCEPT ![req[p].up] = bytes]
    BY <2>2 DEF TypeOK, StoreOK
  <2>3. QED BY <1>2, <2>1, <2>2
    DEF CompleteStep, CompleteMerge, CompleteHead, CompleteCommit, CompleteRollback, Enqueue, s3
<1>3. CASE \E p \in Procs : DiscardStep(p)
  BY <1>3 DEF DiscardStep, AbortSession, DiscardRemove, DiscardMark, TypeOK, StoreOK, s3
<1>4. CASE \E w \in Workers : (\E v \in Ids : Receive(w, v)) \/ JobStep(w) \/ JobCrash(w)
  BY <1>4 DEF JobStep, Receive, Inspect, Approve, RejectRemove, RejectRefund, Ack, JobCrash,
    TypeOK, StoreOK, s3
<1>5. CASE \E v \in Ids :
             \/ PutObject(v) \/ Expire(v) \/ DropSession(v) \/ DeadLetter(v)
             \/ \E n \in PartNumbers, bytes \in {"right", "wrong"} : PutPart(v, n, bytes)
  BY <1>5 DEF PutObject, Expire, DropSession, DeadLetter, PutPart, TypeOK, StoreOK, s3
<1>6. CASE UNCHANGED vars
  BY <1>6 DEF vars, s3
<1>7. QED BY <1>1, <1>2, <1>3, <1>4, <1>5, <1>6 DEF Next

\* An asset only appears when its upload is committed, and is only made ready by a job that approves it.
LEMMA AssetsByCommit ==
  ASSUME TypeOK, [Next]_vars, NEW u \in Ids
  PROVE  /\ assets'[u] # "none" => \/ assets[u] # "none"
                                   \/ \E p \in Procs : req[p].at = "commit" /\ req[p].up = u
         /\ assets'[u] = "ready" => \/ assets[u] = "ready"
                                    \/ \E w \in Workers : job[w].at = "approve" /\ job[w].up = u
         /\ assets[u] \in {"ready", "rejected"} => assets'[u] = assets[u]
<1>1. CASE \E p \in Procs :
             \/ \E user \in Users, f \in Files : InitCheck(p, user, f)
             \/ \E v \in Ids : CompleteCheck(p, v) \/ AbortCheck(p, v)
             \/ InitStep(p) \/ DiscardStep(p) \/ RequestCrash(p)
  BY <1>1 DEF InitCheck, CompleteCheck, AbortCheck, RequestCrash, InitStep, InitResume, InitStart,
    InitInsert, DiscardStep, AbortSession, DiscardRemove, DiscardMark
<1>2. CASE \E p \in Procs : CompleteStep(p)
  <2>1. CASE UNCHANGED assets
    BY <2>1
  <2>2. CASE \E p \in Procs : CompleteCommit(p)
    BY <2>2 DEF CompleteCommit, Duplicate, TypeOK, RecordsOK
  <2>3. QED BY <1>2, <2>1, <2>2 DEF CompleteStep, CompleteMerge, CompleteHead, CompleteRollback, Enqueue
<1>3. CASE \E w \in Workers : (\E v \in Ids : Receive(w, v)) \/ JobStep(w) \/ JobCrash(w)
  <2>1. CASE UNCHANGED assets
    BY <2>1
  <2>2. CASE \E w \in Workers : Approve(w) \/ RejectRefund(w)
    BY <2>2 DEF Approve, RejectRefund, Unjudged, TypeOK, RecordsOK
  <2>3. QED BY <1>3, <2>1, <2>2 DEF JobStep, Receive, Inspect, RejectRemove, Ack, JobCrash
<1>4. CASE \E v \in Ids :
             \/ PutObject(v) \/ Expire(v) \/ DropSession(v) \/ DeadLetter(v)
             \/ \E n \in PartNumbers, bytes \in {"right", "wrong"} : PutPart(v, n, bytes)
  BY <1>4 DEF PutObject, Expire, DropSession, DeadLetter, PutPart
<1>5. CASE UNCHANGED vars
  BY <1>5 DEF vars
<1>6. QED BY <1>1, <1>2, <1>3, <1>4, <1>5 DEF Next

\* A request reaches the merge with a multipart upload, and gets past it with a plain one or by ending
\* the session.
LEMMA MergedRequest ==
  ASSUME TypeOK, [Next]_vars, NEW p \in Procs
  PROVE  /\ req'[p].at = "merge" => req'[p] = req[p] \/ ~ Single(req'[p].up)
         /\ req'[p].at \in Merged => \/ Single(req'[p].up) \/ session'[req'[p].up] = "none"
                                     \/ req[p].at \in Merged /\ req[p].up = req'[p].up
         /\ req'[p].at \in Merged \cup {"merge"} => /\ req'[p].up \in Ids
                                                    /\ uploads[req'[p].up].status # "none"
<1>1. CASE req'[p] = req[p]
  BY <1>1 DEF TypeOK, RequestsOK, Handling, Merged
<1>2. CASE req'[p].at \notin Merged \cup {"merge"}
  BY <1>2
<1>3. CASE \E v \in Ids : CompleteCheck(p, v)
  BY <1>3 DEF CompleteCheck, Pending, TypeOK, RequestsOK, Merged
<1>4. CASE CompleteMerge(p)
  BY <1>4 DEF CompleteMerge, Goto, Respond, Idle, TypeOK, RequestsOK, StoreOK, Handling, Merged
<1>5. CASE CompleteHead(p) \/ CompleteCommit(p)
  BY <1>5 DEF CompleteHead, CompleteCommit, Goto, Respond, Idle, TypeOK, RequestsOK, Handling, Merged
<1>6. \/ req'[p] = req[p] \/ req'[p].at \notin Merged \cup {"merge"}
      \/ (\E v \in Ids : CompleteCheck(p, v)) \/ CompleteMerge(p) \/ CompleteHead(p) \/ CompleteCommit(p)
  <2>1. ASSUME NEW q \in Procs,
               \/ \E user \in Users, f \in Files : InitCheck(q, user, f)
               \/ \E v \in Ids : CompleteCheck(q, v) \/ AbortCheck(q, v)
               \/ InitStep(q) \/ CompleteStep(q) \/ DiscardStep(q) \/ RequestCrash(q),
               q # p
        PROVE  req'[p] = req[p]
    BY <2>1 DEF InitCheck, CompleteCheck, AbortCheck, RequestCrash, InitStep, InitResume, InitStart,
      InitInsert, CompleteStep, CompleteMerge, CompleteHead, CompleteCommit, CompleteRollback, Enqueue,
      DiscardStep, AbortSession, DiscardRemove, DiscardMark, Goto, Respond, TypeOK, RequestsOK
  <2>2. CASE \/ \E user \in Users, f \in Files : InitCheck(p, user, f)
             \/ \E v \in Ids : AbortCheck(p, v)
             \/ InitStep(p) \/ DiscardStep(p) \/ RequestCrash(p) \/ CompleteRollback(p) \/ Enqueue(p)
    BY <2>2 DEF InitCheck, AbortCheck, RequestCrash, InitStep, InitResume, InitStart, InitInsert,
      DiscardStep, AbortSession, DiscardRemove, DiscardMark, CompleteRollback, Enqueue, Goto, Respond,
      Idle, TypeOK, RequestsOK, Merged
  <2>3. CASE CompleteStep(p)
    BY <2>2, <2>3 DEF CompleteStep
  <2>4. CASE \E w \in Workers : (\E v \in Ids : Receive(w, v)) \/ JobStep(w) \/ JobCrash(w)
    BY <2>4 DEF JobStep, Receive, Inspect, Approve, RejectRemove, RejectRefund, Ack, JobCrash
  <2>5. CASE \E v \in Ids :
               \/ PutObject(v) \/ Expire(v) \/ DropSession(v) \/ DeadLetter(v)
               \/ \E n \in PartNumbers, bytes \in {"right", "wrong"} : PutPart(v, n, bytes)
    BY <2>5 DEF PutObject, Expire, DropSession, DeadLetter, PutPart
  <2>6. CASE UNCHANGED vars
    BY <2>6 DEF vars
  <2>7. QED BY <2>1, <2>2, <2>3, <2>4, <2>5, <2>6 DEF Next
<1>7. QED BY <1>1, <1>2, <1>3, <1>4, <1>5, <1>6

\* A job only gets to approving a file by finding it good.
LEMMA ApprovingJob ==
  ASSUME TypeOK, [Next]_vars, NEW w \in Workers, job'[w].at = "approve"
  PROVE  \/ job'[w] = job[w]
         \/ /\ job'[w].up = job[w].up /\ Passes(job[w].up) /\ job[w].at = "inspect"
            /\ UNCHANGED <<uploads, object>>
<1>1. CASE \E x \in Workers : (\E v \in Ids : Receive(x, v)) \/ JobStep(x) \/ JobCrash(x)
  <2>1. PICK x \in Workers : (\E v \in Ids : Receive(x, v)) \/ JobStep(x) \/ JobCrash(x)
    BY <1>1
  <2>2. CASE x # w
    BY <2>1, <2>2 DEF JobStep, Receive, Inspect, Approve, RejectRemove, RejectRefund, Ack, JobCrash,
      TypeOK, JobsOK
  <2>3. CASE x = w /\ Inspect(x)
    BY <2>3 DEF Inspect, TypeOK, JobsOK, s3
  <2>4. CASE x = w /\ ~ Inspect(x)
    BY <2>1, <2>4 DEF JobStep, Receive, Approve, RejectRemove, RejectRefund, Ack, JobCrash, Resting,
      TypeOK, JobsOK
  <2>5. QED BY <2>2, <2>3, <2>4
<1>2. CASE \E p \in Procs :
             \/ \E user \in Users, f \in Files : InitCheck(p, user, f)
             \/ \E v \in Ids : CompleteCheck(p, v) \/ AbortCheck(p, v)
             \/ InitStep(p) \/ CompleteStep(p) \/ DiscardStep(p) \/ RequestCrash(p)
  BY <1>2 DEF InitCheck, CompleteCheck, AbortCheck, RequestCrash, InitStep, InitResume, InitStart,
    InitInsert, CompleteStep, CompleteMerge, CompleteHead, CompleteCommit, CompleteRollback, Enqueue,
    DiscardStep, AbortSession, DiscardRemove, DiscardMark
<1>3. CASE \E v \in Ids :
             \/ PutObject(v) \/ Expire(v) \/ DropSession(v) \/ DeadLetter(v)
             \/ \E n \in PartNumbers, bytes \in {"right", "wrong"} : PutPart(v, n, bytes)
  BY <1>3 DEF PutObject, Expire, DropSession, DeadLetter, PutPart
<1>4. CASE UNCHANGED vars
  BY <1>4 DEF vars
<1>5. QED BY <1>1, <1>2, <1>3, <1>4 DEF Next

-----------------------------------------------------------------------------
\* The inductive step.
LEMMA SoundStep == Sound /\ [Next]_vars => Sound'
<1> SUFFICES ASSUME Sound, [Next]_vars  PROVE Sound'
  OBVIOUS
<1>1. TypeOK /\ TypeOK'
  BY TypeStep DEF Sound
<1>2. \A u \in Ids : uploads[u].status # "none" =>
        /\ uploads'[u].status # "none" /\ uploads'[u].file = uploads[u].file
        /\ Single(u)' <=> Single(u)
  BY <1>1, FileStays DEF Single
<1>3. \A u \in Ids : uploads[u].status # "none" /\ session[u] = "none" => session'[u] = "none"
  BY <1>1, SessionStays
<1>4. \A p \in Procs : req[p].at \in Merged \cup {"merge"} =>
        req[p].up \in Ids /\ uploads[req[p].up].status # "none"
  BY <1>1 DEF TypeOK, RequestsOK, Handling, Merged
<1>5. \A w \in Workers : job[w].at # "idle" => job[w].up \in Ids /\ assets[job[w].up] # "none"
  BY <1>1 DEF TypeOK, JobsOK
<1>6. \A u \in Ids : assets[u] # "none" => uploads[u].status # "none"
  BY <1>1 DEF TypeOK, RecordsOK
<1>7. WrongIsMerged'
  <2>1. SUFFICES ASSUME NEW u \in Ids, object'[u] = "wrong"
                 PROVE  uploads'[u].status # "none" /\ ~ Single(u)' /\ session'[u] = "none"
    BY DEF WrongIsMerged
  <2>2. CASE object[u] = "wrong"
    BY <1>2, <1>3, <2>2 DEF Sound, WrongIsMerged
  <2>3. CASE /\ session[u] = "open" /\ session'[u] = "none"
             /\ \E p \in Procs : req[p].at = "merge" /\ req[p].up = u
    BY <1>2, <1>4, <2>3 DEF Sound, SessionsOver
  <2>4. QED BY <1>1, <2>1, <2>2, <2>3, WrongByMerge
<1>8. SessionsOver'
  <2>1. ASSUME NEW p \in Procs, req'[p].at = "merge"  PROVE (~ Single(req[p].up))'
    <3>1. req'[p].up \in Ids /\ uploads[req'[p].up].status # "none" /\ ~ Single(req'[p].up)
      BY <1>1, <2>1, MergedRequest DEF Sound, SessionsOver
    <3>2. QED BY <1>2, <3>1 DEF Single
  <2>2. ASSUME NEW p \in Procs, req'[p].at \in Merged
        PROVE  (Single(req[p].up) \/ session[req[p].up] = "none")'
    <3>1. req'[p].up \in Ids /\ uploads[req'[p].up].status # "none"
      BY <1>1, <2>2, MergedRequest
    <3>2. \/ Single(req'[p].up) \/ session'[req'[p].up] = "none"
          \/ session[req'[p].up] = "none"
      BY <1>1, <2>2, MergedRequest DEF Sound, SessionsOver
    <3>3. QED BY <1>2, <1>3, <3>1, <3>2 DEF Single
  <2>3. ASSUME NEW u \in Ids, assets'[u] # "none"  PROVE (Single(u) \/ session[u] = "none")'
    <3>1. uploads[u].status # "none" /\ (Single(u) \/ session[u] = "none")
      BY <1>1, <1>4, <1>6, <2>3, AssetsByCommit DEF Sound, SessionsOver, Merged
    <3>2. QED BY <1>2, <1>3, <3>1
  <2>4. QED BY <2>1, <2>2, <2>3 DEF SessionsOver
<1>9. ASSUME NEW u \in Ids, assets[u] # "none", object'[u] = "wrong"  PROVE object[u] = "wrong"
  BY <1>1, <1>9, WrongByMerge DEF Sound, SessionsOver
<1>10. ApprovalsSound'
  <2>1. ASSUME NEW w \in Workers, job'[w].at = "approve"
        PROVE  uploads'[job'[w].up].file \in Genuine /\ object'[job'[w].up] # "wrong"
    <3>1. CASE job'[w] = job[w]
      BY <1>2, <1>5, <1>6, <1>9, <2>1, <3>1 DEF Sound, ApprovalsSound
    <3>2. CASE /\ job'[w].up = job[w].up /\ Passes(job[w].up) /\ job[w].at = "inspect"
               /\ UNCHANGED <<uploads, object>>
      BY <1>5, <3>2 DEF Passes, Sound, WrongIsMerged
    <3>3. QED BY <1>1, <2>1, <3>1, <3>2, ApprovingJob
  <2>2. QED BY <2>1 DEF ApprovalsSound
<1>11. ReadyIsGenuine'
  <2>1. ASSUME NEW u \in Ids, assets'[u] = "ready"
        PROVE  uploads'[u].file \in Genuine /\ object'[u] # "wrong"
    <3>1. assets[u] # "none" /\ uploads[u].file \in Genuine /\ object[u] # "wrong"
      BY <1>1, <1>5, <2>1, AssetsByCommit DEF Sound, ReadyIsGenuine, ApprovalsSound
    <3>2. QED BY <1>2, <1>6, <1>9, <3>1
  <2>2. QED BY <2>1 DEF ReadyIsGenuine
<1>12. QED BY <1>1, <1>7, <1>8, <1>10, <1>11 DEF Sound

\* A file is only ready when its first bytes have the declared type and its bytes are the ones the
\* browser hashed, however late a signed PUT or a second complete arrives.
THEOREM ReadyFilesAreGenuine == Spec => []ReadyIsGenuine
<1>1. Sound => ReadyIsGenuine
  BY DEF Sound
<1>2. QED BY <1>1, InitSound, SoundStep, PTL DEF Spec

\* No redelivered or concurrent job, and no complete, changes a verdict.
THEOREM VerdictsAreFinal == Spec => VerdictIsFinal
<1>1. TypeOK /\ [Next]_vars =>
        [\A u \in Ids : assets[u] \in {"ready", "rejected"} => assets'[u] = assets[u]]_vars
  BY AssetsByCommit
<1>2. QED BY <1>1, TypeCorrect, PTL DEF Spec, VerdictIsFinal

-----------------------------------------------------------------------------
\* One request at a time: no object of a ready file is removed.

OneAtATime == \A p, q \in Procs : p = q

\* A file no verification passes: its type is not the declared one, or it was put together wrongly.
Doomed(u) == uploads[u].file \notin Genuine \/ (~ Single(u) /\ object[u] # "right")

\* The steps of a request that may remove the object, or are followed by one that may.
Early == {"merge", "head", "commit", "discard", "mark", "abortSession"}

\* A finished upload is found by no request, and the request's own upload has no asset yet.
NotYetAnAsset ==
  /\ \A u \in Ids : assets[u] # "none" => ~ Pending(u)
  /\ \A p \in Procs : /\ req[p].at \in Early => assets[req[p].up] = "none"
                      /\ req[p].at = "commit" => object[req[p].up] # "none"

\* The objects of assets are right unless the file is doomed, and jobs know which are.
VerdictsFit ==
  /\ \A u \in Ids : /\ assets[u] # "none" => Doomed(u) \/ object[u] = "right"
                    /\ assets[u] = "ready" => ~ Doomed(u)
  /\ \A w \in Workers : /\ job[w].at \in {"remove", "refund"} => Doomed(job[w].up)
                        /\ job[w].at = "approve" => ~ Doomed(job[w].up)

\* The inductive invariant behind ReadyHasObject.
Kept == Sound /\ NotYetAnAsset /\ VerdictsFit

\* There are no assets, requests or jobs at first.
LEMMA InitKept == Init => Kept
BY InitSound DEF Init, Kept, NotYetAnAsset, VerdictsFit, Pending, Early, Idle, Resting

\* What writes or removes objects.
LEMMA ObjectChanges ==
  ASSUME TypeOK, [Next]_vars
  PROVE  \/ UNCHANGED object
         \/ \E v \in Ids : PutObject(v)
         \/ \E p \in Procs : /\ req[p].at \in {"merge", "discard"}
                             /\ \E b \in {"none", "right", "wrong"} : object' = [object EXCEPT ![req[p].up] = b]
         \/ \E w \in Workers : RejectRemove(w)
<1>1. CASE \E p \in Procs :
             \/ \E user \in Users, f \in Files : InitCheck(p, user, f)
             \/ \E v \in Ids : CompleteCheck(p, v) \/ AbortCheck(p, v)
             \/ InitStep(p) \/ RequestCrash(p)
  BY <1>1 DEF InitCheck, CompleteCheck, AbortCheck, RequestCrash, InitStep, InitResume, InitStart,
    InitInsert, s3
<1>2. CASE \E p \in Procs : CompleteStep(p)
  BY <1>2 DEF CompleteStep, CompleteMerge, CompleteHead, CompleteCommit, CompleteRollback, Enqueue, s3
<1>3. CASE \E p \in Procs : DiscardStep(p)
  BY <1>3 DEF DiscardStep, AbortSession, DiscardRemove, DiscardMark, s3
<1>4. CASE \E w \in Workers : (\E v \in Ids : Receive(w, v)) \/ JobStep(w) \/ JobCrash(w)
  BY <1>4 DEF JobStep, Receive, Inspect, Approve, RejectRefund, Ack, JobCrash, s3
<1>5. CASE \E v \in Ids :
             \/ PutObject(v) \/ Expire(v) \/ DropSession(v) \/ DeadLetter(v)
             \/ \E n \in PartNumbers, bytes \in {"right", "wrong"} : PutPart(v, n, bytes)
  BY <1>5 DEF Expire, DropSession, DeadLetter, PutPart, s3
<1>6. CASE UNCHANGED vars
  BY <1>6 DEF vars, s3
<1>7. QED BY <1>1, <1>2, <1>3, <1>4, <1>5, <1>6 DEF Next

\* Only doomed assets lose their objects, and dooms do not change.
LEMMA DoomStays ==
  ASSUME Kept, [Next]_vars, NEW u \in Ids, assets[u] # "none"
  PROVE  /\ Doomed(u)' <=> Doomed(u)
         /\ Doomed(u) \/ object[u] = "right" => Doomed(u) \/ object'[u] = "right"
<1>1. TypeOK /\ uploads[u].status # "none"
  BY DEF Kept, Sound, TypeOK, RecordsOK
<1>2. uploads'[u].file = uploads[u].file /\ (Single(u)' <=> Single(u))
  BY <1>1, FileStays DEF Single
<1>3. CASE UNCHANGED object
  BY <1>2, <1>3 DEF Doomed
<1>4. CASE \E v \in Ids : PutObject(v)
  <2>1. object'[u] = object[u] \/ (Single(u) /\ object'[u] = "right")
    BY <1>1, <1>4 DEF PutObject, TypeOK, StoreOK
  <2>2. QED BY <1>2, <2>1 DEF Doomed
<1>5. CASE \E p \in Procs : /\ req[p].at \in {"merge", "discard"}
                            /\ \E b \in {"none", "right", "wrong"} : object' = [object EXCEPT ![req[p].up] = b]
  <2>1. object'[u] = object[u]
    BY <1>1, <1>5 DEF Kept, NotYetAnAsset, Early, TypeOK, StoreOK
  <2>2. QED BY <1>2, <2>1 DEF Doomed
<1>6. CASE \E w \in Workers : RejectRemove(w)
  <2>1. object'[u] = object[u] \/ (Doomed(u) /\ object'[u] = "none")
    BY <1>1, <1>6 DEF RejectRemove, Kept, VerdictsFit, TypeOK, StoreOK
  <2>2. QED BY <1>2, <2>1 DEF Doomed
<1>7. QED BY <1>1, <1>3, <1>4, <1>5, <1>6, ObjectChanges

\* Only a commit makes an asset.
LEMMA AssetCreated ==
  ASSUME TypeOK, [Next]_vars
  PROVE  (\E p \in Procs : CompleteCommit(p)) \/ \A u \in Ids : assets[u] = "none" => assets'[u] = "none"
<1>1. CASE \E p \in Procs :
             \/ \E user \in Users, f \in Files : InitCheck(p, user, f)
             \/ \E v \in Ids : CompleteCheck(p, v) \/ AbortCheck(p, v)
             \/ InitStep(p) \/ DiscardStep(p) \/ RequestCrash(p)
  BY <1>1 DEF InitCheck, CompleteCheck, AbortCheck, RequestCrash, InitStep, InitResume, InitStart,
    InitInsert, DiscardStep, AbortSession, DiscardRemove, DiscardMark
<1>2. CASE \E p \in Procs : CompleteStep(p)
  BY <1>2 DEF CompleteStep, CompleteMerge, CompleteHead, CompleteRollback, Enqueue
<1>3. CASE \E w \in Workers : (\E v \in Ids : Receive(w, v)) \/ JobStep(w) \/ JobCrash(w)
  <2>1. CASE UNCHANGED assets
    BY <2>1
  <2>2. CASE \E w \in Workers : Approve(w) \/ RejectRefund(w)
    BY <2>2 DEF Approve, RejectRefund, Unjudged, TypeOK, RecordsOK
  <2>3. QED BY <1>3, <2>1, <2>2 DEF JobStep, Receive, Inspect, RejectRemove, Ack, JobCrash
<1>4. CASE \E v \in Ids :
             \/ PutObject(v) \/ Expire(v) \/ DropSession(v) \/ DeadLetter(v)
             \/ \E n \in PartNumbers, bytes \in {"right", "wrong"} : PutPart(v, n, bytes)
  BY <1>4 DEF PutObject, Expire, DropSession, DeadLetter, PutPart
<1>5. CASE UNCHANGED vars
  BY <1>5 DEF vars
<1>6. QED BY <1>1, <1>2, <1>3, <1>4, <1>5 DEF Next

\* An upload becomes pending once, when its record is inserted.
LEMMA NeverPendingAgain ==
  ASSUME TypeOK, [Next]_vars, NEW u \in Ids, uploads[u].status # "none", ~ Pending(u)
  PROVE  ~ Pending(u)'
<1>1. CASE \E p \in Procs :
             \/ \E user \in Users, f \in Files : InitCheck(p, user, f)
             \/ \E v \in Ids : CompleteCheck(p, v) \/ AbortCheck(p, v)
             \/ InitStep(p) \/ RequestCrash(p)
  BY <1>1 DEF InitCheck, CompleteCheck, AbortCheck, RequestCrash, InitStep, InitResume, InitStart,
    InitInsert, Pending, TypeOK, RecordsOK, RequestsOK
<1>2. CASE \E p \in Procs : CompleteStep(p) \/ DiscardStep(p)
  <2>1. CASE UNCHANGED uploads
    BY <2>1 DEF Pending
  <2>2. CASE \E p \in Procs : CompleteCommit(p) \/ DiscardMark(p)
    <3>1. PICK p \in Procs, status \in {"completed", "aborted"} : uploads' = WithStatus(req[p].up, status)
      BY <2>2 DEF CompleteCommit, DiscardMark
    <3>2. QED BY <3>1 DEF WithStatus, Pending, TypeOK, RecordsOK
  <2>3. QED BY <1>2, <2>1, <2>2 DEF CompleteStep, CompleteMerge, CompleteHead, CompleteRollback, Enqueue,
      DiscardStep, AbortSession, DiscardRemove
<1>3. CASE \E w \in Workers : (\E v \in Ids : Receive(w, v)) \/ JobStep(w) \/ JobCrash(w)
  BY <1>3 DEF JobStep, Receive, Inspect, Approve, RejectRemove, RejectRefund, Ack, JobCrash, Pending
<1>4. CASE \E v \in Ids :
             \/ PutObject(v) \/ Expire(v) \/ DropSession(v) \/ DeadLetter(v)
             \/ \E n \in PartNumbers, bytes \in {"right", "wrong"} : PutPart(v, n, bytes)
  BY <1>4 DEF PutObject, Expire, DropSession, DeadLetter, PutPart, Pending, TypeOK, RecordsOK
<1>5. CASE UNCHANGED vars
  BY <1>5 DEF vars, Pending
<1>6. QED BY <1>1, <1>2, <1>3, <1>4, <1>5 DEF Next

\* A job only gets to rejecting a file by finding it bad.
LEMMA RejectingJob ==
  ASSUME TypeOK, [Next]_vars, NEW w \in Workers, job'[w].at \in {"remove", "refund"}
  PROVE  /\ job'[w].up = job[w].up
         /\ \/ job[w].at \in {"remove", "refund"}
            \/ job[w].at = "inspect" /\ ~ Passes(job[w].up)
<1>1. CASE \E x \in Workers : (\E v \in Ids : Receive(x, v)) \/ JobStep(x) \/ JobCrash(x)
  <2>1. PICK x \in Workers : (\E v \in Ids : Receive(x, v)) \/ JobStep(x) \/ JobCrash(x)
    BY <1>1
  <2>2. CASE x # w
    BY <2>1, <2>2 DEF JobStep, Receive, Inspect, Approve, RejectRemove, RejectRefund, Ack, JobCrash,
      TypeOK, JobsOK
  <2>3. CASE x = w
    BY <2>1, <2>3 DEF JobStep, Receive, Inspect, Approve, RejectRemove, RejectRefund, Ack, JobCrash,
      Resting, TypeOK, JobsOK
  <2>4. QED BY <2>2, <2>3
<1>2. CASE \E p \in Procs :
             \/ \E user \in Users, f \in Files : InitCheck(p, user, f)
             \/ \E v \in Ids : CompleteCheck(p, v) \/ AbortCheck(p, v)
             \/ InitStep(p) \/ CompleteStep(p) \/ DiscardStep(p) \/ RequestCrash(p)
  BY <1>2 DEF InitCheck, CompleteCheck, AbortCheck, RequestCrash, InitStep, InitResume, InitStart,
    InitInsert, CompleteStep, CompleteMerge, CompleteHead, CompleteCommit, CompleteRollback, Enqueue,
    DiscardStep, AbortSession, DiscardRemove, DiscardMark
<1>3. CASE \E v \in Ids :
             \/ PutObject(v) \/ Expire(v) \/ DropSession(v) \/ DeadLetter(v)
             \/ \E n \in PartNumbers, bytes \in {"right", "wrong"} : PutPart(v, n, bytes)
  BY <1>3 DEF PutObject, Expire, DropSession, DeadLetter, PutPart
<1>4. CASE UNCHANGED vars
  BY <1>4 DEF vars
<1>5. QED BY <1>1, <1>2, <1>3, <1>4 DEF Next

\* The only request gets to a step that may remove an object with a pending upload; others keep theirs.
LEMMA EarlyRequest ==
  ASSUME OneAtATime, TypeOK, [Next]_vars, NEW p \in Procs, req'[p].at \in Early
  PROVE  /\ ~ CompleteCommit(p)
         /\ req'[p].up \in Ids
         /\ Pending(req'[p].up) \/ (req[p].at \in Early /\ req'[p].up = req[p].up)
         /\ req'[p].at = "commit" => \/ req[p].at = "commit" /\ req'[p].up = req[p].up
                                     \/ UNCHANGED object /\ object[req'[p].up] # "none"
<1> DEFINE Kind == /\ req'[p].up \in Ids
                   /\ Pending(req'[p].up) \/ (req[p].at \in Early /\ req'[p].up = req[p].up)
                   /\ req'[p].at = "commit" => \/ req[p].at = "commit" /\ req'[p].up = req[p].up
                                               \/ UNCHANGED object /\ object[req'[p].up] # "none"
<1>1. req \in [Procs -> [at : {"idle"} \cup Starting \cup Handling, by : Users \cup {None},
                         file : Files \cup {None}, up : Ids \cup {None}]]
  BY DEF TypeOK, RequestsOK
<1>2. req[p].at \in Early => req[p].up \in Ids
  BY DEF Early, TypeOK, RequestsOK, Handling
<1>3. ~ CompleteCommit(p)
  BY <1>1 DEF CompleteCommit, Goto, Early
<1> SUFFICES Kind
  BY <1>3
<1>4. CASE UNCHANGED req
  BY <1>2, <1>4
<1>5. CASE \E v \in Ids : CompleteCheck(p, v) \/ AbortCheck(p, v)
  <2>1. PICK v \in Ids : CompleteCheck(p, v) \/ AbortCheck(p, v)
    BY <1>5
  <2>2. req'[p].up = v /\ req'[p].at \in {"head", "merge", "discard", "abortSession"} /\ Pending(v)
    BY <1>1, <2>1 DEF CompleteCheck, AbortCheck
  <2>3. QED BY <2>2
<1>6. CASE \/ \E user \in Users, f \in Files : InitCheck(p, user, f)
           \/ InitStep(p) \/ RequestCrash(p) \/ Enqueue(p)
  <2>1. req'[p].at \in {"idle", "lookup", "insert"}
    BY <1>1, <1>6 DEF InitCheck, RequestCrash, InitStep, InitResume, InitStart, InitInsert, Enqueue, Respond,
      Idle
  <2>2. QED BY <2>1 DEF Early
<1>7. CASE CompleteMerge(p) \/ CompleteRollback(p) \/ DiscardStep(p)
  <2>1. req'[p] = Idle \/ /\ req'[p].up = req[p].up /\ req[p].at \in Early
                          /\ req'[p].at \in {"head", "discard", "mark"}
    BY <1>1, <1>7 DEF CompleteMerge, CompleteRollback, DiscardStep, AbortSession, DiscardRemove, DiscardMark,
      Goto, Respond, Early
  <2>2. QED BY <1>2, <2>1 DEF Idle, Early
<1>8. CASE CompleteHead(p)
  <2>1. req[p].at = "head" /\ UNCHANGED object
    BY <1>8 DEF CompleteHead, s3
  <2>2. CASE object[req[p].up] = "none"
    BY <1>1, <1>8, <2>2 DEF CompleteHead, Respond, Idle, Early
  <2>3. CASE object[req[p].up] # "none"
    <3>1. req'[p].up = req[p].up
      BY <1>1, <1>8, <2>3 DEF CompleteHead, Goto
    <3>2. QED BY <1>2, <2>1, <2>3, <3>1 DEF Early
  <2>4. QED BY <2>2, <2>3
<1>9. UNCHANGED req \/ \E q \in Procs :
        \/ \E user \in Users, f \in Files : InitCheck(q, user, f)
        \/ \E v \in Ids : CompleteCheck(q, v) \/ AbortCheck(q, v)
        \/ InitStep(q) \/ CompleteStep(q) \/ DiscardStep(q) \/ RequestCrash(q)
  <2>1. CASE \E w \in Workers : (\E v \in Ids : Receive(w, v)) \/ JobStep(w) \/ JobCrash(w)
    BY <2>1 DEF JobStep, Receive, Inspect, Approve, RejectRemove, RejectRefund, Ack, JobCrash
  <2>2. CASE \E v \in Ids :
               \/ PutObject(v) \/ Expire(v) \/ DropSession(v) \/ DeadLetter(v)
               \/ \E n \in PartNumbers, bytes \in {"right", "wrong"} : PutPart(v, n, bytes)
    BY <2>2 DEF PutObject, Expire, DropSession, DeadLetter, PutPart
  <2>3. CASE UNCHANGED vars
    BY <2>3 DEF vars
  <2>4. QED BY <2>1, <2>2, <2>3 DEF Next
<1>10. \A q \in Procs : q = p
  BY DEF OneAtATime
<1> HIDE DEF Kind
<1>11. QED
  BY <1>3, <1>4, <1>5, <1>6, <1>7, <1>8, <1>9, <1>10 DEF CompleteStep

\* A step that goes on with a request's upload leaves it without an asset.
LEMMA NotYetStep == OneAtATime /\ Kept /\ [Next]_vars => NotYetAnAsset'
<1> SUFFICES ASSUME OneAtATime, Kept, [Next]_vars  PROVE NotYetAnAsset'
  OBVIOUS
<1>1. TypeOK
  BY DEF Kept, Sound
<1>2. ASSUME NEW u \in Ids, assets'[u] # "none"  PROVE ~ Pending(u)'
  <2>1. CASE assets[u] # "none"
    BY <1>1, <2>1, NeverPendingAgain DEF Kept, NotYetAnAsset, TypeOK, RecordsOK
  <2>2. CASE assets[u] = "none"
    <3>1. PICK p \in Procs : CompleteCommit(p)
      BY <1>1, <1>2, <2>2, AssetCreated
    <3>2. req[p].up = u /\ uploads' = WithStatus(u, "completed")
      BY <1>1, <1>2, <2>2, <3>1 DEF CompleteCommit, TypeOK, RecordsOK
    <3>3. QED BY <1>1, <3>2 DEF WithStatus, Pending, TypeOK, RecordsOK
  <2>3. QED BY <2>1, <2>2
<1>3. ASSUME NEW p \in Procs, req'[p].at \in Early  PROVE assets'[req'[p].up] = "none"
  <2>1. \A q \in Procs : ~ CompleteCommit(q)
    BY <1>1, <1>3, EarlyRequest DEF OneAtATime
  <2>2. req'[p].up \in Ids /\ assets[req'[p].up] = "none"
    BY <1>1, <1>3, EarlyRequest DEF Kept, NotYetAnAsset
  <2>3. QED BY <1>1, <2>1, <2>2, AssetCreated
<1>4. ASSUME NEW p \in Procs, req'[p].at = "commit"  PROVE object'[req'[p].up] # "none"
  <2>1. req'[p].at \in Early
    BY <1>4 DEF Early
  <2>2. CASE UNCHANGED object /\ object[req'[p].up] # "none"
    BY <2>2
  <2>3. CASE req[p].at = "commit" /\ req'[p].up = req[p].up
    <3> DEFINE u == req[p].up
    <3>1. u \in Ids /\ assets[u] = "none" /\ object[u] # "none"
      BY <2>3 DEF Kept, NotYetAnAsset, Early, Sound, TypeOK, RequestsOK, Handling
    <3>2. CASE \E v \in Ids : PutObject(v)
      BY <1>1, <2>3, <3>1, <3>2 DEF PutObject, TypeOK, StoreOK
    <3>3. CASE \E q \in Procs : req[q].at \in {"merge", "discard"}
      BY <2>3, <3>3 DEF OneAtATime
    <3>4. CASE \E x \in Workers : RejectRemove(x)
      BY <1>1, <2>3, <3>1, <3>4 DEF RejectRemove, TypeOK, StoreOK, JobsOK
    <3>5. QED BY <1>1, <2>3, <3>1, <3>2, <3>3, <3>4, ObjectChanges
  <2>4. QED BY <1>1, <1>4, <2>1, <2>2, <2>3, EarlyRequest
<1>5. QED BY <1>2, <1>3, <1>4 DEF NotYetAnAsset

\* What a verdict was reached from still stands.
LEMMA VerdictsStep == Kept /\ [Next]_vars => VerdictsFit'
<1> SUFFICES ASSUME Kept, [Next]_vars  PROVE VerdictsFit'
  OBVIOUS
<1>1. TypeOK
  BY DEF Kept, Sound
<1>2. \A w \in Workers : job[w].at # "idle" => job[w].up \in Ids /\ assets[job[w].up] # "none"
  BY <1>1 DEF TypeOK, JobsOK
<1>3. ASSUME NEW u \in Ids, assets'[u] # "none"  PROVE Doomed(u)' \/ object'[u] = "right"
  <2>1. CASE assets[u] # "none"
    BY <2>1, DoomStays DEF Kept, VerdictsFit
  <2>2. CASE assets[u] = "none"
    <3>1. PICK p \in Procs : CompleteCommit(p)
      BY <1>1, <1>3, <2>2, AssetCreated
    <3>2. req[p].up = u /\ req[p].at = "commit" /\ UNCHANGED object
      BY <1>1, <1>3, <2>2, <3>1 DEF CompleteCommit, TypeOK, RecordsOK, s3
    <3>3. object[u] # "none" /\ uploads[u].status # "none"
      BY <1>1, <3>2 DEF Kept, NotYetAnAsset, TypeOK, RequestsOK, Handling
    <3>4. object[u] = "right" \/ ~ Single(u)
      BY <1>1, <3>3 DEF Kept, Sound, WrongIsMerged, TypeOK, StoreOK
    <3>5. uploads'[u].file = uploads[u].file
      BY <1>1, <3>3, FileStays
    <3>6. QED BY <3>2, <3>4, <3>5 DEF Doomed, Single
  <2>3. QED BY <2>1, <2>2
<1>4. ASSUME NEW u \in Ids, assets'[u] = "ready"  PROVE ~ Doomed(u)'
  <2>1. assets[u] # "none" /\ ~ Doomed(u)
    BY <1>1, <1>2, <1>4, AssetsByCommit DEF Kept, VerdictsFit
  <2>2. QED BY <2>1, DoomStays
<1>5. ASSUME NEW w \in Workers, job'[w].at \in {"remove", "refund"}  PROVE Doomed(job[w].up)'
  <2>1. PICK u : u = job[w].up
    OBVIOUS
  <2>2. job'[w].up = u /\ (job[w].at \in {"remove", "refund"} \/ (job[w].at = "inspect" /\ ~ Passes(job[w].up)))
    BY <1>1, <1>5, <2>1, RejectingJob
  <2>3. u \in Ids /\ assets[u] # "none"
    BY <1>2, <2>1, <2>2
  <2>4. Doomed(u)
    BY <2>1, <2>2, <2>3 DEF Kept, VerdictsFit, Passes, Doomed
  <2>5. Doomed(u)'
    BY <2>3, <2>4, DoomStays
  <2>6. QED BY <2>2, <2>5
<1>6. ASSUME NEW w \in Workers, job'[w].at = "approve"  PROVE ~ Doomed(job[w].up)'
  <2>1. PICK u : u = job[w].up
    OBVIOUS
  <2>2. job'[w].up = u /\ (job[w].at = "approve" \/ (job[w].at = "inspect" /\ Passes(job[w].up)))
    BY <1>1, <1>6, <2>1, ApprovingJob
  <2>3. u \in Ids /\ assets[u] # "none"
    BY <1>2, <2>1, <2>2
  <2>4. ~ Doomed(u)
    BY <2>1, <2>2, <2>3 DEF Kept, VerdictsFit, Passes, Doomed
  <2>5. ~ Doomed(u)'
    BY <2>3, <2>4, DoomStays
  <2>6. QED BY <2>2, <2>5
<1>7. QED BY <1>3, <1>4, <1>5, <1>6 DEF VerdictsFit

\* With one request at a time and any number of workers, a ready file keeps its object: complete, abort
\* and the worker only remove objects of uploads that are no asset yet and of files no job can approve.
THEOREM ReadyFilesKept == ASSUME OneAtATime PROVE Spec => []ReadyHasObject
<1>1. Kept /\ [Next]_vars => Kept'
  BY NotYetStep, VerdictsStep, SoundStep DEF Kept
<1>2. Kept => ReadyHasObject
  BY DEF Kept, VerdictsFit, ReadyHasObject
<1>3. QED BY <1>1, <1>2, InitKept, PTL DEF Spec
=============================================================================
