------------------------------ MODULE ImportJobs -----------------------------
(***************************************************************************)
(* Files imported from web addresses: a job record, a message on the SQS   *)
(* queue, and a worker that fetches the file into S3 and registers it      *)
(* (apps/web jobs.ts; apps/workers sqs.ts, run-job.ts, import-from-url.ts; *)
(* packages/db jobs.ts, imports.ts).  A message is delivered again after a *)
(* crash or a failure, and each delivery stores its own copy.  Members     *)
(* upload files meanwhile, which are verified after they are registered    *)
(* (uploads.ts, verification.ts: module Uploads has their steps).  A file  *)
(* is one byte.  All jobs are of one workspace.                            *)
(***************************************************************************)
EXTENDS Naturals, FiniteSets

CONSTANTS Jobs,
          Files,        \* what a web address may answer with
          Assets,       \* asset ids, which are object keys too
          Limit,        \* the workspace owner's storage limit
          MaxReceives,  \* deliveries before the dead-letter queue
          Workers, None

VARIABLES job,     \* job records: status and output
          msg,     \* messages: where they are, how often they were received
          asset,   \* asset records: the file, None if there is none or it was rejected
          verifying, rejected,  \* uploads that are not verified yet, and those that failed it
          object,  \* the keys that have an object
          keyed,   \* asset ids that were given out
          other,   \* what the owner's other files take
          used,    \* storageBytesUsed
          worker   \* what each worker is doing

vars == <<job, msg, asset, verifying, rejected, object, keyed, other, used, worker>>
uploads == <<verifying, rejected>>

NoJob == [status |-> "none", output |-> None]
NoMsg == [at |-> "none", received |-> 0]
Idle == [at |-> "idle", job |-> None, key |-> None, file |-> None, found |-> None, retry |-> FALSE]

Registered == {a \in Assets : asset[a] # None}
Twins(f) == {a \in Registered : asset[a] = f}
Named == Registered \cup rejected

Init ==
  /\ job = [j \in Jobs |-> NoJob]
  /\ msg = [j \in Jobs |-> NoMsg]
  /\ asset = [a \in Assets |-> None]
  /\ verifying = {} /\ rejected = {}
  /\ object = {} /\ keyed = {}
  /\ other \in 0..Limit /\ used = other
  /\ worker = [w \in Workers |-> Idle]

Goes(w, at) == worker' = [worker EXCEPT ![w].at = at]

\* The handler threw: the job is to be marked failed, and delivered again unless it was refused.
Throws(w, retry) == worker' = [worker EXCEPT ![w].at = "fail", ![w].retry = retry]

-----------------------------------------------------------------------------
\* enqueueJob: the record, then the message.  A request may die in between.

Record(j) ==
  /\ job[j] = NoJob
  /\ job' = [job EXCEPT ![j].status = "queued"]
  /\ UNCHANGED <<msg, asset, object, keyed, used, worker>>

Send(j) ==
  /\ job[j].status = "queued" /\ msg[j] = NoMsg
  /\ msg' = [msg EXCEPT ![j].at = "queue"]
  /\ UNCHANGED <<job, asset, object, keyed, used, worker>>

-----------------------------------------------------------------------------
\* A delivery: executeJob around importFromUrl.

Receive(w, j) ==
  /\ worker[w] = Idle /\ msg[j].at = "queue"
  /\ msg' = [msg EXCEPT ![j] = [at |-> "out", received |-> @.received + 1]]
  /\ worker' = [worker EXCEPT ![w] = [Idle EXCEPT !.at = "start", !.job = j]]
  /\ UNCHANGED <<job, asset, object, keyed, used>>

Start(w) ==
  /\ worker[w].at = "start"
  /\ job' = [job EXCEPT ![worker[w].job].status = "running"]
  /\ Goes(w, "fetch")
  /\ UNCHANGED <<msg, asset, object, keyed, used>>

\* The address answers with a file that is taken, one that is refused, or not at all.
Fetch(w) ==
  /\ worker[w].at = "fetch"
  /\ \/ \E f \in Files, a \in Assets \ keyed :
          /\ worker' = [worker EXCEPT ![w].at = "put", ![w].file = f, ![w].key = a]
          /\ keyed' = keyed \cup {a}
     \/ (\E retry \in BOOLEAN : Throws(w, retry)) /\ UNCHANGED keyed
  /\ UNCHANGED <<job, msg, asset, object, used>>

\* putStream: it is stored, or not (too large is refused).
Put(w) ==
  /\ worker[w].at = "put"
  /\ \/ object' = object \cup {worker[w].key} /\ Goes(w, "twin")
     \/ (\E retry \in BOOLEAN : Throws(w, retry)) /\ UNCHANGED object
  /\ UNCHANGED <<job, msg, asset, keyed, used>>

-----------------------------------------------------------------------------
\* registerFetched.

Twin(w) ==
  /\ worker[w].at = "twin"
  /\ \/ Twins(worker[w].file) = {} /\ Goes(w, "commit")
     \/ \E a \in Twins(worker[w].file) : worker' = [worker EXCEPT ![w].at = "drop", ![w].found = a]
  /\ UNCHANGED <<job, msg, asset, object, keyed, used>>

\* What a second copy leaves: its own object goes.
Dropped(w) == worker[w].key

\* A twin was found before the transaction; the removal itself may fail.
DropCopy(w) ==
  /\ worker[w].at = "drop"
  /\ \/ object' = object \ {Dropped(w)} /\ Goes(w, "succeed")
     \/ Throws(w, TRUE) /\ UNCHANGED object
  /\ UNCHANGED <<job, msg, asset, keyed, used>>

\* (Mutant: a full store takes one more.)
FitsOnce == used <= Limit

\* chargeStorage: one more byte fits.
Fits == used < Limit

\* (Mutant: a fetched file is free.)
FreeOfCharge == used

Charged == used + 1

\* What the transaction adds: a charge, and a record that the unique index has no other of.
Inserted(a, f) ==
  /\ Fits /\ Twins(f) = {}
  /\ asset' = [asset EXCEPT ![a] = f]
  /\ used' = Charged

\* It commits, or is rolled back: the file is there, or there is no room or something else failed.
Commit(w) ==
  /\ worker[w].at = "commit"
  /\ \/ /\ Inserted(worker[w].key, worker[w].file)
        /\ worker' = [worker EXCEPT ![w].at = "succeed", ![w].found = worker[w].key]
     \/ /\ \/ Fits /\ Twins(worker[w].file) # {} /\ Goes(w, "dropDuplicate")
           \/ Goes(w, "dropFailed")
        /\ UNCHANGED <<asset, used>>
  /\ UNCHANGED <<job, msg, object, keyed>>

\* The catch: this copy goes either way; a duplicate has a winner.
DropFailed(w) ==
  /\ worker[w].at \in {"dropDuplicate", "dropFailed"}
  /\ \/ /\ object' = object \ {worker[w].key}
        /\ IF worker[w].at = "dropDuplicate" THEN Goes(w, "winner") ELSE Throws(w, TRUE)
     \/ Throws(w, TRUE) /\ UNCHANGED object
  /\ UNCHANGED <<job, msg, asset, keyed, used>>

\* The one that was there, if it has not been rejected since.
Winner(w) ==
  /\ worker[w].at = "winner"
  /\ \/ \E a \in Twins(worker[w].file) : worker' = [worker EXCEPT ![w].at = "succeed", ![w].found = a]
     \/ Twins(worker[w].file) = {} /\ Throws(w, TRUE)
  /\ UNCHANGED <<job, msg, asset, object, keyed, used>>

-----------------------------------------------------------------------------
\* How it went, on the record; then the message goes, or goes back.

Succeed(w) ==
  /\ worker[w].at = "succeed"
  /\ job' = [job EXCEPT ![worker[w].job] = [status |-> "succeeded", output |-> worker[w].found]]
  /\ Goes(w, "ack")
  /\ UNCHANGED <<msg, asset, object, keyed, used>>

Fail(w) ==
  /\ worker[w].at = "fail"
  /\ job' = [job EXCEPT ![worker[w].job].status = "failed"]
  /\ Goes(w, IF worker[w].retry THEN "nack" ELSE "ack")
  /\ UNCHANGED <<msg, asset, object, keyed, used>>

Ack(w) ==
  /\ worker[w].at = "ack"
  /\ msg' = [msg EXCEPT ![worker[w].job].at = "gone"]
  /\ worker' = [worker EXCEPT ![w] = Idle]
  /\ UNCHANGED <<job, asset, object, keyed, used>>

\* Not acknowledged, or the worker died: back on the queue, or dead-lettered.
Returned(j) == [msg EXCEPT ![j].at = IF msg[j].received < MaxReceives THEN "queue" ELSE "dead"]

Nack(w) ==
  /\ worker[w].at = "nack"
  /\ msg' = Returned(worker[w].job)
  /\ worker' = [worker EXCEPT ![w] = Idle]
  /\ UNCHANGED <<job, asset, object, keyed, used>>

Crash(w) ==
  /\ worker[w].at \notin {"idle", "nack"}
  /\ msg' = Returned(worker[w].job)
  /\ worker' = [worker EXCEPT ![w] = Idle]
  /\ UNCHANGED <<job, asset, object, keyed, used>>

-----------------------------------------------------------------------------
\* Uploads.

\* A file that a member sent under its own key is registered as it was declared.
Upload(a, f) ==
  /\ a \in Assets \ keyed /\ Inserted(a, f)
  /\ keyed' = keyed \cup {a} /\ object' = object \cup {a}
  /\ verifying' = verifying \cup {a}
  /\ UNCHANGED <<job, msg, worker, rejected>>

\* verify finds it as declared, or it goes with its object and is refunded.
Verify(a) ==
  /\ a \in verifying /\ verifying' = verifying \ {a}
  /\ UNCHANGED <<job, msg, asset, rejected, object, keyed, used, worker>>

Reject(a) ==
  /\ a \in verifying /\ verifying' = verifying \ {a}
  /\ asset' = [asset EXCEPT ![a] = None] /\ rejected' = rejected \cup {a}
  /\ object' = object \ {a} /\ used' = used - 1
  /\ UNCHANGED <<job, msg, keyed, worker>>

-----------------------------------------------------------------------------
Deliver(w) == (\E j \in Jobs : Receive(w, j)) \/ Start(w) \/ Fetch(w) \/ Put(w)
Register(w) == Twin(w) \/ DropCopy(w) \/ Commit(w) \/ DropFailed(w) \/ Winner(w)
Report(w) == Succeed(w) \/ Fail(w) \/ Ack(w) \/ Nack(w) \/ Crash(w)

Step == \/ \E j \in Jobs : Record(j) \/ Send(j)
        \/ \E w \in Workers : Deliver(w) \/ Register(w) \/ Report(w)

Checked == \E a \in Assets : (\E f \in Files : Upload(a, f)) \/ Verify(a) \/ Reject(a)

Next == UNCHANGED other /\ ((Step /\ UNCHANGED uploads) \/ Checked)

Spec == Init /\ [][Next]_vars

-----------------------------------------------------------------------------
\* Properties.

\* Every variable holds a value of its kind.
TypeOK ==
  /\ job \in [Jobs -> [status : {"none", "queued", "running", "succeeded", "failed"},
                       output : Assets \cup {None}]]
  /\ msg \in [Jobs -> [at : {"none", "queue", "out", "dead", "gone"}, received : 0..MaxReceives]]
  /\ asset \in [Assets -> Files \cup {None}]
  /\ verifying \subseteq Registered /\ rejected \subseteq keyed \ Registered
  /\ object \subseteq keyed /\ keyed \subseteq Assets
  /\ other \in 0..Limit /\ used \in 0..Limit
  /\ \A w \in Workers : worker[w].at # "idle" => msg[worker[w].job].at = "out"

\* A file that was imported stays and is charged once: whatever is delivered again, at once, or dies
\* half-way, no copy's removal takes its object, and a job that succeeded names it, or the upload of the
\* same file, still being verified, that it took for it and that was rejected (imports.ts).
ImportedIsKept ==
  /\ Registered \subseteq object
  /\ used = other + Cardinality(Registered)
  /\ \A f \in Files : Cardinality(Twins(f)) <= 1
  /\ \A j \in Jobs : job[j].status = "succeeded" => job[j].output \in Named
=============================================================================
