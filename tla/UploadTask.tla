----------------------------- MODULE UploadTask -----------------------------
(***************************************************************************)
(* One file in the browser's upload engine (apps/web lib/upload engine.ts, *)
(* browser.ts, api.ts): a run hashes it, asks the server to start, sends   *)
(* the parts a few at a time, completes, and waits for verification, while *)
(* the user pauses, resumes, retries and cancels.  A run that failed may   *)
(* leave part requests behind.  A file sent by one PUT has a single part.  *)
(*                                                                         *)
(* JavaScript runs a promise's continuations before the next event, so a   *)
(* step is an event (an answer, a timer, a click) with all it leads to up  *)
(* to the next wait.                                                       *)
(***************************************************************************)
EXTENDS Naturals, FiniteSets, FiniteSetsExt

CONSTANTS Parts,        \* part numbers
          Concurrency,  \* PART_CONCURRENCY
          MaxAttempts,  \* MAX_ATTEMPTS
          MaxRuns       \* runs in the model

ASSUME PartsAssumption == Parts \subseteq Nat /\ Parts # {} /\ IsFiniteSet(Parts)
ASSUME BoundsAssumption == {Concurrency, MaxAttempts, MaxRuns} \subseteq Nat \ {0}

VARIABLES task,    \* the UploadTask: state, stopReason, what its run waits for, what it knows
          runs,    \* the part requests of each run, of runs that ended too
          server   \* the upload and the asset, as the API and S3 have them

vars == <<task, runs, server>>

Runs == 1..MaxRuns
NoRun == [upload |-> 0, queue |-> {}, flight |-> {}, tries |-> [n \in Parts |-> 0]]

Active == {"hashing", "starting", "uploading", "finishing", "verifying"}
Running == task.at # "none"
Aborted == task.signal = "aborted"
Mine == runs[task.run]

\* The run waits at `at`; `reply` is what the server answered, `seen` the asset's status as known.
Init ==
  /\ task = [state |-> "queued", at |-> "none", stop |-> "none", signal |-> "none", run |-> 0,
             hashed |-> FALSE, uploadId |-> 0, reply |-> "none", seen |-> "none", cancel |-> "no"]
  /\ runs = [r \in Runs |-> NoRun]
  /\ server = [upload |-> "none", id |-> 0, parts |-> {}, asset |-> "none"]

-----------------------------------------------------------------------------
\* How a run ends: the catch of run().

\* A run stopped by an abort, one that failed: cancel() sets the state itself.
Ends(t, state) == [t EXCEPT !.at = "none", !.signal = "none", !.reply = "none",
                            !.state = IF t.stop = "cancel" THEN @ ELSE state]
Failed(t) == Ends(t, "failed")
Stopped(t) == Ends(t, IF t.stop = "pause" THEN "paused" ELSE "failed")

\* start(), by the queue, resume() or retry().
Start ==
  /\ ~Running /\ task.cancel = "no" /\ task.state \in {"queued", "paused", "failed"}
  /\ task.run < MaxRuns
  /\ task' = [task EXCEPT !.stop = "none", !.signal = "live", !.run = @ + 1,
                          !.state = IF task.hashed THEN "starting" ELSE "hashing",
                          !.at = IF task.hashed THEN "init" ELSE "hash"]
  /\ UNCHANGED <<runs, server>>

Pause ==
  /\ task.state \in {"hashing", "starting", "uploading"}
  /\ task' = [task EXCEPT !.stop = "pause", !.signal = IF Running THEN "aborted" ELSE @]
  /\ UNCHANGED <<runs, server>>

\* cancel() waits for the run, then sets the state and tells the server, if it knows the upload.
Cancelled(t) == [t EXCEPT !.state = "cancelled", !.cancel = IF t.uploadId # 0 THEN "abort" ELSE "no"]

Cancel ==
  LET t == [task EXCEPT !.stop = "cancel", !.signal = IF Running THEN "aborted" ELSE @] IN
  /\ task.state \notin {"done", "cancelled"} /\ task.cancel = "no"
  /\ task' = IF Running THEN [t EXCEPT !.cancel = "wait"] ELSE Cancelled(t)
  /\ UNCHANGED <<runs, server>>

\* (Mutant: cancel() does not wait for the run.)
Whenever == TRUE

\* cancel() goes on when the run is over.
RunIsOver == ~Running

CancelGoesOn ==
  /\ task.cancel = "wait" /\ RunIsOver
  /\ task' = Cancelled(task)
  /\ UNCHANGED <<runs, server>>

\* The abort request, which may be lost.
CancelAborts ==
  /\ task.cancel = "abort"
  /\ task' = [task EXCEPT !.cancel = "no"]
  /\ \/ server' = IF server.upload = "pending" /\ server.id = task.uploadId
                  THEN [server EXCEPT !.upload = "none", !.parts = {}] ELSE server
     \/ UNCHANGED server
  /\ UNCHANGED runs

\* The aborted hash, parts or sleep rejects.
Unwind ==
  /\ Aborted /\ task.at \in {"hash", "parts", "verify"}
  /\ task' = Stopped(task)
  /\ runs' = [runs EXCEPT ![task.run] = NoRun]
  /\ UNCHANGED server

-----------------------------------------------------------------------------
\* Hashing and starting.

Hash ==
  /\ task.at = "hash" /\ ~Aborted
  /\ task' = [task EXCEPT !.hashed = TRUE, !.state = "starting", !.at = "init"] \/ task' = Failed(task)
  /\ UNCHANGED <<runs, server>>

\* The server answers init: it has the file, or it starts an upload or goes on with one.
InitServe ==
  /\ task.at = "init" /\ task.reply = "none"
  /\ IF server.asset \in {"verifying", "ready"}
     THEN task' = [task EXCEPT !.reply = "exists"] /\ UNCHANGED server
     ELSE /\ task' = [task EXCEPT !.reply = "started"]
          /\ server' = IF server.upload = "pending" THEN server
                       ELSE [server EXCEPT !.upload = "pending", !.id = @ + 1, !.parts = {}]
  /\ UNCHANGED runs

\* (Mutant: the upload counts as having the parts that earlier runs are still sending.)
CompletedOrSent ==
  server.parts \cup UNION {runs[r].flight : r \in {s \in Runs : runs[s].upload = server.id}}

\* The parts that init says S3 has; a single PUT is never skipped.
Completed == IF Cardinality(Parts) = 1 THEN {} ELSE server.parts

\* The first of a run's parts, as many as there are workers.
FirstParts(queue) == {n \in queue : Cardinality({m \in queue : m < n}) < Concurrency}

\* init's answer arrives: an aborted run stops before it keeps the upload's id.
InitReply ==
  LET queue == Parts \ Completed IN
  /\ task.at = "init" /\ task.reply # "none"
  /\ IF Aborted THEN task' = Stopped(task) /\ UNCHANGED runs
     ELSE IF task.reply = "exists"
     THEN task' = [task EXCEPT !.state = "verifying", !.at = "verify", !.reply = "none",
                               !.seen = server.asset] /\ UNCHANGED runs
     ELSE /\ task' = [task EXCEPT !.state = "uploading", !.at = "parts", !.reply = "none",
                                  !.uploadId = server.id]
          /\ runs' = [runs EXCEPT ![task.run] =
                        [NoRun EXCEPT !.upload = server.id, !.queue = queue \ FirstParts(queue),
                                      !.flight = FirstParts(queue)]]
  /\ UNCHANGED server

\* A call to the API fails; the server may have served it.
CallFails ==
  /\ task.at \in {"init", "complete", "verify"}
  /\ task' = Failed(task)
  /\ UNCHANGED <<runs, server>>

-----------------------------------------------------------------------------
\* Sending parts, by the current run and by what earlier ones left behind.

Sending(r, n) == n \in runs[r].flight /\ ~(r = task.run /\ Aborted)

\* S3 has the part.
PartArrives(r, n) ==
  /\ n \in runs[r].flight
  /\ server.upload = "pending" /\ server.id = runs[r].upload
  /\ server' = [server EXCEPT !.parts = @ \cup {n}]
  /\ UNCHANGED <<task, runs>>

\* The worker is done with a part, and goes on to the next one.
Leaves(run, n) == [run EXCEPT !.flight = @ \ {n}, !.tries[n] = 0]
Goes(run, n) ==
  IF run.queue = {} THEN Leaves(run, n)
  ELSE [Leaves(run, n) EXCEPT !.flight = @ \cup {Min(run.queue)}, !.queue = @ \ {Min(run.queue)}]

PartDone(r, n) ==
  /\ Sending(r, n)
  /\ n \in server.parts /\ server.id = runs[r].upload
  /\ runs' = [runs EXCEPT ![r] = Goes(@, n)]
  /\ UNCHANGED <<task, server>>

\* withRetry tries again.
MayRetry(r, n) == runs[r].tries[n] + 1 < MaxAttempts

PartRetry(r, n) ==
  /\ Sending(r, n) /\ MayRetry(r, n)
  /\ runs' = [runs EXCEPT ![r].tries[n] = IF @ + 1 < MaxAttempts THEN @ + 1 ELSE @]
  /\ UNCHANGED <<task, server>>

\* Or gives up: too many attempts, an error not worth another, or no fresh URL.  Promise.all then
\* rejects; the other workers go on.
PartFails(r, n) ==
  /\ Sending(r, n)
  /\ runs' = [runs EXCEPT ![r] = Leaves(@, n)]
  /\ task' = IF r = task.run /\ task.at = "parts" THEN Failed(task) ELSE task
  /\ UNCHANGED server

\* All parts of the run are there.
PartsDone ==
  /\ task.at = "parts" /\ ~Aborted
  /\ Mine.flight = {} /\ Mine.queue = {}
  /\ task' = [task EXCEPT !.state = "finishing", !.at = "complete"]
  /\ UNCHANGED <<runs, server>>

-----------------------------------------------------------------------------
\* Completing, and waiting for the worker.

CompleteServe ==
  /\ task.at = "complete" /\ task.reply = "none"
  /\ server.upload = "pending" /\ server.id = task.uploadId /\ server.parts = Parts
  /\ server' = [server EXCEPT !.upload = "completed", !.asset = "verifying"]
  /\ task' = [task EXCEPT !.reply = "completed"]
  /\ UNCHANGED runs

CompleteReply ==
  /\ task.at = "complete" /\ task.reply = "completed"
  /\ task' = [task EXCEPT !.state = "verifying", !.at = "verify", !.reply = "none", !.seen = "verifying"]
  /\ UNCHANGED <<runs, server>>

\* The asset is asked for again, until the deadline.
Poll ==
  /\ task.at = "verify" /\ task.seen = "verifying"
  /\ task' = [task EXCEPT !.seen = server.asset]
  /\ UNCHANGED <<runs, server>>

\* (Mutant: the wait has no end.)
NoDeadline == FALSE

Deadline == task.seen = "verifying"

\* Ready, rejected, or still verifying at the deadline, which is done too.
Verified ==
  /\ task.at = "verify"
  /\ task.seen # "verifying" \/ Deadline
  /\ task' = [task EXCEPT !.at = "none", !.signal = "none",
                          !.state = IF task.seen = "rejected" THEN "failed" ELSE "done"]
  /\ UNCHANGED <<runs, server>>

-----------------------------------------------------------------------------
\* The server on its own: the worker judges the asset, a pending upload expires.

Judge == /\ server.asset = "verifying"
         /\ \E verdict \in {"ready", "rejected"} : server' = [server EXCEPT !.asset = verdict]
         /\ UNCHANGED <<task, runs>>

Expire == /\ server.upload = "pending"
          /\ server' = [server EXCEPT !.upload = "none", !.parts = {}]
          /\ UNCHANGED <<task, runs>>

User == Start \/ Pause \/ Cancel

PartStep(r, n) == PartDone(r, n) \/ PartRetry(r, n) \/ PartFails(r, n)

\* What happens to a run without anyone's doing.
Answers ==
  \/ CancelGoesOn \/ CancelAborts \/ Unwind \/ Hash \/ InitServe \/ InitReply \/ CallFails
  \/ PartsDone \/ CompleteServe \/ CompleteReply \/ Poll \/ Verified

Next ==
  \/ User \/ Answers
  \/ \E r \in Runs, n \in Parts : PartArrives(r, n) \/ PartStep(r, n)
  \/ Judge \/ Expire

\* A call to start or to complete answers or fails.
CallEnds == task.at \in {"init", "complete"} /\ (InitReply \/ CompleteReply \/ CallFails)

\* Every such call ends, every timer fires; a poll need not fail.
Fairness == /\ WF_vars(CancelGoesOn) /\ WF_vars(CancelAborts) /\ WF_vars(Unwind) /\ WF_vars(Hash)
            /\ WF_vars(CallEnds) /\ WF_vars(PartsDone) /\ WF_vars(Verified)
            /\ \A r \in Runs, n \in Parts : WF_vars(PartStep(r, n))

Spec == Init /\ [][Next]_vars
FairSpec == Spec /\ Fairness

-----------------------------------------------------------------------------
\* Properties.

States == {"queued", "paused", "done", "failed", "cancelled"} \cup Active

\* Every variable holds a value of its kind.
TypeOK ==
  /\ task \in [state : States, at : {"none", "hash", "init", "parts", "complete", "verify"},
               stop : {"none", "pause", "cancel"}, signal : {"none", "live", "aborted"},
               run : 0..MaxRuns, hashed : BOOLEAN, uploadId : Nat,
               reply : {"none", "exists", "started", "completed"},
               seen : {"none", "verifying", "ready", "rejected"}, cancel : {"no", "wait", "abort"}]
  /\ runs \in [Runs -> [upload : Nat, queue : SUBSET Parts, flight : SUBSET Parts,
                        tries : [Parts -> Nat]]]
  /\ server \in [upload : {"none", "pending", "completed"}, id : Nat, parts : SUBSET Parts,
                 asset : {"none", "verifying", "ready", "rejected"}]

\* An upload is completed only when S3 has all its parts: pauses, retries and requests an earlier
\* run left behind never make the engine count a part that is not there (sendParts).
CompleteHasAllParts ==
  task.at = "complete" /\ task.reply = "none" /\ server.upload = "pending"
    /\ server.id = task.uploadId => server.parts = Parts

\* A cancelled upload stays cancelled: no answer, timer or part that comes late changes its state,
\* and a run that was still going on has ended (cancel, engine.ts:174).
CancelledIsFinal ==
  [][task.state = "cancelled" => task'.state = "cancelled" /\ ~Running']_vars

\* An upload that is at work comes to an end or to a pause, however often requests fail and even if
\* no worker ever judges the file (MAX_ATTEMPTS, VERIFY_TIMEOUT_MS).
Settles == task.state \in Active ~> task.state \notin Active
=============================================================================
