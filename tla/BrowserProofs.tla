--------------------------- MODULE BrowserProofs ----------------------------
(***************************************************************************)
(* For any file, number of workers, attempts and runs: every variable of   *)
(* UploadTask keeps its kind, a cancelled upload stays cancelled, and an   *)
(* upload is completed only when all its parts are there.                  *)
(* For any files, limits, documents, lists, layouts and pointers: every    *)
(* variable of the parts of MCBrowser keeps its kind, the queue has each   *)
(* file that waits once, an action is begun on what is drawn as selected,  *)
(* and the selection box and the keys find the documents where they are    *)
(* drawn, in any number and at any width.                                  *)
(***************************************************************************)
EXTENDS MCBrowser, WellFoundedInduction, FiniteSetTheorems, SequenceTheorems, TLAPS

\* A set of numbers has a first one.
LEMMA MinIsLeast == ASSUME NEW S \in SUBSET Nat, S # {} PROVE \E x \in S : \A y \in S : x <= y
<1>1. IsWellFoundedOn(OpToRel(<, Nat), Nat)
  BY NatLessThanWellFounded
<1>2. PICK x \in S : \A y \in S : ~(<<y, x>> \in OpToRel(<, Nat))
  BY <1>1, WFMin
<1>3. ASSUME NEW y \in S PROVE x <= y
  <2>1. y < x => <<y, x>> \in OpToRel(<, Nat)
    BY DEF OpToRel
  <2>2. ~(y < x)
    BY <1>2, <1>3, <2>1, Zenon
  <2> QED
    BY <1>3, <2>2
<1> QED
  BY <1>3

LEMMA MinInSet == ASSUME NEW S \in SUBSET Nat, S # {} PROVE Min(S) \in S
  BY MinIsLeast DEF Min

-----------------------------------------------------------------------------
\* Types.

Tasks == [state : States, at : {"none", "hash", "init", "parts", "complete", "verify"},
          stop : {"none", "pause", "cancel"}, signal : {"none", "live", "aborted"},
          run : 0..MaxRuns, hashed : BOOLEAN, uploadId : Nat,
          reply : {"none", "exists", "started", "completed"},
          seen : {"none", "verifying", "ready", "rejected"}, cancel : {"no", "wait", "abort"}]
RunRecords == [upload : Nat, queue : SUBSET Parts, flight : SUBSET Parts, tries : [Parts -> Nat]]
Servers == [upload : {"none", "pending", "completed"}, id : Nat, parts : SUBSET Parts,
            asset : {"none", "verifying", "ready", "rejected"}]

LEMMA TypeParts == TypeOK <=> task \in Tasks /\ runs \in [Runs -> RunRecords] /\ server \in Servers
  BY DEF TypeOK, Tasks, RunRecords, Servers

\* A run is over when its upload is cancelled; and a run has the number of a run.
RunInv == /\ task.state = "cancelled" => task.at = "none"
          /\ task.at # "none" => task.run \in Runs

IInv == TypeOK /\ RunInv

LEMMA NoRunType == NoRun \in RunRecords
  BY DEF NoRun, RunRecords

\* How a run ends leaves a task, whose state is the one it had or `state`.
LEMMA EndsType ==
  ASSUME NEW t \in Tasks, NEW state \in States \ {"cancelled"}, t.state # "cancelled"
  PROVE /\ Ends(t, state) \in Tasks
        /\ Ends(t, state).at = "none"
  BY DEF Ends, Tasks

LEMMA LeavesType ==
  ASSUME NEW run \in RunRecords, NEW n \in Parts
  PROVE Leaves(run, n) \in RunRecords
  BY DEF Leaves, RunRecords

LEMMA GoesType ==
  ASSUME NEW run \in RunRecords, NEW n \in Parts
  PROVE Goes(run, n) \in RunRecords
<1>1. Leaves(run, n) \in RunRecords
  BY LeavesType
<1>2. CASE run.queue = {}
  BY <1>1, <1>2 DEF Goes
<1>3. CASE run.queue # {}
  <2>1. Min(run.queue) \in run.queue /\ run.queue \subseteq Parts
    BY <1>3, MinInSet, PartsAssumption DEF RunRecords
  <2> QED
    BY <1>1, <1>3, <2>1 DEF Goes, RunRecords
<1> QED
  BY <1>2, <1>3

LEMMA TypeInit == Init => IInv
  BY BoundsAssumption DEF Init, IInv, RunInv, TypeOK, NoRun, Runs, States, Active

LEMMA Keeps ==
  ASSUME task' \in Tasks, runs' \in [Runs -> RunRecords], server' \in Servers, RunInv'
  PROVE IInv'
  BY DEF IInv, TypeOK, Tasks, RunRecords, Servers

\* The steps of the user.
LEMMA TypeUser == IInv /\ User => IInv'
<1> SUFFICES ASSUME IInv, User PROVE IInv'
  OBVIOUS
<1>1. task \in Tasks /\ runs \in [Runs -> RunRecords] /\ server \in Servers
  BY TypeParts DEF IInv
<1>2. CASE Start
  <2>1. task.run + 1 \in Runs /\ task.run + 1 \in 0..MaxRuns
    BY <1>1, <1>2, BoundsAssumption DEF Start, Tasks, Runs
  <2>2. PICK s \in States \ {"cancelled"}, w \in {"init", "hash"} :
          task' = [task EXCEPT !.stop = "none", !.signal = "live", !.run = @ + 1, !.state = s, !.at = w]
    <3>1. {"starting", "hashing"} \subseteq States \ {"cancelled"}
      BY DEF States, Active
    <3> QED
      BY <1>2, <3>1 DEF Start
  <2>3. task' \in Tasks
    BY <1>1, <2>1, <2>2 DEF Tasks
  <2>4. RunInv'
    BY <1>1, <2>1, <2>2 DEF RunInv, Tasks
  <2> QED
    BY <1>1, <1>2, <2>3, <2>4, Keeps DEF Start
<1>3. CASE Pause
  <2>1. task' \in Tasks /\ RunInv'
    BY <1>1, <1>3 DEF Pause, IInv, RunInv, Tasks
  <2> QED
    BY <1>1, <1>3, <2>1, Keeps DEF Pause
<1>4. CASE Cancel
  <2>1. task' \in Tasks /\ RunInv'
    BY <1>1, <1>4 DEF Cancel, Cancelled, IInv, RunInv, Tasks, States, Running
  <2> QED
    BY <1>1, <1>4, <2>1, Keeps DEF Cancel
<1> QED
  BY <1>2, <1>3, <1>4 DEF User

\* What happens to a run by itself.
LEMMA TypeAnswers == IInv /\ Answers => IInv'
<1> SUFFICES ASSUME IInv, Answers PROVE IInv'
  OBVIOUS
<1>1. task \in Tasks /\ runs \in [Runs -> RunRecords] /\ server \in Servers
  BY TypeParts DEF IInv
<1>2. task.at # "none" => task.state # "cancelled" /\ task.run \in Runs
  BY DEF IInv, RunInv
<1>3. \A state \in {"failed", "paused"} :
        task.at # "none" => Ends(task, state) \in Tasks /\ Ends(task, state).at = "none"
  BY <1>1, <1>2, EndsType DEF States
<1>4. task.at # "none" => /\ Failed(task) \in Tasks /\ Failed(task).at = "none"
                          /\ Stopped(task) \in Tasks /\ Stopped(task).at = "none"
  BY <1>3 DEF Failed, Stopped
<1>5. ASSUME task' \in Tasks, task'.at = "none", runs' \in [Runs -> RunRecords], UNCHANGED server
      PROVE IInv'
  BY <1>1, <1>5, TypeParts DEF IInv, RunInv, TypeOK, Tasks, RunRecords, Servers
<1>6. CASE CancelGoesOn
  BY <1>1, <1>6 DEF CancelGoesOn, Cancelled, RunIsOver, Running, IInv, RunInv, TypeOK, Tasks, States
<1>7. CASE CancelAborts
  BY <1>1, <1>7 DEF CancelAborts, IInv, RunInv, TypeOK, Tasks, Servers
<1>8. CASE Unwind
  BY <1>1, <1>2, <1>4, <1>5, <1>8, NoRunType DEF Unwind
<1>9. CASE Hash
  <2>1. CASE task' = Failed(task)
    BY <1>1, <1>4, <1>5, <1>9, <2>1 DEF Hash
  <2>2. CASE task' = [task EXCEPT !.hashed = TRUE, !.state = "starting", !.at = "init"]
    BY <1>1, <1>9, <2>2 DEF Hash, IInv, RunInv, TypeOK, Tasks, States, Active
  <2> QED
    BY <1>9, <2>1, <2>2 DEF Hash
<1>10. CASE InitServe
  <2>1. task' \in Tasks /\ RunInv'
    BY <1>1, <1>10 DEF InitServe, IInv, RunInv, Tasks
  <2>2. server' = server
          \/ server' = [server EXCEPT !.upload = "pending", !.id = @ + 1, !.parts = {}]
    BY <1>10 DEF InitServe
  <2>3. server' \in Servers
    <3>1. server.id + 1 \in Nat /\ {} \in SUBSET Parts
      BY <1>1 DEF Servers
    <3> QED
      BY <1>1, <2>2, <3>1 DEF Servers
  <2> QED
    BY <1>1, <1>10, <2>1, <2>3, Keeps DEF InitServe
<1>11. CASE InitReply
  <2>1. CASE Aborted
    BY <1>1, <1>4, <1>5, <1>11, <2>1 DEF InitReply
  <2>2. CASE ~Aborted /\ task.reply = "exists"
    <3>1. task' \in Tasks /\ RunInv'
      <4>1. task' = [task EXCEPT !.state = "verifying", !.at = "verify", !.reply = "none",
                                 !.seen = server.asset]
        BY <1>11, <2>2 DEF InitReply
      <4>2. server.asset \in {"none", "verifying", "ready", "rejected"}
        BY <1>1 DEF Servers
      <4>3. task.run \in Runs
        BY <1>2, <1>11 DEF InitReply
      <4>4. "verifying" \in States
        BY DEF States, Active
      <4>5. task' \in Tasks
        BY <1>1, <4>1, <4>2, <4>4 DEF Tasks
      <4> QED
        BY <1>1, <4>1, <4>3, <4>5 DEF RunInv, Tasks
    <3> QED
      BY <1>1, <1>11, <2>2, <3>1, Keeps DEF InitReply
  <2>3. CASE ~Aborted /\ task.reply # "exists"
    <3> DEFINE queue == Parts \ Completed
               new == [NoRun EXCEPT !.upload = server.id, !.queue = queue \ FirstParts(queue),
                                    !.flight = FirstParts(queue)]
    <3>1. new \in RunRecords
      BY <1>1, NoRunType DEF RunRecords, NoRun, Servers, FirstParts
    <3>2. runs' = [runs EXCEPT ![task.run] = new]
      BY <1>11, <2>3 DEF InitReply
    <3> HIDE DEF new
    <3>3. runs' \in [Runs -> RunRecords]
      BY <1>1, <3>1, <3>2
    <3>4. task' \in Tasks /\ RunInv' /\ server' \in Servers
      <4>1. task' = [task EXCEPT !.state = "uploading", !.at = "parts", !.reply = "none",
                                 !.uploadId = server.id]
        BY <1>11, <2>3 DEF InitReply
      <4>2. server.id \in Nat
        BY <1>1 DEF Servers
      <4>3. task.run \in Runs
        BY <1>2, <1>11 DEF InitReply
      <4>4. server' = server
        BY <1>11 DEF InitReply
      <4>5. "uploading" \in States
        BY DEF States, Active
      <4>6. task' \in Tasks
        BY <1>1, <4>1, <4>2, <4>5 DEF Tasks
      <4> QED
        BY <1>1, <4>1, <4>3, <4>4, <4>6 DEF RunInv, Tasks
    <3> QED
      BY <3>3, <3>4, Keeps
  <2> QED
    BY <2>1, <2>2, <2>3
<1>12. CASE CallFails
  BY <1>1, <1>4, <1>5, <1>12 DEF CallFails
<1>13. CASE PartsDone
  BY <1>1, <1>13 DEF PartsDone, IInv, RunInv, TypeOK, Tasks, States, Active
<1>14. CASE CompleteServe
  <2>1. task' \in Tasks /\ RunInv'
    BY <1>1, <1>14 DEF CompleteServe, IInv, RunInv, Tasks
  <2>2. server' \in Servers
    BY <1>1, <1>14 DEF CompleteServe, Servers
  <2> QED
    BY <1>1, <1>14, <2>1, <2>2, Keeps DEF CompleteServe
<1>15. CASE CompleteReply
  <2>1. "verifying" \in States
    BY DEF States, Active
  <2>2. task' \in Tasks /\ RunInv'
    BY <1>1, <1>15, <2>1 DEF CompleteReply, IInv, RunInv, Tasks
  <2> QED
    BY <1>1, <1>15, <2>2, Keeps DEF CompleteReply
<1>16. CASE Poll
  <2>1. task' \in Tasks /\ RunInv'
    BY <1>1, <1>16 DEF Poll, IInv, RunInv, Tasks, Servers
  <2> QED
    BY <1>1, <1>16, <2>1, Keeps DEF Poll
<1>17. CASE Verified
  <2>1. task' \in Tasks /\ task'.at = "none"
    BY <1>1, <1>17 DEF Verified, Tasks, States
  <2> QED
    BY <1>1, <1>5, <1>17, <2>1 DEF Verified
<1> QED
  BY <1>6, <1>7, <1>8, <1>9, <1>10, <1>11, <1>12, <1>13, <1>14, <1>15, <1>16, <1>17 DEF Answers

\* The parts, and the server.
LEMMA TypeRest ==
  ASSUME IInv, \/ \E r \in Runs, n \in Parts : PartArrives(r, n) \/ PartStep(r, n)
               \/ Judge \/ Expire
  PROVE IInv'
<1>1. task \in Tasks /\ runs \in [Runs -> RunRecords] /\ server \in Servers
  BY TypeParts DEF IInv
<1>2. ASSUME task' \in Tasks, runs' \in [Runs -> RunRecords], server' \in Servers, RunInv'
      PROVE IInv'
  BY <1>2 DEF IInv, TypeOK, Tasks, RunRecords, Servers
<1>3. CASE Judge \/ Expire
  <2>1. server' \in Servers
    BY <1>1, <1>3 DEF Judge, Expire, Servers
  <2> QED
    BY <1>1, <1>2, <1>3, <2>1 DEF Judge, Expire, IInv, RunInv
<1>4. ASSUME NEW r \in Runs, NEW n \in Parts, PartArrives(r, n) \/ PartStep(r, n)
      PROVE IInv'
  <2>1. runs[r] \in RunRecords
    BY <1>1
  <2>2. CASE PartArrives(r, n)
    <3>1. server' \in Servers
      BY <1>1, <2>2 DEF PartArrives, Servers
    <3> QED
      BY <1>1, <1>2, <2>2, <3>1 DEF PartArrives, IInv, RunInv
  <2>3. CASE PartDone(r, n)
    <3>1. runs' \in [Runs -> RunRecords]
      BY <1>1, <2>1, <2>3, GoesType DEF PartDone
    <3> QED
      BY <1>1, <1>2, <2>3, <3>1 DEF PartDone, IInv, RunInv
  <2>4. CASE PartRetry(r, n)
    <3>1. PICK k \in Nat : runs' = [runs EXCEPT ![r].tries[n] = k]
      <4>1. PICK k : /\ k = (IF runs[r].tries[n] + 1 < MaxAttempts
                             THEN runs[r].tries[n] + 1 ELSE runs[r].tries[n])
                     /\ runs' = [runs EXCEPT ![r].tries[n] = k]
        BY <2>4 DEF PartRetry
      <4>2. runs[r].tries[n] \in Nat
        BY <2>1, <1>4 DEF RunRecords
      <4>3. k \in Nat
        BY <4>1, <4>2
      <4> QED
        BY <4>1, <4>3
    <3>2. [runs[r] EXCEPT !.tries[n] = k] \in RunRecords
      BY <2>1, <3>1 DEF RunRecords
    <3>3. runs' \in [Runs -> RunRecords]
      BY <1>1, <3>1, <3>2
    <3> QED
      BY <1>1, <1>2, <2>4, <3>3 DEF PartRetry, IInv, RunInv
  <2>5. CASE PartFails(r, n)
    <3>1. runs' \in [Runs -> RunRecords]
      BY <1>1, <2>1, <2>5, LeavesType DEF PartFails
    <3>2. CASE task' = task
      BY <1>1, <1>2, <2>5, <3>1, <3>2 DEF PartFails, IInv, RunInv
    <3>3. CASE task' # task
      <4>1. task.at = "parts" /\ task' = Ends(task, "failed") /\ task.state # "cancelled"
        BY <2>5, <3>3 DEF PartFails, Failed, IInv, RunInv
      <4>2. task' \in Tasks /\ task'.at = "none"
        BY <1>1, <4>1, EndsType DEF States
      <4> QED
        BY <1>1, <1>2, <2>5, <3>1, <4>2 DEF PartFails, RunInv
    <3> QED
      BY <3>2, <3>3
  <2> QED
    BY <1>4, <2>2, <2>3, <2>4, <2>5 DEF PartStep
<1> QED
  BY <1>3, <1>4

LEMMA TypeNext == IInv /\ [Next]_vars => IInv'
<1>1. IInv /\ UNCHANGED vars => IInv'
  BY DEF IInv, RunInv, TypeOK, vars
<1> QED
  BY <1>1, TypeUser, TypeAnswers, TypeRest DEF Next

\* Every variable keeps its kind.
THEOREM TypeCorrect == Spec => []TypeOK
<1>1. IInv => TypeOK
  BY DEF IInv
<1> QED
  BY <1>1, TypeInit, TypeNext, PTL DEF Spec

-----------------------------------------------------------------------------
\* What is cancelled stays so.

LEMMA CancelledStays ==
  IInv /\ task.state = "cancelled" /\ [Next]_vars => task'.state = "cancelled"
<1> SUFFICES ASSUME IInv, task.state = "cancelled", [Next]_vars PROVE task'.state = "cancelled"
  OBVIOUS
<1>1. task \in Tasks /\ task.at = "none"
  BY TypeParts DEF IInv, RunInv
<1>2. CASE UNCHANGED task
  BY <1>2
<1>3. CASE User
  BY <1>1, <1>3 DEF User, Start, Pause, Cancel
<1>4. CASE Answers
  BY <1>1, <1>4 DEF Answers, CancelGoesOn, CancelAborts, Unwind, Hash, InitServe, InitReply, CallFails,
                    PartsDone, CompleteServe, CompleteReply, Poll, Verified, Cancelled, Tasks
<1>5. CASE \E r \in Runs, n \in Parts : PartArrives(r, n) \/ PartStep(r, n)
  BY <1>1, <1>5 DEF PartArrives, PartStep, PartDone, PartRetry, PartFails
<1>6. CASE Judge \/ Expire
  BY <1>6 DEF Judge, Expire
<1> QED
  BY <1>2, <1>3, <1>4, <1>5, <1>6 DEF Next, vars

\* A cancelled upload stays cancelled and nothing runs for it (cancel, engine.ts:174).
THEOREM CancelledForGood == Spec => CancelledIsFinal
<1>1. IInv /\ IInv' /\ [Next]_vars => (task.state = "cancelled" => task'.state = "cancelled" /\ ~Running')
  BY CancelledStays DEF IInv, RunInv, Running
<1> QED
  BY <1>1, TypeInit, TypeNext, PTL DEF Spec, CancelledIsFinal
-----------------------------------------------------------------------------
\* What a run still has to send.

\* While the server's upload is the one the run sends to, every part the server lacks is in the
\* run's queue or on its way: the engine forgets none.
NoneForgotten ==
  task.at = "parts" =>
    /\ Mine.upload = task.uploadId
    /\ server.upload = "pending" /\ server.id = task.uploadId
         => Parts \ server.parts \subseteq Mine.flight \cup Mine.queue

PInv == IInv /\ NoneForgotten /\ CompleteHasAllParts

LEMMA PartsInit == Init => NoneForgotten /\ CompleteHasAllParts
  BY DEF Init, NoneForgotten, CompleteHasAllParts

\* A step after which the engine neither sends nor completes.
LEMMA AtRest == task'.at \notin {"parts", "complete"} => (NoneForgotten /\ CompleteHasAllParts)'
  BY DEF NoneForgotten, CompleteHasAllParts

\* A step that only withdraws or replaces the server's upload, or adds to its parts.
LEMMA ServerMoves ==
  ASSUME PInv, task' = task, runs' = runs, server'.id = server.id,
         \/ server'.upload # "pending"
         \/ server'.upload = server.upload /\ server.parts \subseteq server'.parts
            /\ server'.parts \subseteq Parts
  PROVE (NoneForgotten /\ CompleteHasAllParts)'
<1>1. server.parts \subseteq Parts
  BY DEF PInv, IInv, TypeOK
<1>2. NoneForgotten'
  BY DEF PInv, NoneForgotten, Mine
<1>3. CompleteHasAllParts'
  BY <1>1 DEF PInv, CompleteHasAllParts
<1> QED
  BY <1>2, <1>3

LEMMA PartsUser == PInv /\ User => (NoneForgotten /\ CompleteHasAllParts)'
<1> SUFFICES ASSUME PInv, User PROVE (NoneForgotten /\ CompleteHasAllParts)'
  OBVIOUS
<1>1. task \in Tasks
  BY TypeParts DEF PInv, IInv
<1>2. CASE Start
  <2>1. task'.at \in {"init", "hash"}
    BY <1>1, <1>2 DEF Start, Tasks
  <2> QED
    BY <2>1, AtRest
<1>3. CASE Pause \/ Cancel
  <2>1. /\ task'.at = task.at /\ task'.run = task.run /\ task'.uploadId = task.uploadId
        /\ task'.reply = task.reply /\ UNCHANGED <<runs, server>>
    BY <1>1, <1>3 DEF Pause, Cancel, Cancelled, Tasks
  <2> QED
    BY <2>1 DEF PInv, NoneForgotten, CompleteHasAllParts, Mine
<1> QED
  BY <1>2, <1>3 DEF User

LEMMA PartsAnswers == PInv /\ Answers => (NoneForgotten /\ CompleteHasAllParts)'
<1> SUFFICES ASSUME PInv, Answers PROVE (NoneForgotten /\ CompleteHasAllParts)'
  OBVIOUS
<1>1. task \in Tasks /\ runs \in [Runs -> RunRecords] /\ server \in Servers
  BY TypeParts DEF PInv, IInv
<1>2. task.at # "none" => task.state # "cancelled" /\ task.run \in Runs
  BY DEF PInv, IInv, RunInv
<1>3. task.at # "none" => Failed(task).at = "none" /\ Stopped(task).at = "none"
  BY <1>1, <1>2, EndsType DEF Failed, Stopped, States
<1>4. CASE Unwind \/ CallFails
  <2>1. task'.at = "none"
    BY <1>3, <1>4 DEF Unwind, CallFails
  <2> QED
    BY <2>1, AtRest
<1>5. CASE CancelGoesOn \/ Hash \/ InitServe \/ CompleteReply \/ Poll \/ Verified
  <2>1. task'.at \notin {"parts", "complete"}
    BY <1>1, <1>3, <1>5 DEF CancelGoesOn, Cancelled, RunIsOver, Running, Hash, InitServe, CompleteReply,
                            Poll, Verified, Tasks
  <2> QED
    BY <2>1, AtRest
<1>6. CASE CancelAborts
  <2>1. /\ task'.at = task.at /\ task'.run = task.run /\ task'.uploadId = task.uploadId
        /\ task'.reply = task.reply /\ runs' = runs
    BY <1>1, <1>6 DEF CancelAborts, Tasks
  <2>2. server' = server \/ server'.upload = "none"
    BY <1>1, <1>6 DEF CancelAborts, Servers
  <2> QED
    BY <2>1, <2>2 DEF PInv, NoneForgotten, CompleteHasAllParts, Mine
<1>7. CASE InitReply
  <2>1. CASE task'.at \notin {"parts", "complete"}
    BY <2>1, AtRest
  <2>2. CASE task'.at \in {"parts", "complete"}
    <3> DEFINE queue == Parts \ Completed
               new == [NoRun EXCEPT !.upload = server.id, !.queue = queue \ FirstParts(queue),
                                    !.flight = FirstParts(queue)]
    <3>1. /\ task' = [task EXCEPT !.state = "uploading", !.at = "parts", !.reply = "none",
                                  !.uploadId = server.id]
          /\ runs' = [runs EXCEPT ![task.run] = new]
          /\ server' = server
      BY <1>1, <1>3, <1>7, <2>2 DEF InitReply, Tasks
    <3>2. /\ new.upload = server.id
          /\ new.flight \cup new.queue = queue
      BY DEF NoRun, FirstParts
    <3>3. Parts \ server.parts \subseteq queue
      BY DEF Completed
    <3> HIDE DEF new, queue
    <3>4. /\ task'.at = "parts" /\ task'.uploadId = server.id /\ task'.run = task.run
          /\ runs'[task.run] = new
      BY <1>1, <1>2, <1>7, <3>1 DEF InitReply, Tasks
    <3>5. NoneForgotten'
      BY <3>1, <3>2, <3>3, <3>4 DEF NoneForgotten, Mine
    <3>6. CompleteHasAllParts'
      BY <3>4 DEF CompleteHasAllParts
    <3> QED
      BY <3>5, <3>6
  <2> QED
    BY <2>1, <2>2
<1>8. CASE PartsDone
  <2>1. task'.at = "complete" /\ task'.uploadId = task.uploadId /\ server' = server
    BY <1>1, <1>8 DEF PartsDone, Tasks
  <2>2. server.upload = "pending" /\ server.id = task.uploadId => server.parts = Parts
    BY <1>1, <1>8 DEF PartsDone, PInv, NoneForgotten, Servers
  <2> QED
    BY <2>1, <2>2 DEF NoneForgotten, CompleteHasAllParts
<1>9. CASE CompleteServe
  <2>1. task'.at = "complete" /\ task'.reply = "completed"
    BY <1>1, <1>9 DEF CompleteServe, Tasks
  <2> QED
    BY <2>1 DEF NoneForgotten, CompleteHasAllParts
<1> QED
  BY <1>4, <1>5, <1>6, <1>7, <1>8, <1>9 DEF Answers

LEMMA PartsRest ==
  ASSUME PInv, \/ \E r \in Runs, n \in Parts : PartArrives(r, n) \/ PartStep(r, n)
               \/ Judge \/ Expire
  PROVE (NoneForgotten /\ CompleteHasAllParts)'
<1>1. task \in Tasks /\ runs \in [Runs -> RunRecords] /\ server \in Servers
  BY TypeParts DEF PInv, IInv
<1>2. CASE Judge \/ Expire
  <2>1. /\ task' = task /\ runs' = runs /\ server'.id = server.id
        /\ \/ server'.upload # "pending"
           \/ server'.upload = server.upload /\ server'.parts = server.parts
    BY <1>1, <1>2 DEF Judge, Expire, Servers
  <2> QED
    BY <1>1, <2>1, ServerMoves DEF Servers
<1>3. ASSUME NEW r \in Runs, NEW n \in Parts, PartArrives(r, n) \/ PartStep(r, n)
      PROVE (NoneForgotten /\ CompleteHasAllParts)'
  <2>1. CASE PartArrives(r, n)
    <3>1. /\ task' = task /\ runs' = runs /\ server'.id = server.id
          /\ server'.upload = server.upload /\ server'.parts = server.parts \cup {n}
      BY <1>1, <2>1 DEF PartArrives, Servers
    <3>2. server.parts \cup {n} \subseteq Parts
      BY <1>1, <1>3 DEF Servers
    <3> QED
      BY <3>1, <3>2, ServerMoves
  <2>2. CASE PartFails(r, n) /\ r = task.run /\ task.at = "parts"
    <3>1. task'.at = "none"
      BY <1>1, <2>2, EndsType DEF PartFails, Failed, PInv, IInv, RunInv, States
    <3> QED
      BY <3>1, AtRest
  <2>3. CASE PartFails(r, n) /\ ~(r = task.run /\ task.at = "parts")
    <3>1. /\ task' = task /\ server' = server
          /\ task.at = "parts" => r # task.run
          /\ runs' = [runs EXCEPT ![r] = Leaves(@, n)]
      BY <2>3 DEF PartFails
    <3>2. task.at = "parts" => runs'[task.run] = runs[task.run]
      BY <1>1, <3>1 DEF PInv, IInv, RunInv
    <3> QED
      BY <3>1, <3>2 DEF PInv, NoneForgotten, CompleteHasAllParts, Mine
  <2>4. CASE PartDone(r, n)
    <3>1. /\ task' = task /\ server' = server /\ runs[r] \in RunRecords
          /\ runs' = [runs EXCEPT ![r] = Goes(runs[r], n)]
          /\ n \in server.parts
      BY <1>1, <1>3, <2>4 DEF PartDone
    <3>2. /\ Goes(runs[r], n).upload = runs[r].upload
          /\ (runs[r].flight \cup runs[r].queue) \ {n}
               \subseteq Goes(runs[r], n).flight \cup Goes(runs[r], n).queue
      BY <3>1 DEF Goes, Leaves, RunRecords
    <3>3. task.at = "parts" =>
            /\ runs'[task.run].upload = runs[task.run].upload
            /\ (runs[task.run].flight \cup runs[task.run].queue) \ {n}
                 \subseteq runs'[task.run].flight \cup runs'[task.run].queue
      <4>1. CASE task.run = r
        BY <1>1, <1>3, <3>1, <3>2, <4>1
      <4>2. CASE task.run # r
        BY <1>1, <3>1, <4>2 DEF PInv, IInv, RunInv
      <4> QED
        BY <4>1, <4>2
    <3>4. NoneForgotten'
      BY <3>1, <3>3 DEF PInv, NoneForgotten, Mine
    <3>5. CompleteHasAllParts'
      BY <3>1 DEF PInv, CompleteHasAllParts
    <3> QED
      BY <3>4, <3>5
  <2>5. CASE PartRetry(r, n)
    <3>1. task' = task /\ server' = server
      BY <2>5 DEF PartRetry
    <3>2. \A s \in Runs : /\ runs'[s].upload = runs[s].upload
                          /\ runs'[s].flight = runs[s].flight /\ runs'[s].queue = runs[s].queue
      BY <1>1, <1>3, <2>5 DEF PartRetry, RunRecords
    <3> QED
      BY <3>1, <3>2 DEF PInv, IInv, RunInv, NoneForgotten, CompleteHasAllParts, Mine
  <2> QED
    BY <1>3, <2>1, <2>2, <2>3, <2>4, <2>5 DEF PartStep
<1> QED
  BY <1>2, <1>3

LEMMA PartsNext == PInv /\ [Next]_vars => PInv'
<1>1. PInv /\ UNCHANGED vars => (NoneForgotten /\ CompleteHasAllParts)'
  BY DEF PInv, NoneForgotten, CompleteHasAllParts, Mine, vars
<1> QED
  BY <1>1, TypeNext, PartsUser, PartsAnswers, PartsRest DEF PInv, Next

\* An upload is completed only when S3 has all its parts (sendParts, engine.ts:254).
THEOREM CompletedWhole == Spec => []CompleteHasAllParts
<1>1. Init => PInv
  BY TypeInit, PartsInit DEF PInv
<1>2. PInv => CompleteHasAllParts
  BY DEF PInv
<1> QED
  BY <1>1, <1>2, PartsNext, PTL DEF Spec

-----------------------------------------------------------------------------
\* Where the documents are drawn.

LEMMA MaxOf == ASSUME NEW m \in Int, NEW n \in Int PROVE P!Max({m, n}) = IF m >= n THEN m ELSE n
<1>1. CASE m >= n
  <2>1. \A x \in {m, n} : (\A y \in {m, n} : x >= y) <=> x = m
    BY <1>1
  <2> QED
    BY <1>1, <2>1 DEF P!Max
<1>2. CASE ~(m >= n)
  <2>1. \A x \in {m, n} : (\A y \in {m, n} : x >= y) <=> x = n
    BY <1>2
  <2> QED
    BY <1>2, <2>1 DEF P!Max
<1> QED
  BY <1>1, <1>2

LEMMA MinOf == ASSUME NEW m \in Int, NEW n \in Int PROVE P!Min({m, n}) = IF m <= n THEN m ELSE n
<1>1. CASE m <= n
  <2>1. \A x \in {m, n} : (\A y \in {m, n} : x <= y) <=> x = m
    BY <1>1
  <2> QED
    BY <1>1, <2>1 DEF P!Min
<1>2. CASE ~(m <= n)
  <2>1. \A x \in {m, n} : (\A y \in {m, n} : x <= y) <=> x = n
    BY <1>2
  <2> QED
    BY <1>2, <2>1 DEF P!Min
<1> QED
  BY <1>1, <1>2

LEMMA Times == ASSUME NEW k \in Nat, NEW m \in Int, NEW n \in Int, m <= n
               PROVE k * m \in Int /\ k * n \in Int /\ k * m <= k * n
OBVIOUS

LEMMA TimesMore == ASSUME NEW k \in Nat, NEW m \in Int, NEW n \in Int, m < n
                   PROVE k * m + k <= k * n
<1>1. k * (m + 1) <= k * n
  BY Times
<1>2. k * (m + 1) = k * m + k
  OBVIOUS
<1> QED
  BY <1>1, <1>2

\* A number is so many times another and a rest.
LEMMA DivMod == ASSUME NEW i \in Int, NEW k \in Nat \ {0}
                PROVE /\ i \div k \in Int /\ i % k \in Int /\ 0 <= i % k /\ i % k < k
                      /\ i = k * (i \div k) + (i % k)
OBVIOUS

LEMMA DivModIs == ASSUME NEW q \in Int, NEW r \in Int, NEW k \in Nat \ {0}, 0 <= r, r < k
                  PROVE (k * q + r) \div k = q /\ (k * q + r) % k = r
<1> DEFINE i == k * q + r
<1>1. i \in Int
  OBVIOUS
<1>2. /\ i \div k \in Int /\ i % k \in Int /\ 0 <= i % k /\ i % k < k
      /\ i = k * (i \div k) + (i % k)
  BY <1>1, DivMod
<1>3. k * q + r = k * (i \div k) + (i % k)
  BY <1>2
<1> HIDE DEF i
<1>4. ~(i \div k < q)
  <2> SUFFICES ASSUME i \div k < q PROVE FALSE
    OBVIOUS
  <2>1. k * (i \div k) + k <= k * q
    BY <1>2, TimesMore
  <2> QED
    BY <1>2, <1>3, <2>1
<1>5. ~(q < i \div k)
  <2> SUFFICES ASSUME q < i \div k PROVE FALSE
    OBVIOUS
  <2>1. k * q + k <= k * (i \div k)
    BY <1>2, TimesMore
  <2> QED
    BY <1>2, <1>3, <2>1
<1>6. i \div k = q
  BY <1>2, <1>4, <1>5
<1>7. i % k = r
  <2>1. k * q \in Int /\ k * (i \div k) = k * q
    BY <1>6
  <2>2. PICK x \in Int : x = k * q
    BY <2>1
  <2>3. PICK y \in Int : y = i % k
    BY <1>2
  <2>4. x + r = x + y
    BY <1>3, <2>1, <2>2, <2>3, Zenon
  <2>5. r = y
    BY <2>4
  <2> QED
    BY <2>3, <2>5
<1> QED
  BY <1>6, <1>7 DEF i

\* Dividing rounds down.
LEMMA DivAtLeast == ASSUME NEW i \in Int, NEW q \in Int, NEW k \in Nat \ {0}
                    PROVE (i \div k >= q) <=> (i >= k * q)
<1>1. /\ i \div k \in Int /\ i % k \in Int /\ 0 <= i % k /\ i % k < k
      /\ i = k * (i \div k) + (i % k)
  BY DivMod
<1>2. ASSUME i \div k >= q PROVE i >= k * q
  <2>1. k * q <= k * (i \div k)
    BY <1>1, <1>2, Times
  <2> QED
    BY <1>1, <2>1
<1>3. ASSUME i \div k < q PROVE i < k * q
  <2>1. k * (i \div k) + k <= k * q
    BY <1>1, <1>3, TimesMore
  <2> QED
    BY <1>1, <2>1
<1> QED
  BY <1>1, <1>2, <1>3

-----------------------------------------------------------------------------
\* The places.

LEMMA ShapeIs == ASSUME NEW l \in Shapes
                 PROVE /\ l.width \in Nat /\ l.mode \in {"grid", "list"}
                       /\ P!MinCard(l.width) \in {140, 184}
                       /\ P!Usable(l.width) \in Nat /\ P!Usable(l.width) >= l.width
                       /\ P!Usable(l.width) >= P!MinCard(l.width)
                       /\ P!Usable(l.width) \in {l.width, P!MinCard(l.width)}
<1>1. l.width \in Nat /\ l.mode \in {"grid", "list"}
  BY PlaceAssumption DEF Shapes
<1>2. P!MinCard(l.width) \in {140, 184}
  BY DEF P!MinCard
<1>3. P!Usable(l.width) = IF l.width >= P!MinCard(l.width) THEN l.width ELSE P!MinCard(l.width)
  BY <1>1, <1>2, MaxOf DEF P!Usable
<1> QED
  BY <1>1, <1>2, <1>3

\* There is at least one column, and a card is at least as wide as it should be.
LEMMA ColumnsFit == ASSUME NEW l \in Shapes
                    PROVE /\ P!Columns(l) \in Nat \ {0} /\ P!CardsWidth(l) \in Nat
                          /\ P!CardsWidth(l) = P!Usable(l.width) - 20 * (P!Columns(l) - 1)
                          /\ l.mode = "list" => P!Columns(l) = 1
                          /\ P!Columns(l) = 1 \/ P!Usable(l.width) = l.width
<1>1. /\ l.width \in Nat /\ l.mode \in {"grid", "list"}
      /\ P!MinCard(l.width) \in {140, 184}
      /\ P!Usable(l.width) \in Nat /\ P!Usable(l.width) >= l.width
      /\ P!Usable(l.width) >= P!MinCard(l.width)
      /\ P!Usable(l.width) \in {l.width, P!MinCard(l.width)}
  BY ShapeIs
<1>2. CASE l.mode = "list"
  BY <1>1, <1>2 DEF P!Columns, P!CardsWidth, P!Gap
<1>3. CASE l.mode = "grid"
  <2>1. PICK m, u : m = P!MinCard(l.width) /\ u = P!Usable(l.width)
    OBVIOUS
  <2>2. P!Columns(l) = (u + 20) \div (m + 20)
    BY <1>3, <2>1 DEF P!Columns, P!Gap
  <2>3. P!Columns(l) \in Nat \ {0} /\ 20 * (P!Columns(l) - 1) <= u
        /\ (u = m => P!Columns(l) = 1)
    <3>1. CASE m = 140
      BY <1>1, <2>1, <2>2, <3>1
    <3>2. CASE m = 184
      BY <1>1, <2>1, <2>2, <3>2
    <3> QED
      BY <1>1, <2>1, <3>1, <3>2
  <2>4. P!CardsWidth(l) = u - 20 * (P!Columns(l) - 1)
    BY <2>1 DEF P!CardsWidth, P!Gap
  <2> QED
    BY <1>1, <1>3, <2>1, <2>3, <2>4
<1> QED
  BY <1>1, <1>2, <1>3

LEMMA RowsFit == ASSUME NEW l \in Shapes
                 PROVE /\ P!CardHeight(l) \in Nat /\ P!RowHeight(l) \in Nat \ {0}
                       /\ l.mode = "list" => P!RowHeight(l) = 48
                       /\ l.mode = "grid" => P!RowHeight(l) = P!CardHeight(l) + 20
<1>1. P!Columns(l) \in Nat \ {0} /\ P!CardsWidth(l) \in Nat /\ l.mode \in {"grid", "list"}
  BY ColumnsFit, ShapeIs
<1>2. P!CardHeight(l) \in Nat /\ P!CardHeight(l) >= 60
  <2>1. PICK k, w : k = P!Columns(l) /\ w = P!CardsWidth(l)
    OBVIOUS
  <2>2. 8 * k \in Nat \ {0} /\ 6 * w + 4 * k \in Nat
    BY <1>1, <2>1
  <2>3. (6 * w + 4 * k) \div (8 * k) \in Int
    BY <2>2, DivMod
  <2>4. (6 * w + 4 * k) \div (8 * k) >= 0
    <3>1. (8 * k) * 0 = 0
      BY <2>2
    <3> QED
      BY <2>2, <3>1, DivAtLeast
  <2> QED
    BY <2>1, <2>3, <2>4 DEF P!CardHeight
<1> QED
  BY <1>1, <1>2 DEF P!RowHeight, P!ListRow, P!Gap

\* The row and the column of item i.
LEMMA RowOf == ASSUME NEW i \in Nat, NEW k \in Nat \ {0}
               PROVE /\ i \div k \in Nat /\ i % k \in Nat /\ i % k <= k - 1
                     /\ i = k * (i \div k) + (i % k)
<1>1. /\ i \div k \in Int /\ i % k \in Int /\ 0 <= i % k /\ i % k < k
      /\ i = k * (i \div k) + (i % k)
  BY DivMod
<1>2. i \div k >= 0
  <2>1. k * 0 = 0
    OBVIOUS
  <2> QED
    BY <2>1, DivAtLeast
<1> QED
  BY <1>1, <1>2

\* The rows that the box reaches: those that begin above its bottom and end below its top.
LEMMA RowsReached ==
  ASSUME NEW l \in Shapes, NEW n \in Nat, NEW i \in 0..n - 1, NEW top \in Int, NEW bottom \in Int
  PROVE i \div P!Columns(l) \in P!Max({0, top \div P!RowHeight(l)}) .. P!Min({P!RowCount(l, n) - 1, bottom \div P!RowHeight(l)})
        <=> /\ bottom >= P!RowHeight(l) * (i \div P!Columns(l))
            /\ top < P!RowHeight(l) * (i \div P!Columns(l)) + P!RowHeight(l)
<1>1. PICK k \in Nat \ {0}, h \in Nat \ {0} : k = P!Columns(l) /\ h = P!RowHeight(l)
  BY ColumnsFit, RowsFit
<1>2. /\ i \div k \in Nat /\ i % k \in Nat /\ i % k <= k - 1
      /\ i = k * (i \div k) + (i % k)
  <2>1. i \in Nat
    OBVIOUS
  <2> QED
    BY <2>1, RowOf, Zenon
<1>3. PICK row \in Nat : row = i \div k
  BY <1>2
<1>4. top \div h \in Int /\ bottom \div h \in Int /\ (n + k - 1) \div k \in Int
  BY DivMod
<1>5. P!RowCount(l, n) = (n + k - 1) \div k
  BY <1>1 DEF P!RowCount
<1>6. row <= P!RowCount(l, n) - 1
  <2>1. k * row \in Int /\ k * (row + 1) = k * row + k
    OBVIOUS
  <2>2. n + k - 1 >= k * (row + 1)
    BY <1>2, <1>3, <2>1
  <2>3. (n + k - 1) \div k >= row + 1
    BY <2>2, DivAtLeast
  <2> QED
    BY <1>4, <1>5, <2>3
<1>7. (bottom \div h >= row) <=> (bottom >= h * row)
  BY DivAtLeast
<1>8. (top \div h >= row + 1) <=> (top >= h * row + h)
  <2>1. h * (row + 1) = h * row + h
    OBVIOUS
  <2> QED
    BY <2>1, DivAtLeast
<1>9. h * row \in Int
  OBVIOUS
<1>10. PICK t \in Int, b1 \in Int, c1 \in Int, z \in Int :
         t = top \div h /\ b1 = bottom \div h /\ c1 = P!RowCount(l, n) - 1 /\ z = h * row
  BY <1>4, <1>5, <1>9
<1>11. P!Max({0, t}) = (IF 0 >= t THEN 0 ELSE t) /\ P!Min({c1, b1}) = IF c1 <= b1 THEN c1 ELSE b1
  BY MaxOf, MinOf
<1>12. (row \in P!Max({0, t}) .. P!Min({c1, b1})) <=> (bottom >= z /\ top < z + h)
  BY <1>6, <1>7, <1>8, <1>10, <1>11
<1> QED
  BY <1>1, <1>3, <1>10, <1>12

\* A box that touches an item on the screen is on the screen.
LEMMA TouchesInside ==
  ASSUME NEW k \in Nat \ {0}, NEW j \in 0..k - 1, NEW w \in Nat, NEW left \in Int, NEW right \in Int,
         k * left <= j * (w + 20) + w - 20 * (k - 1), k * right >= j * (w + 20)
  PROVE left <= w /\ right >= 0
<1>1. j * (w + 20) \in Nat /\ k * right \in Int /\ k * left \in Int /\ k * w \in Int
  OBVIOUS
<1>2. ~ (right < 0)
  <2> SUFFICES ASSUME right < 0 PROVE FALSE
    OBVIOUS
  <2>1. k * right + k <= k * 0
    BY TimesMore
  <2>2. k * 0 = 0
    OBVIOUS
  <2> QED
    BY <1>1, <2>1, <2>2
<1>3. ~ (w < left)
  <2> SUFFICES ASSUME w < left PROVE FALSE
    OBVIOUS
  <2>1. k * w + k <= k * left
    BY TimesMore
  <2>2. (w + 20) * j <= (w + 20) * (k - 1)
    BY Times
  <2>3. (w + 20) * j = j * (w + 20) /\ (w + 20) * (k - 1) = k * w + 20 * (k - 1) - w
    OBVIOUS
  <2> QED
    BY <1>1, <2>1, <2>2, <2>3
<1> QED
  BY <1>2, <1>3

LEMMA TouchesAreHits ==
  ASSUME layout \in Shapes, NEW n \in Nat, NEW r \in P!Rects, NEW i \in 0..n - 1
  PROVE LET cols == P!Columns(layout) IN
        i \in P!ItemsInRect(r, layout, n)
          <=> /\ cols * r.left <= P!Drawn(i).right /\ cols * r.right >= P!Drawn(i).left
              /\ r.top <= P!Drawn(i).bottom /\ r.bottom >= P!Drawn(i).top
<1>1. PICK k \in Nat \ {0}, h \in Nat \ {0}, w \in Nat, u \in Nat, cw \in Nat, ch \in Nat :
         /\ k = P!Columns(layout) /\ h = P!RowHeight(layout) /\ w = layout.width /\ u = P!Usable(layout.width)
         /\ cw = P!CardsWidth(layout) /\ ch = P!CardHeight(layout)
  <2>1. P!Columns(layout) \in Nat \ {0} /\ P!CardsWidth(layout) \in Nat
    BY ColumnsFit, Zenon
  <2>2. P!RowHeight(layout) \in Nat \ {0} /\ P!CardHeight(layout) \in Nat
    BY RowsFit, Zenon
  <2>3. layout.width \in Nat /\ P!Usable(layout.width) \in Nat
    BY ShapeIs, Zenon
  <2> QED
    BY <2>1, <2>2, <2>3, Zenon
<1>2. /\ layout.mode \in {"grid", "list"} /\ cw = u - 20 * (k - 1) /\ u >= w
      /\ layout.mode = "list" => k = 1 /\ h = 48
      /\ layout.mode = "grid" => h = ch + 20
      /\ k = 1 \/ u = w
  BY <1>1, ColumnsFit, RowsFit, ShapeIs
<1>3. PICK x1 \in Int, x2 \in Int, y1 \in Int, y2 \in Int :
         x1 = r.left /\ x2 = r.right /\ y1 = r.top /\ y2 = r.bottom
  BY PlaceAssumption DEF P!Rects
<1>4. PICK row \in Nat, col \in 0..k - 1 : row = i \div k /\ col = i % k
  <2>1. i \in Nat
    OBVIOUS
  <2>2. /\ i \div k \in Nat /\ i % k \in Nat /\ i % k <= k - 1
    BY <2>1, RowOf, Zenon
  <2>3. i % k \in 0..k - 1
    BY <2>2
  <2> QED
    BY <2>2, <2>3, Zenon
<1>5. PICK z \in Nat : z = row * h /\ z = h * row
  OBVIOUS
<1>6. PICK a1 \in Nat, a2 \in Nat, kl \in Int, kr \in Int :
        a1 = col * (w + 20) /\ a2 = col * (u + 20) /\ kl = k * x1 /\ kr = k * x2
  OBVIOUS
<1>7. /\ P!Drawn(i).left = a1 /\ P!Drawn(i).right = a1 + w - 20 * (k - 1)
      /\ P!Drawn(i).top = z /\ P!Drawn(i).bottom = z + IF layout.mode = "grid" THEN ch ELSE 47
  BY <1>1, <1>4, <1>5, <1>6 DEF P!Drawn, P!Gap, P!ListRow
<1>8. P!Crosses(r, layout, i) <=> /\ y2 >= z /\ y1 <= z + ch
                                  /\ kr >= a2 /\ kl <= a2 + cw
  BY <1>1, <1>3, <1>4, <1>5, <1>6 DEF P!Crosses, P!Gap
<1>9. i \in P!ItemsInRect(r, layout, n)
        <=> /\ n # 0 /\ ~ (y2 < 0) /\ ~ (x2 < 0) /\ ~ (x1 > w)
            /\ y2 >= z /\ y1 < z + h
            /\ layout.mode = "grid" => P!Crosses(r, layout, i)
  <2>1. i \div k \in P!Max({0, y1 \div h}) .. P!Min({P!RowCount(layout, n) - 1, y2 \div h})
          <=> y2 >= z /\ y1 < z + h
    <3>1. (i \div P!Columns(layout)
             \in P!Max({0, y1 \div P!RowHeight(layout)})
                 .. P!Min({P!RowCount(layout, n) - 1, y2 \div P!RowHeight(layout)}))
            <=> /\ y2 >= P!RowHeight(layout) * (i \div P!Columns(layout))
                /\ y1 < P!RowHeight(layout) * (i \div P!Columns(layout)) + P!RowHeight(layout)
      BY RowsReached, Zenon
    <3> QED
      BY <1>1, <1>4, <1>5, <3>1, Zenon
  <2> DEFINE rows == P!Max({0, y1 \div h}) .. P!Min({P!RowCount(layout, n) - 1, y2 \div h})
  <2>2. P!ItemsInRect(r, layout, n) =
          IF n = 0 \/ y2 < 0 \/ x2 < 0 \/ x1 > w THEN {}
          ELSE {j \in 0..n - 1 : j \div k \in rows /\ (layout.mode = "grid" => P!Crosses(r, layout, j))}
    BY <1>1, <1>3 DEF P!ItemsInRect
  <2> HIDE DEF rows
  <2>3. i \div k \in rows <=> y2 >= z /\ y1 < z + h
    BY <2>1 DEF rows
  <2> QED
    BY <2>2, <2>3, Zenon
<1>10. kl <= a1 + w - 20 * (k - 1) /\ kr >= a1 => x1 <= w /\ x2 >= 0
  BY <1>6, TouchesInside
<1>11. k = 1 => a1 = 0 /\ a2 = 0 /\ kl = x1 /\ kr = x2
  <2> SUFFICES ASSUME k = 1 PROVE a1 = 0 /\ a2 = 0 /\ kl = x1 /\ kr = x2
    OBVIOUS
  <2>1. col = 0
    OBVIOUS
  <2> QED
    BY <1>6, <2>1
<1>12. u = w => a1 = a2
  BY <1>6
<1>13. n # 0
  OBVIOUS
<1>14. (/\ ~ (y2 < 0) /\ ~ (x2 < 0) /\ ~ (x1 > w)
        /\ y2 >= z /\ y1 < z + h
        /\ layout.mode = "grid" => P!Crosses(r, layout, i))
       <=> /\ kl <= a1 + w - 20 * (k - 1) /\ kr >= a1
           /\ y1 <= z + (IF layout.mode = "grid" THEN ch ELSE 47) /\ y2 >= z
  <2>1. CASE layout.mode = "list"
    BY <1>2, <1>11, <2>1
  <2>2. CASE layout.mode = "grid" /\ k = 1
    BY <1>2, <1>8, <1>11, <2>2
  <2>3. CASE layout.mode = "grid" /\ u = w
    BY <1>2, <1>8, <1>10, <1>12, <2>3
  <2> QED
    BY <1>2, <2>1, <2>2, <2>3
<1> QED
  BY <1>1, <1>3, <1>6, <1>7, <1>9, <1>13, <1>14

LEMMA Above == ASSUME NEW i \in Nat, NEW k \in Nat \ {0}, i >= k
               PROVE (i - k) \div k = (i \div k) - 1 /\ (i - k) % k = i % k
<1>1. PICK row \in Nat, col \in Nat : /\ row = i \div k /\ col = i % k /\ col < k /\ i = k * row + col
  <2>1. /\ i \div k \in Nat /\ i % k \in Nat /\ i % k <= k - 1
        /\ i = k * (i \div k) + (i % k)
    BY RowOf
  <2>2. i % k < k
    BY <2>1
  <2> QED
    BY <2>1, <2>2, Zenon
<1>2. i - k = k * (row - 1) + col
  <2>1. k * (row - 1) = k * row - k /\ k * row \in Int
    OBVIOUS
  <2> QED
    BY <1>1, <2>1
<1>3. (k * (row - 1) + col) \div k = row - 1 /\ (k * (row - 1) + col) % k = col
  <2>1. row - 1 \in Int /\ col \in Int /\ 0 <= col
    OBVIOUS
  <2> QED
    BY <1>1, <2>1, DivModIs
<1> QED
  BY <1>1, <1>2, <1>3, Zenon

\* Two items are in the same column where they are as far from the left, and in the same row where they
\* are as far from the top.
LEMMA SameProduct == ASSUME NEW i \in Int, NEW j \in Int, NEW k \in Nat \ {0}, i * k = j * k PROVE i = j
<1>1. ~ (i < j) /\ ~ (j < i)
  <2>1. i * k = k * i /\ j * k = k * j /\ k * i \in Int
    OBVIOUS
  <2>2. i < j => k * i + k <= k * j
    BY TimesMore
  <2>3. j < i => k * j + k <= k * i
    BY TimesMore
  <2> QED
    BY <2>1, <2>2, <2>3
<1> QED
  BY <1>1

LEMMA LaterRow == ASSUME NEW i \in Nat, NEW j \in Nat, NEW k \in Nat \ {0},
                         i \div k < j \div k
                  PROVE i < j
<1>1. /\ i \div k \in Nat /\ i % k \in Nat /\ i % k <= k - 1
      /\ i = k * (i \div k) + (i % k)
  BY RowOf, Zenon
<1>2. /\ j \div k \in Nat /\ j % k \in Nat /\ j = k * (j \div k) + (j % k)
  BY RowOf, Zenon
<1>3. k * (i \div k) + k <= k * (j \div k)
  <2>1. i \div k \in Int /\ j \div k \in Int
    BY <1>1, <1>2
  <2> QED
    BY <2>1, TimesMore
<1>4. k * (i \div k) \in Int /\ k * (j \div k) \in Int
  BY <1>1, <1>2
<1> QED
  BY <1>1, <1>2, <1>3, <1>4

LEMMA KeysFollow ==
  ASSUME layout \in Shapes, NEW n \in Nat, NEW i \in 0..n - 1
  PROVE LET cols == P!Columns(layout)
            below(e, j) == P!Drawn(j).left = P!Drawn(e).left /\ P!Drawn(j).top = P!Drawn(e).top + P!RowHeight(layout)
            lower(e) == {j \in 0..n - 1 : P!Drawn(j).top > P!Drawn(e).top}
            up == P!Navigate("Up", i, n, cols)
            down == P!Navigate("Down", i, n, cols)
        IN /\ below(up, i) \/ (up = i /\ P!Drawn(i).top = 0)
           /\ \/ below(i, down)
              \/ down = i /\ lower(i) = {}
              \/ down = n - 1 /\ lower(i) # {} /\ ~\E j \in lower(i) : below(i, j)
<1>1. PICK k \in Nat \ {0}, h \in Nat \ {0}, w \in Nat :
         k = P!Columns(layout) /\ h = P!RowHeight(layout) /\ w = layout.width
  <2>1. P!Columns(layout) \in Nat \ {0}
    BY ColumnsFit, Zenon
  <2>2. P!RowHeight(layout) \in Nat \ {0}
    BY RowsFit, Zenon
  <2>3. layout.width \in Nat
    BY ShapeIs, Zenon
  <2> QED
    BY <2>1, <2>2, <2>3, Zenon
<1> DEFINE Left(j) == (j % k) * (w + 20)
           Top(j) == (j \div k) * h
<1>2. \A j : P!Drawn(j).left = Left(j) /\ P!Drawn(j).top = Top(j)
  BY <1>1 DEF P!Drawn, P!Gap
<1>3. /\ P!Navigate("Up", i, n, k) = IF i - k >= 0 THEN i - k ELSE i
      /\ P!Navigate("Down", i, n, k) = IF i + k < n THEN i + k
                                       ELSE IF i \div k < (n - 1) \div k THEN n - 1 ELSE i
  BY DEF P!Navigate
<1>4. i \in Nat /\ n - 1 \in Nat
  OBVIOUS
<1>5. \A j \in Nat : j \div k \in Nat /\ j % k \in Nat /\ Left(j) \in Nat /\ Top(j) \in Nat
  <2> SUFFICES ASSUME NEW j \in Nat
               PROVE j \div k \in Nat /\ j % k \in Nat /\ Left(j) \in Nat /\ Top(j) \in Nat
    OBVIOUS
  <2>1. j \div k \in Nat /\ j % k \in Nat
    BY RowOf, Zenon
  <2> QED
    BY <2>1
<1>6. \A j \in Nat : j >= k => Left(j - k) = Left(j) /\ Top(j) = Top(j - k) + h
  <2> SUFFICES ASSUME NEW j \in Nat, j >= k PROVE Left(j - k) = Left(j) /\ Top(j) = Top(j - k) + h
    OBVIOUS
  <2>1. (j - k) \div k = (j \div k) - 1 /\ (j - k) % k = j % k
    BY Above
  <2>2. PICK m \in Nat : m = j \div k
    BY <1>5
  <2>3. m * h = (m - 1) * h + h
    OBVIOUS
  <2> QED
    BY <2>1, <2>2, <2>3
\* What is drawn lower down comes in a later row, and the other way round.
<1>7. \A e, j \in Nat : Top(j) > Top(e) <=> e \div k < j \div k
  <2> SUFFICES ASSUME NEW e \in Nat, NEW j \in Nat PROVE Top(j) > Top(e) <=> e \div k < j \div k
    OBVIOUS
  <2>1. PICK p1 \in Nat, p2 \in Nat : p1 = e \div k /\ p2 = j \div k
    BY <1>5
  <2>2. p1 * h = h * p1 /\ p2 * h = h * p2 /\ h * p1 \in Int /\ h * p2 \in Int
    OBVIOUS
  <2>3. p1 < p2 => h * p1 + h <= h * p2
    BY TimesMore
  <2>4. p2 <= p1 => h * p2 <= h * p1
    BY Times
  <2> QED
    BY <2>1, <2>2, <2>3, <2>4
<1> DEFINE below(e, j) == Left(j) = Left(e) /\ Top(j) = Top(e) + h
\* What is drawn below an item comes so many items later.
<1>8. \A e, j \in Nat : below(e, j) => j = e + k
  <2> SUFFICES ASSUME NEW e \in Nat, NEW j \in Nat, below(e, j) PROVE j = e + k
    OBVIOUS
  <2>1. PICK p1 \in Nat, p2 \in Nat, q1 \in Nat, q2 \in Nat :
           p1 = e \div k /\ p2 = j \div k /\ q1 = e % k /\ q2 = j % k
    BY <1>5
  <2>2. q1 * (w + 20) = q2 * (w + 20)
    BY <2>1
  <2>3. q1 = q2
    BY <2>2, SameProduct
  <2>4. p2 * h = p1 * h + h /\ p1 * h + h = (p1 + 1) * h
    BY <2>1
  <2>5. p2 = p1 + 1
    BY <2>4, SameProduct
  <2>6. e = k * p1 + q1 /\ j = k * p2 + q2
    BY <2>1, RowOf, Zenon
  <2>7. k * p2 = k * p1 + k /\ k * p1 \in Int
    BY <2>5
  <2> QED
    BY <2>3, <2>6, <2>7
<1> HIDE DEF Left, Top
<1>9. \/ P!Navigate("Up", i, n, k) = i - k /\ i >= k
      \/ P!Navigate("Up", i, n, k) = i /\ i < k
  BY <1>3
<1>10. i < k => Top(i) = 0
  <2> SUFFICES ASSUME i < k PROVE Top(i) = 0
    OBVIOUS
  <2>1. k * 0 + i = i /\ 0 \in Int /\ i \in Int /\ 0 <= i
    OBVIOUS
  <2>2. (k * 0 + i) \div k = 0
    BY <2>1, DivModIs
  <2>3. i \div k = 0
    BY <2>1, <2>2
  <2> QED
    BY <2>3 DEF Top
<1> DEFINE lower == {j \in 0..n - 1 : Top(j) > Top(i)}
<1>11. lower = {j \in 0..n - 1 : i \div k < j \div k}
  BY <1>4, <1>7
<1>12. \/ below(P!Navigate("Up", i, n, k), i)
       \/ P!Navigate("Up", i, n, k) = i /\ Top(i) = 0
  BY <1>4, <1>6, <1>9, <1>10
<1>13. CASE i + k < n
  <2>1. P!Navigate("Down", i, n, k) = i + k /\ i + k \in Nat /\ i + k >= k /\ (i + k) - k = i
    BY <1>3, <1>13
  <2>2. below(i, P!Navigate("Down", i, n, k))
    BY <1>6, <2>1
  <2> QED
    BY <1>1, <1>2, <1>12, <2>2
<1>14. CASE i + k >= n /\ i \div k < (n - 1) \div k
  <2>1. P!Navigate("Down", i, n, k) = n - 1
    BY <1>3, <1>14
  <2>2. n - 1 \in lower
    BY <1>11, <1>14
  <2>3. ~ \E j \in lower : below(i, j)
    <3> SUFFICES ASSUME NEW j \in lower, below(i, j) PROVE FALSE
      OBVIOUS
    <3>1. j \in 0..n - 1 /\ j \in Nat
      OBVIOUS
    <3>2. j = i + k
      BY <1>4, <1>8, <3>1
    <3> QED
      BY <1>14, <3>1, <3>2
  <2> QED
    BY <1>1, <1>2, <1>12, <2>1, <2>2, <2>3
<1>15. CASE i + k >= n /\ ~ (i \div k < (n - 1) \div k)
  <2>1. P!Navigate("Down", i, n, k) = i
    BY <1>3, <1>15
  <2>2. lower = {}
    <3> SUFFICES ASSUME NEW j \in 0..n - 1, i \div k < j \div k PROVE FALSE
      BY <1>11
    <3>1. j \in Nat /\ j <= n - 1
      OBVIOUS
    <3>2. j \div k <= (n - 1) \div k
      <4>1. j \div k \in Nat /\ (n - 1) \div k \in Nat
        BY <1>4, <1>5, <3>1
      <4>2. (n - 1) \div k < j \div k => n - 1 < j
        BY <1>4, <3>1, LaterRow
      <4> QED
        BY <1>4, <3>1, <4>1, <4>2
    <3>3. i \div k \in Nat /\ j \div k \in Nat /\ (n - 1) \div k \in Nat
      BY <1>4, <1>5, <3>1
    <3> QED
      BY <1>15, <3>2, <3>3
  <2> QED
    BY <1>1, <1>2, <1>12, <2>1, <2>2
<1> QED
  BY <1>13, <1>14, <1>15

\* The box and the keys agree with the screen in every layout and for any number of documents.
LEMMA PlacesAgree == ASSUME layout \in Shapes, order \in Lists PROVE P!AgreeOnPlaces
<1>1. Len(order) \in Nat
  BY PlaceAssumption DEF Lists
<1>2. \A r \in P!Rects : P!ItemsInRect(r, layout, Len(order)) \subseteq 0..Len(order) - 1
  BY DEF P!ItemsInRect
<1> DEFINE touches(r, i) == /\ P!Columns(layout) * r.left <= P!Drawn(i).right
                            /\ P!Columns(layout) * r.right >= P!Drawn(i).left
                            /\ r.top <= P!Drawn(i).bottom /\ r.bottom >= P!Drawn(i).top
<1>3. \A r \in P!Rects : \A i \in 0..Len(order) - 1 :
        i \in P!ItemsInRect(r, layout, Len(order)) <=> touches(r, i)
  BY <1>1, TouchesAreHits
<1> HIDE DEF touches
<1>4. \A r \in P!Rects : P!ItemsInRect(r, layout, Len(order)) = {i \in 0..Len(order) - 1 : touches(r, i)}
  BY <1>2, <1>3
<1> QED
  BY <1>1, <1>4, KeysFollow DEF P!AgreeOnPlaces, touches

-----------------------------------------------------------------------------
\* The view.

Selections == [ids : SUBSET Docs, anchor : V!MaybeDoc, focus : V!MaybeDoc]
Boxes == [start : V!Points, base : Selections, additive : BOOLEAN, moved : BOOLEAN, order : Orders, layout : Layouts]

\* A menu and a drag belong to a document in view.
ViewInv == /\ V!TypeOK
           /\ box # None => box \in Boxes
           /\ menu # None => menu \in V!In(order)
           /\ drag # None => drag \in V!In(order)

LEMMA ListIs == ASSUME NEW o \in Orders
                PROVE /\ o \in Seq(Docs) /\ V!In(o) = {o[i] : i \in 1..Len(o)} /\ V!In(o) \subseteq Docs
                      /\ Len(o) \in Nat /\ \A i \in 1..Len(o) : o[i] \in V!In(o)
  BY ViewAssumption DEF V!In

LEMMA NobodyFits == V!Nobody \in Selections
  BY DEF V!Nobody, Selections, V!MaybeDoc

LEMMA PruneFits == ASSUME NEW s \in Selections, NEW o \in Orders
                   PROVE /\ V!Prune(s, o) \in Selections /\ V!Prune(s, o).ids \subseteq V!In(o)
                         /\ V!Prune(s, o).focus \in V!In(o) \cup {None}
<1>1. V!In(o) \subseteq Docs
  BY ListIs
<1> DEFINE keep(d) == IF d \in V!In(o) THEN d ELSE None
           pruned == [ids |-> s.ids \cap V!In(o), anchor |-> keep(s.anchor), focus |-> keep(s.focus)]
<1>2. V!Prune(s, o) = IF s.ids \subseteq V!In(o) /\ keep(s.focus) = s.focus THEN s ELSE pruned
  BY DEF V!Prune
<1>3. /\ pruned \in Selections /\ pruned.ids \subseteq V!In(o) /\ pruned.focus \in V!In(o) \cup {None}
  BY <1>1 DEF Selections, V!MaybeDoc
<1>4. keep(s.focus) = s.focus => s.focus \in V!In(o) \cup {None}
  OBVIOUS
<1> HIDE DEF pruned, keep
<1> QED
  BY <1>2, <1>3, <1>4

LEMMA FocusFits == ASSUME NEW s \in Selections, NEW d \in Docs PROVE V!FocusOn(s, d) \in Selections
  BY DEF V!FocusOn, Selections, V!MaybeDoc

\* Where a document is in a list, 0 if it is not.
Index(o, d) == V!SelectInSeq(o, LAMBDA e : e = d)

LEMMA IndexFits == ASSUME NEW o \in Orders, NEW d
                   PROVE Index(o, d) \in 0..Len(o) /\ (d \in V!In(o) => Index(o, d) \in 1..Len(o))
<1> DEFINE I == {i \in 1..Len(o) : o[i] = d}
<1>1. Index(o, d) = IF I # {} THEN V!Min(I) ELSE 0
  BY DEF Index, V!SelectInSeq
<1>2. Len(o) \in Nat
  BY ListIs
<1>3. I # {} => V!Min(I) \in I
  <2>1. I \in SUBSET Nat
    OBVIOUS
  <2> HIDE DEF I
  <2> QED
    BY <2>1, MinInSet DEF V!Min, Min
<1>4. d \in V!In(o) => I # {}
  BY ListIs
<1> QED
  BY <1>1, <1>2, <1>3, <1>4

LEMMA VMaxOf == ASSUME NEW m \in Int, NEW n \in Int PROVE V!Max({m, n}) = IF m >= n THEN m ELSE n
<1>1. V!Max({m, n}) = P!Max({m, n})
  BY DEF V!Max, P!Max
<1> QED
  BY <1>1, MaxOf

LEMMA VMinOf == ASSUME NEW m \in Int, NEW n \in Int PROVE V!Min({m, n}) = IF m <= n THEN m ELSE n
<1>1. V!Min({m, n}) = P!Min({m, n})
  BY DEF V!Min, P!Min
<1> QED
  BY <1>1, MinOf

\* A set of places has a first and a last one.
LEMMA FirstAndLast == ASSUME NEW n \in Nat, NEW S \in SUBSET (0..n - 1), S # {}
                      PROVE V!Min(S) \in S /\ V!Max(S) \in S
<1>1. S \in SUBSET Nat
  OBVIOUS
<1>2. V!Min(S) \in S
  BY <1>1, MinInSet DEF V!Min, Min
<1> DEFINE Back == {n - 1 - x : x \in S}
<1>3. Back \in SUBSET Nat /\ Back # {}
  <2>1. \A x \in S : n - 1 - x \in Nat
    OBVIOUS
  <2> QED
    BY <2>1
<1>4. Min(Back) \in Back /\ \A y \in Back : Min(Back) <= y
  <2>1. Min(Back) \in Back
    BY <1>3, MinInSet
  <2>2. \E x \in Back : \A y \in Back : x <= y
    BY <1>3, MinIsLeast
  <2> QED
    BY <2>1, <2>2 DEF Min
<1>5. PICK x \in S : Min(Back) = n - 1 - x
  BY <1>4
<1>6. \A y \in S : x >= y
  <2> SUFFICES ASSUME NEW y \in S PROVE x >= y
    OBVIOUS
  <2>1. n - 1 - x <= n - 1 - y
    BY <1>4, <1>5
  <2>2. x \in Int /\ y \in Int
    OBVIOUS
  <2> QED
    BY <2>1, <2>2
<1>7. V!Max(S) \in S
  BY <1>6 DEF V!Max
<1> QED
  BY <1>2, <1>7

LEMMA SpanFits == ASSUME NEW o \in Orders, NEW m \in V!MaybeDoc, NEW d \in Docs
                  PROVE V!Span(o, m, d) \subseteq Docs
<1>1. CASE m \notin V!In(o) \/ d \notin V!In(o)
  BY <1>1 DEF V!Span
<1>2. CASE m \in V!In(o) /\ d \in V!In(o)
  <2>1. PICK x \in 1..Len(o), y \in 1..Len(o) :
           x = Index(o, m) /\ y = Index(o, d)
    BY <1>2, IndexFits
  <2>2. V!Span(o, m, d) = {o[i] : i \in V!Min({x, y}) .. V!Max({x, y})}
    <3>1. V!Span(o, m, d) = LET at == {Index(o, m), Index(o, d)} IN {o[i] : i \in V!Min(at) .. V!Max(at)}
      BY <1>2 DEF V!Span, Index, V!SelectInSeq
    <3> QED
      BY <2>1, <3>1
  <2>3. Len(o) \in Nat
    BY ListIs
  <2>4. V!Min({x, y}) .. V!Max({x, y}) \subseteq 1..Len(o)
    BY <2>3, VMinOf, VMaxOf
  <2> QED
    BY <2>2, <2>4, ListIs
<1> QED
  BY <1>1, <1>2

LEMMA ClickFits == ASSUME NEW s \in Selections, NEW o \in Orders, NEW d \in Docs,
                          NEW shift \in BOOLEAN, NEW toggle \in BOOLEAN
                   PROVE V!ClickItem(s, d, shift, toggle, o) \in Selections
<1>1. s.anchor \in V!MaybeDoc /\ s.ids \subseteq Docs
  BY DEF Selections
<1>2. V!Span(o, s.anchor, d) \subseteq Docs
  BY <1>1, SpanFits
<1> QED
  BY <1>1, <1>2 DEF V!ClickItem, V!Toggled, Selections, V!MaybeDoc

LEMMA MoveFits == ASSUME NEW s \in Selections, NEW o \in Orders, NEW d \in Docs,
                         NEW shift \in BOOLEAN, NEW toggle \in BOOLEAN
                  PROVE V!MoveFocus(s, d, shift, toggle, o) \in Selections
<1> DEFINE m == IF s.anchor # None THEN s.anchor ELSE IF s.focus # None THEN s.focus ELSE d
<1>1. m \in V!MaybeDoc
  BY DEF Selections, V!MaybeDoc
<1>2. V!Span(o, m, d) \subseteq Docs
  BY <1>1, SpanFits
<1>3. V!MoveFocus(s, d, shift, toggle, o) =
        IF shift THEN [ids |-> V!Span(o, m, d), anchor |-> m, focus |-> d]
        ELSE IF toggle THEN [s EXCEPT !.focus = d]
        ELSE [ids |-> {d}, anchor |-> d, focus |-> d]
  BY DEF V!MoveFocus
<1> HIDE DEF m
<1> QED
  BY <1>1, <1>2, <1>3 DEF Selections, V!MaybeDoc

LEMMA ColumnsAreSome == ASSUME NEW l \in Layouts PROVE V!Columns(l) \in Nat \ {0}
<1>1. l.width \in Nat /\ V!MinCard(l.width) \in {140, 184}
  BY ViewAssumption DEF V!MinCard
<1>2. V!Usable(l.width) \in Nat /\ V!Usable(l.width) >= V!MinCard(l.width)
  BY <1>1, VMaxOf DEF V!Usable
<1>3. CASE V!MinCard(l.width) = 140
  BY <1>2, <1>3 DEF V!Columns, V!Gap
<1>4. CASE V!MinCard(l.width) = 184
  BY <1>2, <1>4 DEF V!Columns, V!Gap
<1> QED
  BY <1>1, <1>3, <1>4

LEMMA ClampFits == ASSUME NEW n \in Nat \ {0}, NEW i \in Int PROVE V!Clamp(i, n) \in 0..n - 1
<1>1. V!Min({n - 1, i}) = IF n - 1 <= i THEN n - 1 ELSE i
  BY VMinOf
<1> QED
  BY <1>1, VMaxOf DEF V!Clamp

\* A key goes to a document, as long as there is one.
LEMMA NavigateFits ==
  ASSUME NEW n \in Nat \ {0}, NEW i \in -1..n - 1, NEW k \in Nat \ {0}, NEW press \in V!NavKeys
  PROVE V!Navigate(press, i, n, k) \in 0..n - 1
<1>1. PICK m \in Nat : m = k * PerPage
  BY ViewAssumption
<1>2. V!Clamp(i - 1, n) \in 0..n - 1 /\ V!Clamp(i + 1, n) \in 0..n - 1
      /\ V!Clamp(i - m, n) \in 0..n - 1 /\ V!Clamp(i + m, n) \in 0..n - 1
  BY ClampFits
<1>3. CASE i < 0
  <2>1. ~ (i >= 0)
    BY <1>3
  <2>2. V!Navigate(press, i, n, k) = IF press = "End" THEN n - 1 ELSE 0
    BY <1>3, <2>1, Zenon DEF V!Navigate
  <2> QED
    BY <2>2
<1>4. CASE i >= 0
  <2>1. CASE press = "Left"
    BY <1>2, <1>4, <2>1 DEF V!Navigate
  <2>2. CASE press = "Right"
    BY <1>2, <1>4, <2>2 DEF V!Navigate
  <2>3. CASE press = "Up"
    BY <1>4, <2>3 DEF V!Navigate
  <2>4. CASE press = "Down"
    <3>1. /\ i + k < n => V!Navigate(press, i, n, k) = i + k
          /\ ~ (i + k < n) => V!Navigate(press, i, n, k) \in {n - 1, i}
      BY <1>4, <2>4 DEF V!Navigate
    <3> QED
      BY <1>4, <3>1
  <2>5. CASE press = "Home"
    BY <1>4, <2>5 DEF V!Navigate
  <2>6. CASE press = "End"
    BY <1>4, <2>6 DEF V!Navigate
  <2>7. CASE press = "PageUp"
    BY <1>1, <1>2, <1>4, <2>7 DEF V!Navigate
  <2>8. CASE press = "PageDown"
    BY <1>1, <1>2, <1>4, <2>8 DEF V!Navigate
  <2> QED
    BY <2>1, <2>2, <2>3, <2>4, <2>5, <2>6, <2>7, <2>8 DEF V!NavKeys
<1> QED
  BY <1>3, <1>4

LEMMA BoxFits ==
  ASSUME NEW s \in Selections, NEW o \in Orders, NEW additive \in BOOLEAN, NEW S \in SUBSET (0..Len(o) - 1)
  PROVE V!BoxSelect(s, S, additive, o) \in Selections
<1>1. Len(o) \in Nat
  BY ListIs
<1>2. {o[i + 1] : i \in S} \subseteq Docs
  <2>1. \A i \in S : i + 1 \in 1..Len(o)
    BY <1>1
  <2> QED
    BY <2>1, ListIs
<1>3. S # {} => o[V!Min(S) + 1] \in Docs /\ o[V!Max(S) + 1] \in Docs
  <2> SUFFICES ASSUME S # {} PROVE o[V!Min(S) + 1] \in Docs /\ o[V!Max(S) + 1] \in Docs
    OBVIOUS
  <2>1. V!Min(S) \in S /\ V!Max(S) \in S
    BY <1>1, FirstAndLast
  <2> QED
    BY <1>2, <2>1
<1> QED
  BY <1>2, <1>3 DEF V!BoxSelect, Selections, V!MaybeDoc

LEMMA ViewIs == ViewInv => /\ order \in Orders /\ layout \in Layouts /\ sel \in Selections
                           /\ menu \in V!MaybeDoc /\ drag \in V!MaybeDoc /\ asked \subseteq Docs /\ sent \subseteq Docs
  BY DEF ViewInv, V!TypeOK, Selections

LEMMA SelectionFits == ASSUME ViewInv
                       PROVE /\ V!Selection \in Selections /\ V!Selection.ids \subseteq V!In(order)
                             /\ V!Selection.focus \in V!In(order) \cup {None}
                             /\ V!Highlighted = V!Selection.ids
<1>1. order \in Orders /\ sel \in Selections
  BY ViewIs
<1>2. /\ V!Selection \in Selections /\ V!Selection.ids \subseteq V!In(order)
      /\ V!Selection.focus \in V!In(order) \cup {None}
  BY <1>1, PruneFits DEF V!Selection
<1> QED
  BY <1>2 DEF V!Highlighted

LEMMA ViewStart == V!Init => ViewInv
<1> SUFFICES ASSUME V!Init PROVE ViewInv
  OBVIOUS
<1>1. sel \in Selections
  BY DEF V!Init, V!Nobody, Selections, V!MaybeDoc
<1> QED
  BY <1>1 DEF V!Init, ViewInv, V!TypeOK, Selections, V!MaybeDoc

LEMMA SelectsFits == ASSUME ViewInv, NEW s \in Selections, V!Selects(s) PROVE ViewInv'
  BY DEF ViewInv, V!Selects, V!TypeOK, Selections, V!In

\* The pointer and the keys.
LEMMA SelectSteps ==
  ASSUME ViewInv,
         \/ \E d \in Docs : \/ \E shift, toggle \in BOOLEAN : V!Click(d, shift, toggle)
                            \/ V!FocusItem(d)
         \/ \E press \in V!NavKeys, shift, toggle \in BOOLEAN : V!Nav(press, shift, toggle)
         \/ V!SelectAll \/ V!Space \/ V!Clear
  PROVE ViewInv'
<1>1. /\ order \in Orders /\ layout \in Layouts /\ sel \in Selections
      /\ V!In(order) \subseteq Docs /\ Len(order) \in Nat /\ \A i \in 1..Len(order) : order[i] \in V!In(order)
  BY ViewIs, ListIs
<1>2. /\ V!Selection \in Selections /\ V!Selection.focus \in V!In(order) \cup {None}
  BY SelectionFits
<1>3. ASSUME NEW d \in Docs, NEW shift \in BOOLEAN, NEW toggle \in BOOLEAN, V!Click(d, shift, toggle) PROVE ViewInv'
  <2> DEFINE s == V!Prune(V!FocusOn(sel, d), order)
  <2>1. s \in Selections
    BY <1>1, FocusFits, PruneFits
  <2>2. V!Selects(V!ClickItem(s, d, shift, toggle, order))
    BY <1>3 DEF V!Click
  <2> HIDE DEF s
  <2>3. V!ClickItem(s, d, shift, toggle, order) \in Selections
    BY <1>1, <2>1, ClickFits
  <2> QED
    BY <2>2, <2>3, SelectsFits
<1>4. ASSUME NEW d \in Docs, V!FocusItem(d) PROVE ViewInv'
  <2>1. V!FocusOn(sel, d) \in Selections
    BY <1>1, FocusFits
  <2> QED
    BY <1>4, <2>1, SelectsFits DEF V!FocusItem
<1>5. ASSUME NEW press \in V!NavKeys, NEW shift \in BOOLEAN, NEW toggle \in BOOLEAN, V!Nav(press, shift, toggle)
      PROVE ViewInv'
  <2> DEFINE from == IF V!Selection.focus = None THEN -1 ELSE Index(order, V!Selection.focus) - 1
             place == V!Navigate(press, from, Len(order), V!Columns(layout))
             to == order[place + 1]
  <2>1. V!Selects(V!MoveFocus(V!Selection, to, shift, toggle, order)) /\ order # <<>>
    BY <1>5 DEF V!Nav, Index
  <2>2. Len(order) \in Nat \ {0}
    BY <1>1, <2>1, ListIs
  <2>3. from \in -1..Len(order) - 1
    BY <1>1, <2>2, IndexFits
  <2>4. V!Columns(layout) \in Nat \ {0}
    BY <1>1, ColumnsAreSome
  <2> HIDE DEF from
  <2>5. place \in 0..Len(order) - 1
    BY <2>2, <2>3, <2>4, NavigateFits
  <2> HIDE DEF place
  <2>6. to \in Docs
    <3>1. place + 1 \in 1..Len(order)
      BY <2>2, <2>5
    <3> QED
      BY <1>1, <3>1
  <2> HIDE DEF to
  <2>7. V!MoveFocus(V!Selection, to, shift, toggle, order) \in Selections
    BY <1>1, <1>2, <2>6, MoveFits
  <2> QED
    BY <2>1, <2>7, SelectsFits
<1>6. ASSUME V!SelectAll PROVE ViewInv'
  <2>1. order # <<>> /\ V!Selects([ids |-> V!In(order), anchor |-> order[1],
                                   focus |-> IF V!Selection.focus # None THEN V!Selection.focus ELSE order[1]])
    BY <1>6 DEF V!SelectAll
  <2>2. 1 \in 1..Len(order)
    BY <1>1, <2>1, ListIs
  <2>3. [ids |-> V!In(order), anchor |-> order[1],
         focus |-> IF V!Selection.focus # None THEN V!Selection.focus ELSE order[1]] \in Selections
    BY <1>1, <1>2, <2>2 DEF Selections, V!MaybeDoc
  <2> QED
    BY <2>1, <2>3, SelectsFits
<1>7. ASSUME V!Space PROVE ViewInv'
  <2>1. /\ V!Selection.focus \in Docs
        /\ V!Selects(V!ClickItem(V!Selection, V!Selection.focus, FALSE, TRUE, order))
    BY <1>1, <1>2, <1>7 DEF V!Space
  <2>2. V!ClickItem(V!Selection, V!Selection.focus, FALSE, TRUE, order) \in Selections
    BY <1>1, <1>2, <2>1, ClickFits
  <2> QED
    BY <2>1, <2>2, SelectsFits
<1>8. ASSUME V!Clear PROVE ViewInv'
  BY <1>8, NobodyFits, SelectsFits DEF V!Clear
<1> QED
  BY <1>3, <1>4, <1>5, <1>6, <1>7, <1>8

\* Menus, dialogs and drags.
LEMMA ActionSteps ==
  ASSUME ViewInv,
         \/ \E d \in Docs : V!ContextMenu(d) \/ V!MoreMenu(d) \/ V!DragStart(d)
         \/ V!DeleteKey \/ V!BarButton \/ V!RenameKey \/ V!PickAction \/ V!PickRename \/ V!CloseMenu
         \/ V!Drop \/ V!Confirm \/ V!Close \/ V!Taken
  PROVE ViewInv'
<1>1. /\ order \in Orders /\ sel \in Selections /\ V!In(order) \subseteq Docs
      /\ asked \subseteq Docs /\ sent \subseteq Docs
  BY ViewIs, ListIs
<1>2. /\ V!Selection \in Selections /\ V!Selection.ids \subseteq V!In(order)
      /\ V!Selection.focus \in V!In(order) \cup {None} /\ V!Highlighted = V!Selection.ids
  BY SelectionFits
<1>3. /\ menu # None => menu \in Docs /\ V!MenuTargets(menu) \subseteq Docs
      /\ drag # None => drag \in Docs /\ V!TargetsFor(drag) \subseteq Docs
  BY <1>1, <1>2 DEF ViewInv, V!MenuTargets, V!TargetsFor
<1> USE DEF V!In
<1>4. ASSUME NEW d \in Docs, V!ContextMenu(d) PROVE ViewInv'
  <2>1. V!FocusOn(sel, d) \in Selections /\ V!ClickItem(V!Nobody, d, FALSE, FALSE, order) \in Selections
    BY <1>1, FocusFits, ClickFits, NobodyFits
  <2>2. sel' \in Selections /\ menu' = d /\ d \in V!In(order)
        /\ UNCHANGED <<order, layout, box, drag, asked, sent>>
    BY <1>4, <2>1 DEF V!ContextMenu
  <2> QED
    BY <2>2 DEF ViewInv, V!TypeOK, Selections, V!MaybeDoc
<1>5. ASSUME NEW d \in Docs, V!MoreMenu(d) PROVE ViewInv'
  BY <1>5 DEF V!MoreMenu, ViewInv, V!TypeOK, V!MaybeDoc
<1>6. ASSUME NEW d \in Docs, V!DragStart(d) PROVE ViewInv'
  <2>1. sel' \in Selections /\ drag' = d /\ d \in V!In(order)
        /\ UNCHANGED <<order, layout, box, menu, asked, sent>>
    BY <1>1, <1>6, FocusFits DEF V!DragStart
  <2> QED
    BY <2>1 DEF ViewInv, V!TypeOK, Selections, V!MaybeDoc
<1>7. ASSUME UNCHANGED <<order, layout, sel, box>>, menu' \in {menu, None}, drag' \in {drag, None},
             asked' \subseteq Docs, sent' \subseteq Docs
      PROVE ViewInv'
  BY <1>7 DEF ViewInv, V!TypeOK, Selections, V!MaybeDoc
<1>8. ASSUME NEW S \in SUBSET Docs, V!Begins(S) PROVE asked' \subseteq Docs /\ sent' \subseteq Docs
  BY <1>1, <1>8 DEF V!Begins
<1>9. CASE V!DeleteKey
  <2>1. V!Highlighted \cap Deletable \in SUBSET Docs
    BY <1>1, <1>2
  <2> QED
    BY <1>7, <1>8, <1>9, <2>1 DEF V!DeleteKey
<1>10. CASE V!BarButton
  <2>1. V!Highlighted \in SUBSET Docs
    BY <1>1, <1>2
  <2> QED
    BY <1>7, <1>8, <1>10, <2>1 DEF V!BarButton
<1>11. CASE V!RenameKey
  <2>1. V!Selection.focus \in Docs
    <3>1. V!Selection.focus \in Deletable /\ V!Selection.focus # None
      BY <1>11, ViewAssumption DEF V!RenameKey
    <3> QED
      BY <1>1, <1>2, <3>1
  <2> QED
    BY <1>1, <1>7, <1>11, <2>1 DEF V!RenameKey
<1>12. CASE V!PickAction
  BY <1>3, <1>7, <1>8, <1>12 DEF V!PickAction
<1>13. CASE V!PickRename
  BY <1>1, <1>3, <1>7, <1>13 DEF V!PickRename
<1>14. CASE V!CloseMenu
  BY <1>1, <1>7, <1>14 DEF V!CloseMenu
<1>15. CASE V!Drop
  BY <1>1, <1>3, <1>7, <1>15 DEF V!Drop
<1>16. CASE V!Confirm
  BY <1>1, <1>7, <1>16 DEF V!Confirm
<1>17. CASE V!Close
  BY <1>1, <1>7, <1>17 DEF V!Close
<1>18. CASE V!Taken
  BY <1>1, <1>7, <1>18 DEF V!Taken
<1> QED
  BY <1>4, <1>5, <1>6, <1>9, <1>10, <1>11, <1>12, <1>13, <1>14, <1>15, <1>16, <1>17, <1>18

\* The selection box, and what is not the user's pointer or keys.
LEMMA BoxSteps ==
  ASSUME ViewInv,
         \/ \E p \in V!Points : \/ \E additive \in BOOLEAN : V!PointerDown(p, additive)
                                \/ V!PointerMove(p) \/ V!ScrollFrame(p)
         \/ V!PointerUp
         \/ \E o \in Orders : V!ViewChanges(o)
         \/ \E l \in Layouts : V!Measure(l)
  PROVE ViewInv'
<1>1. /\ order \in Orders /\ layout \in Layouts /\ sel \in Selections
      /\ menu \in V!MaybeDoc /\ drag \in V!MaybeDoc /\ asked \subseteq Docs /\ sent \subseteq Docs
  BY ViewIs
<1>2. V!Selection \in Selections
  BY SelectionFits
<1> USE DEF V!In
<1>3. ASSUME NEW p \in V!Points, NEW additive \in BOOLEAN, V!PointerDown(p, additive) PROVE ViewInv'
  <2>1. /\ box' \in Boxes
        /\ UNCHANGED <<order, layout, sel, menu, drag, asked, sent>>
    BY <1>1, <1>2, <1>3 DEF V!PointerDown, Boxes
  <2> QED
    BY <2>1 DEF ViewInv, V!TypeOK, Boxes, Selections
<1>4. ASSUME NEW p \in V!Points, NEW o \in Orders, NEW l \in Layouts, V!Update(p, o, l) PROVE ViewInv'
  <2> DEFINE r == V!RectOf(p, box.start)
             S == V!ItemsInRect(r, l, Len(o))
             s == V!BoxSelect(box.base, S, box.additive, o)
  <2>1. box # None /\ box \in Boxes
    BY <1>4 DEF V!Update, ViewInv
  <2>2. S \in SUBSET (0..Len(o) - 1)
    BY DEF V!ItemsInRect
  <2>3. box' = [box EXCEPT !.moved = TRUE] /\ sel' = s /\ UNCHANGED <<order, layout, menu, drag, asked, sent>>
    BY <1>4 DEF V!Update
  <2> HIDE DEF S
  <2>4. s \in Selections
    <3>1. box.base \in Selections /\ box.additive \in BOOLEAN
      BY <2>1 DEF Boxes
    <3> QED
      BY <2>2, <3>1, BoxFits
  <2> HIDE DEF s
  <2>5. box' \in Boxes
    BY <2>1, <2>3 DEF Boxes
  <2> QED
    BY <2>3, <2>4, <2>5 DEF ViewInv, V!TypeOK, Boxes, Selections
<1>5. ASSUME NEW p \in V!Points, V!PointerMove(p) PROVE ViewInv'
  BY <1>1, <1>4, <1>5 DEF V!PointerMove
<1>6. ASSUME NEW p \in V!Points, V!ScrollFrame(p) PROVE ViewInv'
  <2>1. box.order \in Orders /\ box.layout \in Layouts
    BY <1>6 DEF V!ScrollFrame, ViewInv, Boxes
  <2> QED
    BY <1>4, <1>6, <2>1 DEF V!ScrollFrame
<1>7. CASE V!PointerUp
  <2>1. sel' \in Selections /\ box' = None /\ UNCHANGED <<order, layout, menu, drag, asked, sent>>
    BY <1>1, <1>7, NobodyFits DEF V!PointerUp
  <2> QED
    BY <2>1 DEF ViewInv, V!TypeOK, Selections
<1>8. ASSUME NEW o \in Orders, V!ViewChanges(o) PROVE ViewInv'
  <2>1. /\ order' = o /\ UNCHANGED <<layout, sel, box, asked, sent>>
        /\ menu' # None => menu' \in V!In(order')
        /\ drag' # None => drag' \in V!In(order')
    BY <1>8 DEF V!ViewChanges, V!Remains
  <2>2. V!In(order') \subseteq Docs
    BY <2>1, ListIs
  <2> QED
    BY <2>1, <2>2 DEF ViewInv, V!TypeOK, V!MaybeDoc
<1>9. ASSUME NEW l \in Layouts, V!Measure(l) PROVE ViewInv'
  BY <1>9 DEF V!Measure, ViewInv, V!TypeOK
<1> QED
  BY <1>3, <1>5, <1>6, <1>7, <1>8, <1>9

LEMMA ViewSteps == ASSUME ViewInv, V!Next PROVE ViewInv'
<1>1. CASE sent = {}
  BY <1>1, SelectSteps, ActionSteps, BoxSteps, Zenon DEF V!Next, V!Event
<1>2. CASE sent # {}
  BY <1>2, ActionSteps, Zenon DEF V!Next
<1> QED
  BY <1>1, <1>2

\* What is drawn as selected, the part of it that the key Delete takes, or one document beside it.
ShownIs(S) == \/ S = V!Highlighted \/ S = V!Highlighted \cap Deletable
              \/ \E d \in V!In(order) \ V!Highlighted : S = {d}

ActsOnIt == /\ sent' \notin {sent, {}} => sent' = asked \/ ShownIs(sent')
            /\ asked' \notin {asked, {}} => ShownIs(asked') \/ asked' = {V!Selection.focus}

\* An action begins with what is drawn, or with what a dialog asked about.
LEMMA ViewActs == ASSUME ViewInv, V!Next PROVE ActsOnIt
<1>1. V!Highlighted = V!Selection.ids
  BY SelectionFits
<1>2. /\ menu # None => ShownIs(V!MenuTargets(menu)) /\ menu \in V!In(order)
      /\ drag # None => ShownIs(V!TargetsFor(drag))
  BY <1>1 DEF ViewInv, V!MenuTargets, V!TargetsFor, ShownIs
<1>3. ASSUME UNCHANGED <<asked, sent>> PROVE ActsOnIt
  BY <1>3 DEF ActsOnIt
<1>4. ASSUME NEW S, V!Begins(S), ShownIs(S) PROVE ActsOnIt
  BY <1>4 DEF V!Begins, ActsOnIt
<1>5. CASE V!DeleteKey
  BY <1>4, <1>5 DEF V!DeleteKey, ShownIs
<1>6. CASE V!BarButton
  BY <1>4, <1>6 DEF V!BarButton, ShownIs
<1>7. CASE V!RenameKey
  BY <1>7 DEF V!RenameKey, ActsOnIt
<1>8. CASE V!PickAction
  BY <1>2, <1>4, <1>8 DEF V!PickAction
<1>9. CASE V!PickRename
  BY <1>2, <1>9 DEF V!PickRename, ActsOnIt
<1>10. CASE V!Drop
  BY <1>2, <1>10 DEF V!Drop, ActsOnIt
<1>11. CASE V!Confirm \/ V!Close \/ V!Taken
  BY <1>11 DEF V!Confirm, V!Close, V!Taken, ActsOnIt
<1>12. CASE sent = {} /\ V!Event
  <2>1. ASSUME \/ \E d \in Docs : \/ \E shift, toggle \in BOOLEAN : V!Click(d, shift, toggle)
                                   \/ V!FocusItem(d) \/ V!ContextMenu(d) \/ V!MoreMenu(d) \/ V!DragStart(d)
               \/ \E press \in V!NavKeys, shift, toggle \in BOOLEAN : V!Nav(press, shift, toggle)
               \/ V!SelectAll \/ V!Space \/ V!Clear \/ V!CloseMenu
        PROVE UNCHANGED <<asked, sent>>
    BY <2>1 DEF V!Click, V!FocusItem, V!ContextMenu, V!MoreMenu, V!DragStart, V!Nav, V!SelectAll, V!Space,
                V!Clear, V!CloseMenu, V!Selects
  <2>2. ASSUME \/ \E p \in V!Points : \/ \E additive \in BOOLEAN : V!PointerDown(p, additive)
                                      \/ V!PointerMove(p) \/ V!ScrollFrame(p)
               \/ V!PointerUp
               \/ \E o \in Orders : V!ViewChanges(o)
               \/ \E l \in Layouts : V!Measure(l)
        PROVE UNCHANGED <<asked, sent>>
    BY <2>2 DEF V!PointerDown, V!PointerMove, V!ScrollFrame, V!Update, V!PointerUp, V!ViewChanges, V!Measure
  <2> QED
    BY <1>3, <1>5, <1>6, <1>7, <1>8, <1>9, <1>10, <1>11, <1>12, <2>1, <2>2, Zenon DEF V!Event
<1> QED
  BY <1>11, <1>12 DEF V!Next

-----------------------------------------------------------------------------
\* The rate limit.

LEMMA LimitStart == R!Init => R!TypeOK
  BY LimitAssumption DEF R!Init, R!TypeOK, R!NoKey

LEMMA LimitSteps == ASSUME R!TypeOK, R!Next PROVE R!TypeOK'
<1> USE LimitAssumption DEF R!TypeOK
<1>1. key = [count |-> key.count, ttl |-> key.ttl] /\ key.count \in 0..(Limit + 1) /\ key.ttl \in (1..Window) \cup {None}
  OBVIOUS
<1>2. ASSUME NEW e \in Clients, R!Incr(e) PROVE R!TypeOK'
  <2>1. (IF key.count > Limit THEN key.count ELSE key.count + 1) \in 0..(Limit + 1)
    BY <1>1
  <2> QED
    BY <1>2, <2>1 DEF R!Incr
<1>3. ASSUME NEW e \in Clients, R!Expire(e) PROVE R!TypeOK'
  <2>1. R!Expiry \in [count : 0..(Limit + 1), ttl : (1..Window) \cup {None}]
    BY <1>1 DEF R!Expiry
  <2> QED
    BY <1>3, <2>1 DEF R!Expire
<1>4. ASSUME NEW e \in Clients, R!Answer(e) PROVE R!TypeOK'
  BY <1>4 DEF R!Answer
<1>5. ASSUME NEW e \in Clients, R!BreakOff(e) PROVE R!TypeOK'
  BY <1>5 DEF R!BreakOff
<1>6. CASE R!Tick
  <2>1. key.ttl \in 1..Window /\ (key.ttl # 1 => key.ttl - 1 \in 1..Window)
    BY <1>1, <1>6 DEF R!Tick
  <2> QED
    BY <1>1, <1>6, <2>1 DEF R!Tick, R!NoKey
<1> QED
  BY <1>2, <1>3, <1>4, <1>5, <1>6 DEF R!Next, R!Hit

-----------------------------------------------------------------------------
\* The queue of files.

FileTasks == [state : {"new", "queued", "active", "paused"} \cup Q!Finished,
              stop : {"none", "pause", "cancel"}, cancel : {"no", "wait", "abort"}]
NoTwice(queue) == \A i, j \in 1..Len(queue) : queue[i] = queue[j] => i = j
Elements(queue) == {queue[i] : i \in 1..Len(queue)}
QueuedIn(t) == {f \in Files : t[f].state = "queued"}

\* The queue has each file that waits once.
Lines(t, queue) == /\ t \in [Files -> FileTasks] /\ queue \in Seq(Files) /\ NoTwice(queue)
                   /\ Elements(queue) = QueuedIn(t)

QueueInv == /\ Lines(file, waiting) /\ QueuedIn(file) \subseteq known
            /\ known \subseteq Files /\ shown \subseteq Files

LEMMA QueueTypesFit == QueueInv => Q!TypeOK
  BY DEF QueueInv, Lines, Q!TypeOK, FileTasks, Elements, QueuedIn, Q!ToSet

LEMMA QueueStart == Q!Init => QueueInv
  BY DEF Q!Init, QueueInv, Lines, NoTwice, Elements, QueuedIn, FileTasks, Q!NoTask, Q!Finished

LEMMA SlotsAreSome == ASSUME NEW t, shown \subseteq Files PROVE Q!Slots(t) \in Nat
<1>1. Q!Cardinality(Q!Active(t)) = Cardinality(Q!Active(t))
  BY DEF Q!Cardinality, Cardinality
<1>2. Q!Active(t) \subseteq Files
  BY DEF Q!Active
<1>3. Cardinality(Q!Active(t)) \in Nat
  BY <1>2, QueueAssumption, FS_Subset, FS_CardinalityType
<1> QED
  BY <1>1, <1>3, QueueAssumption DEF Q!Slots

\* Those at the head of the queue are started and leave it.
LEMMA PumpFits ==
  ASSUME NEW t, NEW queue, Lines(t, queue), shown \subseteq Files
  PROVE LET started == Q!Started(t, Q!Turn(t, queue)) IN
        Lines(started, Q!Left(t, queue)) /\ QueuedIn(started) \subseteq QueuedIn(t)
<1>1. PICK n \in Nat : n = Q!Slots(t)
  BY SlotsAreSome
<1>2. /\ t \in [Files -> FileTasks] /\ queue \in Seq(Files) /\ Len(queue) \in Nat
      /\ \A i, j \in 1..Len(queue) : queue[i] = queue[j] => i = j
      /\ Elements(queue) = QueuedIn(t)
  BY DEF Lines, NoTwice
<1>3. Q!Turn(t, queue) = {queue[i] : i \in {j \in 1..Len(queue) : j <= n}}
  BY <1>1, <1>2 DEF Q!Turn
<1> DEFINE turn == Q!Turn(t, queue)
           rest == SubSeq(queue, n + 1, Len(queue))
           started == Q!Started(t, turn)
<1>4. Q!Left(t, queue) = rest /\ started = [f \in Files |-> IF f \in turn THEN [t[f] EXCEPT !.state = "active", !.stop = "none"] ELSE t[f]]
  BY <1>1 DEF Q!Left, Q!Started
<1>5. /\ rest \in Seq(Files) /\ Len(rest) = IF n + 1 <= Len(queue) THEN Len(queue) - n ELSE 0
      /\ \A i \in 1..Len(rest) : rest[i] = queue[n + i]
  <2>2. CASE n + 1 > Len(queue)
    <3>1. rest = <<>>
      BY <1>2, <2>2
    <3> QED
      BY <1>2, <2>2, <3>1
  <2>3. CASE n + 1 <= Len(queue)
    <3>1. n + 1 \in 1..Len(queue) /\ Len(queue) \in 1..Len(queue)
      BY <1>2, <2>3
    <3> QED
      BY <1>2, <2>3, <3>1
  <2> QED
    BY <1>2, <2>2, <2>3
<1> HIDE DEF rest
<1>6. \A i \in 1..Len(rest) : n + i \in 1..Len(queue)
  BY <1>2, <1>5
<1>7. NoTwice(rest)
  <2> SUFFICES ASSUME NEW i \in 1..Len(rest), NEW j \in 1..Len(rest), rest[i] = rest[j] PROVE i = j
    BY DEF NoTwice
  <2>1. queue[n + i] = queue[n + j] /\ n + i \in 1..Len(queue) /\ n + j \in 1..Len(queue)
    BY <1>5, <1>6
  <2>2. n + i = n + j
    BY <1>2, <2>1
  <2> QED
    BY <1>2, <1>5, <2>2
<1>8. Elements(rest) = Elements(queue) \ turn
  <2>1. ASSUME NEW i \in 1..Len(rest) PROVE rest[i] \in Elements(queue) \ turn
    <3>1. rest[i] = queue[n + i] /\ n + i \in 1..Len(queue)
      BY <1>5, <1>6
    <3>2. ASSUME NEW j \in 1..Len(queue), j <= n, queue[j] = queue[n + i] PROVE FALSE
      <4>1. j = n + i
        BY <1>2, <3>1, <3>2
      <4> QED
        BY <1>2, <1>5, <3>2, <4>1
    <3> QED
      BY <1>3, <3>1, <3>2 DEF Elements
  <2>2. ASSUME NEW f \in Elements(queue) \ turn PROVE f \in Elements(rest)
    <3>1. PICK j \in 1..Len(queue) : f = queue[j]
      BY DEF Elements
    <3>2. ~ (j <= n)
      BY <1>3, <3>1
    <3>3. j - n \in 1..Len(rest) /\ n + (j - n) = j
      BY <1>2, <1>5, <3>2
    <3>4. rest[j - n] = f
      BY <1>5, <3>1, <3>3
    <3> QED
      BY <3>3, <3>4 DEF Elements
  <2> QED
    BY <2>1, <2>2 DEF Elements
<1> HIDE DEF turn, started
<1>9. started \in [Files -> FileTasks]
  BY <1>2, <1>4 DEF FileTasks
<1>10. \A f \in Files : started[f].state = IF f \in turn THEN "active" ELSE t[f].state
  BY <1>2, <1>4 DEF FileTasks
<1>11. QueuedIn(started) = QueuedIn(t) \ turn
  BY <1>10 DEF QueuedIn
<1>12. Elements(rest) = QueuedIn(started)
  BY <1>2, <1>8, <1>11
<1>13. Lines(started, rest)
  BY <1>5, <1>7, <1>9, <1>12 DEF Lines
<1> QED
  BY <1>4, <1>11, <1>13 DEF turn, started

\* A file that is taken out of the queue is in it no more, and the others are.
LEMMA RemoveFits ==
  ASSUME NEW queue \in Seq(Files), NoTwice(queue), NEW f
  PROVE LET rest == Q!RemoveFirst(queue, f) IN
        rest \in Seq(Files) /\ NoTwice(rest) /\ Elements(rest) = Elements(queue) \ {f}
<1> DEFINE rest == Q!RemoveFirst(queue, f)
<1>1. Len(queue) \in Nat
  OBVIOUS
<1>2. CASE \A i \in 1..Len(queue) : queue[i] # f
  BY <1>2 DEF Q!RemoveFirst, Elements
<1>3. ASSUME NEW k \in 1..Len(queue), queue[k] = f PROVE rest \in Seq(Files) /\ NoTwice(rest) /\ Elements(rest) = Elements(queue) \ {f}
  <2>1. {i \in 1..Len(queue) : queue[i] = f} = {k}
    BY <1>3 DEF NoTwice
  <2>2. Q!Min({k}) = k
    BY DEF Q!Min
  <2>3. rest = SubSeq(queue, 1, k - 1) \o SubSeq(queue, k + 1, Len(queue))
    BY <1>3, <2>1, <2>2 DEF Q!RemoveFirst, Q!RemoveAt, Q!SelectInSeq
  <2>4. /\ SubSeq(queue, 1, k - 1) \in Seq(Files) /\ Len(SubSeq(queue, 1, k - 1)) = k - 1
        /\ \A i \in 1..(k - 1) : SubSeq(queue, 1, k - 1)[i] = queue[i]
    BY <1>1
  <2>5. /\ SubSeq(queue, k + 1, Len(queue)) \in Seq(Files) /\ Len(SubSeq(queue, k + 1, Len(queue))) = Len(queue) - k
        /\ \A i \in 1..(Len(queue) - k) : SubSeq(queue, k + 1, Len(queue))[i] = queue[k + i]
    BY <1>1
  <2> HIDE DEF rest
  <2>6. /\ rest \in Seq(Files) /\ Len(rest) = Len(queue) - 1
        /\ \A i \in 1..(Len(queue) - 1) : rest[i] = IF i < k THEN queue[i] ELSE queue[i + 1]
    <3>1. PICK s1 \in Seq(Files), s2 \in Seq(Files) :
             s1 = SubSeq(queue, 1, k - 1) /\ s2 = SubSeq(queue, k + 1, Len(queue))
      BY <2>4, <2>5
    <3>2. /\ s1 \o s2 \in Seq(Files) /\ Len(s1 \o s2) = Len(s1) + Len(s2)
          /\ \A i \in 1..Len(s1) + Len(s2) : (s1 \o s2)[i] = IF i <= Len(s1) THEN s1[i] ELSE s2[i - Len(s1)]
      BY ConcatProperties
    <3>3. Len(s1) = k - 1 /\ Len(s2) = Len(queue) - k /\ rest = s1 \o s2
      BY <2>3, <2>4, <2>5, <3>1
    <3>7. s1 \o s2 \in Seq(Files) /\ Len(s1 \o s2) = Len(s1) + Len(s2)
      BY <3>2
    <3>8. (k - 1) + (Len(queue) - k) = Len(queue) - 1
      BY <1>1
    <3>4. rest \in Seq(Files) /\ Len(rest) = Len(queue) - 1
      BY <3>3, <3>7, <3>8
    <3>5. ASSUME NEW i \in 1..(Len(queue) - 1), i < k PROVE rest[i] = queue[i]
      <4>1. i \in 1..(k - 1) /\ i \in 1..Len(s1) + Len(s2) /\ i <= Len(s1)
        BY <1>1, <3>3, <3>5
      <4>2. rest[i] = s1[i] /\ s1[i] = queue[i]
        BY <2>4, <3>1, <3>2, <3>3, <4>1
      <4> QED
        BY <4>2
    <3>6. ASSUME NEW i \in 1..(Len(queue) - 1), ~ (i < k) PROVE rest[i] = queue[i + 1]
      <4>1. /\ i - (k - 1) \in 1..(Len(queue) - k) /\ i \in 1..Len(s1) + Len(s2) /\ ~ (i <= Len(s1))
            /\ k + (i - (k - 1)) = i + 1
        BY <1>1, <3>3, <3>6
      <4>2. rest[i] = s2[i - (k - 1)]
        BY <3>2, <3>3, <4>1
      <4>3. s2[i - (k - 1)] = queue[k + (i - (k - 1))]
        BY <2>5, <3>1, <4>1
      <4> QED
        BY <4>1, <4>2, <4>3
    <3> QED
      BY <3>4, <3>5, <3>6
  <2>7. NoTwice(rest)
    BY <1>1, <2>6 DEF NoTwice
  <2>8. Elements(rest) \subseteq Elements(queue) \ {f}
    BY <1>1, <1>3, <2>6 DEF NoTwice, Elements
  <2>9. ASSUME NEW j \in 1..Len(queue), queue[j] # f PROVE queue[j] \in Elements(rest)
    <3>1. CASE j < k
      <4>1. j \in 1..Len(rest) /\ rest[j] = queue[j]
        BY <1>1, <2>6, <3>1
      <4> QED
        BY <4>1 DEF Elements
    <3>2. CASE j > k
      <4>1. j - 1 \in 1..Len(rest) /\ rest[j - 1] = queue[j]
        BY <1>1, <2>6, <3>2
      <4> QED
        BY <4>1 DEF Elements
    <3>3. j # k
      BY <1>3, <2>9
    <3> QED
      BY <1>1, <3>1, <3>2, <3>3
  <2> QED
    BY <2>6, <2>7, <2>8, <2>9 DEF Elements
<1> QED
  BY <1>2, <1>3

LEMMA AddFits ==
  ASSUME NEW queue \in Seq(Files), NoTwice(queue), NEW f \in Files, f \notin Elements(queue)
  PROVE LET longer == Append(queue, f) IN
        longer \in Seq(Files) /\ NoTwice(longer) /\ Elements(longer) = Elements(queue) \cup {f}
<1> DEFINE longer == Append(queue, f)
<1>1. /\ longer \in Seq(Files) /\ Len(longer) = Len(queue) + 1 /\ Len(queue) \in Nat
      /\ \A i \in 1..Len(queue) : longer[i] = queue[i]
      /\ longer[Len(queue) + 1] = f
  OBVIOUS
<1> HIDE DEF longer
<1>2. NoTwice(longer)
  BY <1>1 DEF NoTwice, Elements
<1>3. Elements(longer) \subseteq Elements(queue) \cup {f}
  BY <1>1 DEF Elements
<1>4. Elements(queue) \subseteq Elements(longer)
  BY <1>1 DEF Elements
<1>5. f \in Elements(longer)
  BY <1>1 DEF Elements
<1> QED
  BY <1>1, <1>2, <1>3, <1>4, <1>5 DEF longer

LEMMA QueueKept ==
  ASSUME Lines(file', waiting'), QueuedIn(file') \subseteq known', known' \subseteq Files, shown' \subseteq Files
  PROVE QueueInv'
<1>1. NoTwice(waiting)' <=> NoTwice(waiting')
  BY DEF NoTwice
<1>2. Elements(waiting)' = Elements(waiting') /\ QueuedIn(file)' = QueuedIn(file')
  BY DEF Elements, QueuedIn
<1>3. /\ file' \in [Files -> FileTasks] /\ waiting' \in Seq(Files) /\ NoTwice(waiting')
      /\ Elements(waiting') = QueuedIn(file')
  BY Zenon DEF Lines
<1> QED
  BY <1>1, <1>2, <1>3 DEF QueueInv, Lines, FileTasks, Q!Finished

LEMMA PumpKept ==
  ASSUME NEW t, NEW queue, Lines(t, queue), shown \subseteq Files, Q!Pump(t, queue),
         QueuedIn(t) \subseteq known', known' \subseteq Files, shown' \subseteq Files
  PROVE QueueInv'
<1>1. file' = Q!Started(t, Q!Turn(t, queue)) /\ waiting' = Q!Left(t, queue)
  BY DEF Q!Pump
<1>2. Lines(file', waiting') /\ QueuedIn(file') \subseteq QueuedIn(t)
  BY <1>1, PumpFits
<1> QED
  BY <1>2, QueueKept

\* A file's upload changes and its place in the queue does not.
LEMMA SameQueue ==
  ASSUME NEW t, Lines(t, waiting), NEW f \in Files, NEW r \in FileTasks, r.state = "queued" <=> t[f].state = "queued"
  PROVE Lines([t EXCEPT ![f] = r], waiting) /\ QueuedIn([t EXCEPT ![f] = r]) = QueuedIn(t)
<1> DEFINE u == [t EXCEPT ![f] = r]
<1>1. t \in [Files -> FileTasks]
  BY DEF Lines
<1>2. u \in [Files -> FileTasks] /\ \A g \in Files : u[g] = IF g = f THEN r ELSE t[g]
  BY <1>1
<1> HIDE DEF u
<1>3. QueuedIn(u) = QueuedIn(t)
  BY <1>2 DEF QueuedIn
<1>4. Lines(u, waiting)
  BY <1>2, <1>3 DEF Lines
<1> QED
  BY <1>3, <1>4 DEF u

LEMMA QueueSteps == ASSUME QueueInv, Q!Next PROVE QueueInv'
<1>1. /\ Lines(file, waiting) /\ QueuedIn(file) \subseteq known /\ known \subseteq Files /\ shown \subseteq Files
      /\ file \in [Files -> FileTasks] /\ waiting \in Seq(Files) /\ NoTwice(waiting) /\ Elements(waiting) = QueuedIn(file)
  BY DEF QueueInv, Lines
<1>2. \A f \in Files : file[f] = [state |-> file[f].state, stop |-> file[f].stop, cancel |-> file[f].cancel]
  BY <1>1 DEF FileTasks
<1>3. ASSUME NEW f \in Files, Q!Refuse(f) PROVE QueueInv'
  <2> DEFINE r == [file[f] EXCEPT !.state = "failed"]
  <2>1. file[f].state = "new"
    BY <1>3 DEF Q!Refuse, Q!NoTask
  <2>2. r \in FileTasks /\ r.state = "failed"
    BY <1>1 DEF FileTasks, Q!Finished
  <2>3. /\ file' = [file EXCEPT ![f] = r] /\ waiting' = waiting /\ known' = known
        /\ shown' = shown \cup {f}
    BY <1>3 DEF Q!Refuse
  <2> HIDE DEF r
  <2>4. Lines(file', waiting') /\ QueuedIn(file') = QueuedIn(file)
    BY <1>1, <2>1, <2>2, <2>3, SameQueue
  <2> QED
    BY <1>1, <2>3, <2>4, QueueKept
<1>4. ASSUME NEW f \in Files, Q!Add(f) PROVE QueueInv'
  <2> DEFINE t == [file EXCEPT ![f].state = "queued"]
             longer == Append(waiting, f)
  <2>1. f \notin QueuedIn(file)
    BY <1>4 DEF Q!Add, Q!NoTask, QueuedIn
  <2>2. longer \in Seq(Files) /\ NoTwice(longer) /\ Elements(longer) = Elements(waiting) \cup {f}
    BY <1>1, <2>1, AddFits
  <2>3. t \in [Files -> FileTasks] /\ \A g \in Files : t[g].state = IF g = f THEN "queued" ELSE file[g].state
    BY <1>1 DEF FileTasks
  <2>4. Q!Pump(t, longer) /\ known' = known \cup {f} /\ shown' = shown \cup {f}
    BY <1>4 DEF Q!Add
  <2> HIDE DEF t, longer
  <2>5. QueuedIn(t) = QueuedIn(file) \cup {f}
    BY <2>3 DEF QueuedIn
  <2>6. Lines(t, longer)
    BY <1>1, <2>2, <2>3, <2>5 DEF Lines
  <2> QED
    BY <1>1, <2>4, <2>5, <2>6, PumpKept
<1>5. ASSUME NEW f \in Files, Q!Pause(f) PROVE QueueInv'
  <2> DEFINE r == [file[f] EXCEPT !.stop = "pause"]
  <2>1. r \in FileTasks /\ r.state = file[f].state
    BY <1>1 DEF FileTasks
  <2>2. /\ file' = [file EXCEPT ![f] = r] /\ waiting' = waiting /\ known' = known /\ shown' = shown
    BY <1>5 DEF Q!Pause
  <2> HIDE DEF r
  <2>3. Lines(file', waiting') /\ QueuedIn(file') = QueuedIn(file)
    BY <1>1, <2>1, <2>2, SameQueue
  <2> QED
    BY <1>1, <2>2, <2>3, QueueKept
<1>6. ASSUME NEW f \in Files, Q!Restart(f) PROVE QueueInv'
  <2> DEFINE r == [file[f] EXCEPT !.state = "active", !.stop = "none"]
  <2>1. r \in FileTasks /\ r.state = "active" /\ file[f].state # "queued"
    BY <1>1, <1>6 DEF FileTasks, Q!Restart
  <2>2. file' = [file EXCEPT ![f] = r]
    <3>1. file' = [g \in Files |-> IF g \in {f} THEN [file[g] EXCEPT !.state = "active", !.stop = "none"] ELSE file[g]]
      BY <1>6 DEF Q!Restart, Q!Started
    <3> QED
      BY <1>1, <3>1
  <2>3. waiting' = waiting /\ known' = known /\ shown' = shown \cup {f}
    BY <1>6 DEF Q!Restart
  <2> HIDE DEF r
  <2>4. Lines(file', waiting') /\ QueuedIn(file') = QueuedIn(file)
    BY <1>1, <2>1, <2>2, <2>3, SameQueue
  <2> QED
    BY <1>1, <2>3, <2>4, QueueKept
<1>7. ASSUME NEW f \in Files, Q!Cancel(f) PROVE QueueInv'
  <2> DEFINE queue == Q!RemoveFirst(waiting, f)
             t == [file EXCEPT ![f].state = "cancelled"]
             u == [t EXCEPT ![f].cancel = "abort"]
  <2>1. CASE file[f].state = "active" /\ file' = [file EXCEPT ![f].stop = "cancel", ![f].cancel = "wait"] /\ UNCHANGED <<shown, waiting>>
    <3> DEFINE r == [file[f] EXCEPT !.stop = "cancel", !.cancel = "wait"]
    <3>1. r \in FileTasks /\ r.state = file[f].state
      BY <1>1 DEF FileTasks
    <3>2. file' = [file EXCEPT ![f] = r] /\ waiting' = waiting /\ known' = known /\ shown' = shown
      BY <1>1, <1>7, <2>1 DEF Q!Cancel, FileTasks
    <3> HIDE DEF r
    <3>3. Lines(file', waiting') /\ QueuedIn(file') = QueuedIn(file)
      BY <1>1, <3>1, <3>2, SameQueue
    <3> QED
      BY <1>1, <3>2, <3>3, QueueKept
  <2>2. queue \in Seq(Files) /\ NoTwice(queue) /\ Elements(queue) = Elements(waiting) \ {f}
    BY <1>1, RemoveFits
  <2>3. t \in [Files -> FileTasks] /\ \A g \in Files : t[g].state = IF g = f THEN "cancelled" ELSE file[g].state
    BY <1>1 DEF FileTasks, Q!Finished
  <2> HIDE DEF t
  <2>4. u \in [Files -> FileTasks] /\ \A g \in Files : u[g].state = t[g].state
    BY <2>3 DEF FileTasks
  <2> HIDE DEF queue, u
  <2>5. QueuedIn(t) = QueuedIn(file) \ {f} /\ QueuedIn(u) = QueuedIn(file) \ {f}
    BY <2>3, <2>4 DEF QueuedIn
  <2>6. Lines(t, queue) /\ Lines(u, queue)
    BY <1>1, <2>2, <2>3, <2>4, <2>5 DEF Lines
  <2>7. CASE shown' = shown \cup {f} /\ ((file' = u /\ waiting' = queue) \/ Q!Pump(t, queue))
    <3>1. known' = known
      BY <1>7 DEF Q!Cancel
    <3>2. CASE file' = u /\ waiting' = queue
      BY <1>1, <2>5, <2>6, <2>7, <3>1, <3>2, QueueKept
    <3>3. CASE Q!Pump(t, queue)
      BY <1>1, <2>5, <2>6, <2>7, <3>1, <3>3, PumpKept
    <3> QED
      BY <2>7, <3>2, <3>3
  <2> QED
    BY <1>7, <2>1, <2>7 DEF Q!Cancel, queue, t, u
<1>8. ASSUME NEW f \in Files, Q!Dismiss(f) PROVE QueueInv'
  <2>1. file' = file /\ waiting' = waiting /\ known' = known \ {f} /\ shown' = shown \ {f}
    BY <1>8 DEF Q!Dismiss
  <2>2. f \notin QueuedIn(file)
    BY <1>8 DEF Q!Dismiss, QueuedIn, Q!Finished
  <2> QED
    BY <1>1, <2>1, <2>2, QueueKept
<1>9. CASE Q!ClearFinished
  <2> DEFINE gone == {f \in shown : file[f].state \in Q!Finished}
  <2>1. file' = file /\ waiting' = waiting /\ known' = known \ gone /\ shown' = shown \ gone
    BY <1>9 DEF Q!ClearFinished
  <2>2. gone \cap QueuedIn(file) = {}
    BY DEF QueuedIn, Q!Finished
  <2> HIDE DEF gone
  <2> QED
    BY <1>1, <2>1, <2>2, QueueKept
<1>10. ASSUME NEW f \in Files, Q!Ends(f) PROVE QueueInv'
  <2>1. PICK state \in {"done", "failed", "paused"} : Q!Pump([file EXCEPT ![f].state = state], waiting)
    BY <1>10 DEF Q!Ends
  <2> DEFINE r == [file[f] EXCEPT !.state = state]
  <2>2. r \in FileTasks /\ r.state # "queued" /\ file[f].state # "queued"
    BY <1>1, <1>10 DEF FileTasks, Q!Finished, Q!Ends
  <2>3. Q!Pump([file EXCEPT ![f] = r], waiting) /\ known' = known /\ shown' = shown
    BY <1>10, <2>1 DEF Q!Ends
  <2> HIDE DEF r
  <2>4. Lines([file EXCEPT ![f] = r], waiting) /\ QueuedIn([file EXCEPT ![f] = r]) = QueuedIn(file)
    BY <1>1, <2>2, SameQueue
  <2> QED
    BY <1>1, <2>3, <2>4, PumpKept
<1>11. ASSUME NEW f \in Files, Q!EndsCancelled(f) PROVE QueueInv'
  <2> DEFINE r == [file[f] EXCEPT !.state = "done"]
             After(t) == Q!Started(t, Q!Turn(t, waiting))
  <2>1. PICK t \in {file, [file EXCEPT ![f] = r]} :
           /\ file' = [After(t) EXCEPT ![f].state = "cancelled", ![f].cancel = "abort"]
           /\ waiting' = Q!Left(t, waiting)
    BY <1>11 DEF Q!EndsCancelled
  <2>2. r \in FileTasks /\ r.state # "queued" /\ file[f].state = "active"
    BY <1>1, <1>11 DEF FileTasks, Q!Finished, Q!EndsCancelled
  <2> HIDE DEF r
  <2>3. Lines(t, waiting) /\ QueuedIn(t) = QueuedIn(file)
    BY <1>1, <2>1, <2>2, SameQueue
  <2>4. Lines(After(t), waiting') /\ QueuedIn(After(t)) \subseteq QueuedIn(file)
    BY <1>1, <2>1, <2>3, PumpFits
  <2>5. f \notin QueuedIn(After(t))
    BY <2>2, <2>4 DEF QueuedIn
  <2> HIDE DEF After
  <2>6. PICK v : v = After(t)
    OBVIOUS
  <2>7. v \in [Files -> FileTasks]
    BY <2>4, <2>6 DEF Lines
  <2>8. /\ file' \in [Files -> FileTasks]
        /\ \A g \in Files : file'[g].state = IF g = f THEN "cancelled" ELSE v[g].state
    BY <2>1, <2>6, <2>7 DEF FileTasks, Q!Finished
  <2>9. QueuedIn(file') = QueuedIn(v)
    BY <2>5, <2>6, <2>8 DEF QueuedIn
  <2>10. Lines(file', waiting')
    BY <2>4, <2>6, <2>8, <2>9 DEF Lines
  <2>11. known' = known /\ shown' = shown
    BY <1>11 DEF Q!EndsCancelled
  <2> QED
    BY <1>1, <2>4, <2>6, <2>9, <2>10, <2>11, QueueKept
<1>12. ASSUME NEW f \in Files, Q!CancelEnds(f) PROVE QueueInv'
  <2> DEFINE r == [file[f] EXCEPT !.cancel = "no"]
  <2>1. r \in FileTasks /\ r.state = file[f].state
    BY <1>1 DEF FileTasks
  <2>2. Q!Pump([file EXCEPT ![f] = r], waiting) /\ known' = known /\ shown' = shown
    BY <1>12 DEF Q!CancelEnds
  <2> HIDE DEF r
  <2>3. Lines([file EXCEPT ![f] = r], waiting) /\ QueuedIn([file EXCEPT ![f] = r]) = QueuedIn(file)
    BY <1>1, <2>1, SameQueue
  <2> QED
    BY <1>1, <2>2, <2>3, PumpKept
<1> QED
  BY <1>3, <1>4, <1>5, <1>6, <1>7, <1>8, <1>9, <1>10, <1>11, <1>12, Zenon DEF Q!Next, Q!User

-----------------------------------------------------------------------------
\* The server's side of uploads, as a part of MCSpec: its steps are those that UploadsProofs is about.

UP == INSTANCE UploadsProofs WITH Files <- Stored, Limit <- Plan, queue <- queued

LEMMA SameStart == U!Init <=> UP!Init
  BY DEF U!Init, UP!Init, U!NoParts, UP!NoParts, U!PartNumbers, UP!PartNumbers, U!Idle, UP!Idle, U!Resting, UP!Resting

LEMMA SameSteps == U!Next <=> UP!Next
  BY Zenon
  DEF U!Next, UP!Next, U!InitCheck, UP!InitCheck, U!InitResume, UP!InitResume, U!InitStart, UP!InitStart,
      U!InitInsert, UP!InitInsert, U!PutObject, UP!PutObject, U!PutPart, UP!PutPart, U!Expire, UP!Expire,
      U!DropSession, UP!DropSession, U!CompleteCheck, UP!CompleteCheck, U!CompleteMerge, UP!CompleteMerge,
      U!CompleteHead, UP!CompleteHead, U!CompleteCommit, UP!CompleteCommit, U!CompleteRollback,
      UP!CompleteRollback, U!Enqueue, UP!Enqueue, U!DiscardRemove, UP!DiscardRemove, U!DiscardMark,
      UP!DiscardMark, U!AbortCheck, UP!AbortCheck, U!AbortSession, UP!AbortSession, U!RequestCrash,
      UP!RequestCrash, U!Receive, UP!Receive, U!Inspect, UP!Inspect, U!Approve, UP!Approve, U!RejectRemove,
      UP!RejectRemove, U!RejectRefund, UP!RejectRefund, U!Ack, UP!Ack, U!JobCrash, UP!JobCrash,
      U!DeadLetter, UP!DeadLetter, U!InitStep, UP!InitStep, U!CompleteStep, UP!CompleteStep, U!DiscardStep,
      UP!DiscardStep, U!JobStep, UP!JobStep, U!PartNumbers, UP!PartNumbers, U!NoParts, UP!NoParts, U!Idle, UP!Idle,
      U!Resting, UP!Resting, U!Live, UP!Live, U!Duplicate, UP!Duplicate, U!Fits, UP!Fits, U!Refunded,
      UP!Refunded, U!Single, UP!Single, U!Passes, UP!Passes, U!Unjudged, UP!Unjudged, U!Pending,
      UP!Pending, U!WithStatus, UP!WithStatus, U!Fresh, UP!Fresh, U!Resumable, UP!Resumable, U!Goto,
      UP!Goto, U!Respond, UP!Respond, U!s3, UP!s3, U!sqs, UP!sqs

LEMMA UploadsBehave == MCSpec => UP!Spec
<1>1. MCInit => UP!Init
  BY SameStart DEF MCInit
<1>2. [MCNext]_allVars => U!Next \/ UNCHANGED uploadVars
  BY DEF MCNext, allVars
<1>3. [MCNext]_allVars => [UP!Next]_UP!vars
  BY <1>2, SameSteps DEF uploadVars, UP!vars, UP!s3, UP!sqs
<1> QED
  BY <1>1, <1>3, PTL DEF MCSpec, UP!Spec

LEMMA UploadsTyped == MCSpec => []U!TypeOK
<1>1. UP!Spec => []UP!TypeOK
  BY UP!TypeCorrect, PlanAssumption
<1>2. UP!TypeOK => U!TypeOK
  BY Zenon
  DEF U!TypeOK, UP!TypeOK, U!RecordsOK, UP!RecordsOK, U!StoreOK, UP!StoreOK, U!RequestsOK, UP!RequestsOK,
      U!JobsOK, UP!JobsOK, U!Starting, UP!Starting, U!Handling, UP!Handling, U!PartNumbers, UP!PartNumbers, U!Idle,
      UP!Idle, U!Resting, UP!Resting
<1> QED
  BY <1>1, <1>2, UploadsBehave, PTL

-----------------------------------------------------------------------------
\* The parts together.

\* The places: a list, a layout, and nothing selected or open.
PlacesInv == /\ order \in Lists /\ layout \in Shapes /\ sel = P!Nobody
             /\ box = None /\ menu = None /\ drag = None /\ asked = {} /\ sent = {}

BrowserInv == /\ IInv /\ QueueInv /\ R!TypeOK
              /\ part = "view" => ViewInv
              /\ part # "view" => PlacesInv

LEMMA BrowserTypes == BrowserInv /\ U!TypeOK => TypesOK
<1>1. PlacesInv => P!TypeOK
  BY DEF PlacesInv, P!TypeOK, P!Nobody, P!MaybeDoc
<1> QED
  BY <1>1, QueueTypesFit DEF BrowserInv, IInv, ViewInv, TypesOK

LEMMA BrowserStart == MCInit => BrowserInv
<1> SUFFICES ASSUME MCInit PROVE BrowserInv
  OBVIOUS
<1>1. IInv /\ QueueInv /\ R!TypeOK
  BY TypeInit, QueueStart, LimitStart DEF MCInit
<1>2. part = "view" => ViewInv
  BY ViewStart DEF MCInit
<1>3. part # "view" => PlacesInv
  BY DEF MCInit, P!Init, PlacesInv
<1> QED
  BY <1>1, <1>2, <1>3 DEF BrowserInv

\* What a part that stands still keeps.
LEMMA TaskStill == IInv /\ UNCHANGED vars => IInv'
  BY TypeNext

LEMMA QueueStill == QueueInv /\ UNCHANGED queueVars => QueueInv'
<1> SUFFICES ASSUME QueueInv, UNCHANGED queueVars PROVE QueueInv'
  OBVIOUS
<1>1. file' = file /\ known' = known /\ shown' = shown /\ waiting' = waiting
  BY DEF queueVars
<1> QED
  BY <1>1, QueueKept DEF QueueInv

LEMMA LimitStill == R!TypeOK /\ UNCHANGED limitVars => R!TypeOK'
  BY DEF limitVars, R!TypeOK

LEMMA ViewStill == ViewInv /\ UNCHANGED viewVars => ViewInv'
  BY DEF viewVars, ViewInv, V!TypeOK, V!In

LEMMA PlacesStill == PlacesInv /\ UNCHANGED viewVars => PlacesInv'
  BY DEF viewVars, PlacesInv

LEMMA PlacesSteps ==
  ASSUME PlacesInv, (\E o \in Lists : P!ViewChanges(o)) \/ (\E l \in Shapes : P!Measure(l))
  PROVE PlacesInv'
<1>1. ASSUME NEW o \in Lists, P!ViewChanges(o) PROVE PlacesInv'
  <2>1. P!Remains(None) = None
    BY DEF P!Remains
  <2> QED
    BY <1>1, <2>1 DEF P!ViewChanges, PlacesInv
<1>2. ASSUME NEW l \in Shapes, P!Measure(l) PROVE PlacesInv'
  BY <1>2 DEF P!Measure, PlacesInv
<1> QED
  BY <1>1, <1>2

LEMMA BrowserSteps == BrowserInv /\ [MCNext]_allVars => BrowserInv'
<1> SUFFICES ASSUME BrowserInv, [MCNext]_allVars PROVE BrowserInv'
  OBVIOUS
<1>1. IInv /\ QueueInv /\ R!TypeOK /\ (part = "view" => ViewInv) /\ (part # "view" => PlacesInv)
  BY DEF BrowserInv
<1>2. part' = part
  BY DEF MCNext, allVars
<1>3. IInv'
  <2>1. [Next]_vars
    BY DEF MCNext, allVars
  <2> QED
    BY <1>1, <2>1, TypeNext
<1>4. QueueInv'
  <2>1. Q!Next \/ UNCHANGED queueVars
    BY DEF MCNext, allVars
  <2> QED
    BY <1>1, <2>1, QueueSteps, QueueStill
<1>5. R!TypeOK'
  <2>1. R!Next \/ UNCHANGED limitVars
    BY DEF MCNext, allVars
  <2> QED
    BY <1>1, <2>1, LimitSteps, LimitStill
<1>6. (part = "view" => ViewInv)'
  <2>1. part = "view" => V!Next \/ UNCHANGED viewVars
    BY DEF MCNext, allVars
  <2> QED
    BY <1>1, <1>2, <2>1, ViewSteps, ViewStill
<1>7. (part # "view" => PlacesInv)'
  <2>1. part # "view" => \/ (\E o \in Lists : P!ViewChanges(o)) \/ (\E l \in Shapes : P!Measure(l))
                         \/ UNCHANGED viewVars
    BY DEF MCNext, allVars
  <2> QED
    BY <1>1, <1>2, <2>1, PlacesSteps, PlacesStill
<1> QED
  BY <1>3, <1>4, <1>5, <1>6, <1>7 DEF BrowserInv

\* Every variable of the upload on both sides, the queue, the rate limit, the view and its places keeps
\* its kind (engine.ts, store.ts, uploads.ts, verification.ts, rate-limit.ts, library-view.tsx).
THEOREM BrowserTyped == MCSpec => []TypesOK
  BY BrowserStart, BrowserSteps, BrowserTypes, UploadsTyped, PTL DEF MCSpec

\* With one upload request at a time, and any number of workers and redeliveries, a file in use has its
\* bytes: no object of a ready file is removed (uploads.ts complete and abort, verification.ts verify).
THEOREM ReadyFilesKept ==
  ASSUME \A p, q \in Procs : p = q
  PROVE  MCSpec => []ReadyHasObject
<1>1. UP!Spec => []UP!ReadyHasObject
  BY UP!ReadyFilesKept, PlanAssumption DEF UP!OneAtATime
<1>2. UP!ReadyHasObject => ReadyHasObject
  BY DEF ReadyHasObject, U!ReadyHasObject, UP!ReadyHasObject
<1> QED
  BY <1>1, <1>2, UploadsBehave, PTL

\* In a view an action is begun on what is drawn as selected, or on one document beside it, and a dialog
\* acts on what it asked about; the box and the keys agree with the screen, for any number of documents
\* and any width (selection.ts, layout.ts, library-view.tsx).
THEOREM ActsOnShown == MCSpec => ActsOnWhatIsShown
<1>1. BrowserInv /\ [MCNext]_allVars => [ActsOnIt]_V!vars
  <2> SUFFICES ASSUME BrowserInv, [MCNext]_allVars PROVE ActsOnIt \/ UNCHANGED V!vars
    OBVIOUS
  <2>1. UNCHANGED viewVars => UNCHANGED V!vars
    BY DEF viewVars, V!vars
  <2>2. CASE part = "view" /\ V!Next
    BY <2>2, ViewActs DEF BrowserInv
  <2>3. CASE (\E o \in Lists : P!ViewChanges(o)) \/ (\E l \in Shapes : P!Measure(l))
    BY <2>3 DEF P!ViewChanges, P!Measure, ActsOnIt
  <2>4. (part = "view" /\ V!Next) \/ ((\E o \in Lists : P!ViewChanges(o)) \/ (\E l \in Shapes : P!Measure(l)))
        \/ UNCHANGED viewVars
    BY DEF MCNext, allVars
  <2> QED
    BY <2>1, <2>2, <2>3, <2>4
<1>2. [][ActsOnIt]_V!vars => V!ActsOnWhatIsShown
  BY DEF V!ActsOnWhatIsShown, ActsOnIt, ShownIs
<1>3. BrowserInv => (part = "places" => P!AgreeOnPlaces)
  BY PlacesAgree DEF BrowserInv, PlacesInv
<1> QED
  BY <1>1, <1>2, <1>3, BrowserStart, BrowserSteps, PTL DEF MCSpec, ActsOnWhatIsShown
=============================================================================
