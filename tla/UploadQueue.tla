----------------------------- MODULE UploadQueue -----------------------------
(***************************************************************************)
(* The upload tray's queue (apps/web lib/upload store.ts): files wait, and *)
(* the queue starts a few at a time as others finish, fail, pause or are   *)
(* cancelled.  Of an upload only what the queue sees is kept: it is at     *)
(* work ("active") or in one of the other states.  A step is an event with *)
(* the continuations it leads to.                                          *)
(***************************************************************************)
EXTENDS Naturals, Sequences, SequencesExt, FiniteSets

CONSTANTS Files,           \* the files that are added
          FileConcurrency  \* FILE_CONCURRENCY

VARIABLES task,     \* each file's upload: state, why its run stops, and how far its cancel() is
          known,    \* the files of the `tasks` map
          shown,    \* the files of `items`
          waiting   \* the queue

vars == <<task, known, shown, waiting>>

NoTask == [state |-> "new", stop |-> "none", cancel |-> "no"]
Finished == {"done", "failed", "cancelled"}

Init ==
  /\ task = [f \in Files |-> NoTask]
  /\ known = {} /\ shown = {} /\ waiting = <<>>

-----------------------------------------------------------------------------
\* pump: as many of the queue as there are slots are started.

\* (Mutant: those that are paused keep their slot.)
ActiveOrPaused(t) == {f \in shown : t[f].state \in {"active", "paused"}}

Active(t) == {f \in shown : t[f].state = "active"}
Slots(t) == LET n == Cardinality(Active(t)) IN IF n < FileConcurrency THEN FileConcurrency - n ELSE 0
Turn(t, queue) == LET n == Slots(t) IN {queue[i] : i \in {j \in DOMAIN queue : j <= n}}

Started(t, S) == [f \in Files |-> IF f \in S THEN [t[f] EXCEPT !.state = "active", !.stop = "none"] ELSE t[f]]

\* (Mutant: what starts stays in the queue.)
LeftAll(t, queue) == queue

Left(t, queue) == SubSeq(queue, Slots(t) + 1, Len(queue))

Pump(t, queue) == task' = Started(t, Turn(t, queue)) /\ waiting' = Left(t, queue)

-----------------------------------------------------------------------------
\* The user.

\* A file that is refused is shown, and never in the queue.
Refuse(f) ==
  /\ task[f] = NoTask
  /\ task' = [task EXCEPT ![f].state = "failed"]
  /\ shown' = shown \cup {f}
  /\ UNCHANGED <<known, waiting>>

Add(f) ==
  /\ task[f] = NoTask
  /\ known' = known \cup {f} /\ shown' = shown \cup {f}
  /\ Pump([task EXCEPT ![f].state = "queued"], Append(waiting, f))

\* A file that is being verified is not paused; that is the run's end, below.
Pause(f) ==
  /\ f \in known /\ task[f].state = "active" /\ task[f].stop = "none"
  /\ task' = [task EXCEPT ![f].stop = "pause"]
  /\ UNCHANGED <<known, shown, waiting>>

\* resume() and retry() start at once, whether or not there is a slot.
Restart(f) ==
  /\ f \in known /\ task[f].state \in {"paused", "failed"}
  /\ task' = Started(task, {f})
  /\ shown' = shown \cup {f}
  /\ UNCHANGED <<known, waiting>>

\* It leaves the queue; a run is stopped first.  The server is told of an upload it knows of.
Cancel(f) ==
  LET queue == RemoveFirst(waiting, f)
      t == [task EXCEPT ![f].state = "cancelled"] IN
  /\ f \in known /\ task[f].state \notin {"done", "cancelled"} /\ task[f].cancel = "no"
  /\ \/ /\ task[f].state = "active"
        /\ task' = [task EXCEPT ![f].stop = "cancel", ![f].cancel = "wait"]
        /\ UNCHANGED <<shown, waiting>>
     \/ /\ task[f].state # "active"
        /\ shown' = shown \cup {f}
        /\ \/ task[f].state # "queued" /\ task' = [t EXCEPT ![f].cancel = "abort"] /\ waiting' = queue
           \/ Pump(t, queue)
  /\ UNCHANGED known

Dismiss(f) ==
  /\ f \in shown /\ task[f].state \in Finished
  /\ shown' = shown \ {f} /\ known' = known \ {f}
  /\ UNCHANGED <<task, waiting>>

ClearFinished ==
  LET gone == {f \in shown : task[f].state \in Finished} IN
  /\ shown' = shown \ gone /\ known' = known \ gone
  /\ UNCHANGED <<task, waiting>>

-----------------------------------------------------------------------------
\* The uploads.

\* A run ends: done, failed or paused.
Ends(f) ==
  /\ task[f].state = "active" /\ task[f].cancel = "no"
  /\ \E state \in {"done", "failed"} \cup (IF task[f].stop = "pause" THEN {"paused"} ELSE {}) :
       Pump([task EXCEPT ![f].state = state], waiting)
  /\ UNCHANGED <<known, shown>>

\* A run that cancel() waits for ends: stopped, when pump still counts it, or finished by itself.
\* Then cancel() goes on.
EndsCancelled(f) ==
  /\ task[f].state = "active" /\ task[f].cancel = "wait"
  /\ \E t \in {task, [task EXCEPT ![f].state = "done"]} :
       /\ task' = [Started(t, Turn(t, waiting)) EXCEPT ![f].state = "cancelled", ![f].cancel = "abort"]
       /\ waiting' = Left(t, waiting)
  /\ UNCHANGED <<known, shown>>

\* The server answers the abort, or does not, or there was no upload to tell it of.
CancelEnds(f) ==
  /\ task[f].cancel = "abort"
  /\ Pump([task EXCEPT ![f].cancel = "no"], waiting)
  /\ UNCHANGED <<known, shown>>

User(f) == Refuse(f) \/ Add(f) \/ Pause(f) \/ Restart(f) \/ Cancel(f) \/ Dismiss(f)
Next == (\E f \in Files : User(f) \/ Ends(f) \/ EndsCancelled(f) \/ CancelEnds(f)) \/ ClearFinished

Spec == Init /\ [][Next]_vars

\* Every run ends (UploadTask: Settles), and every call is answered or fails.
Fairness == \A f \in Files : WF_vars(Ends(f)) /\ WF_vars(EndsCancelled(f)) /\ WF_vars(CancelEnds(f))
FairSpec == Spec /\ Fairness

-----------------------------------------------------------------------------
\* Properties.

\* Every variable holds a value of its kind.
TypeOK ==
  /\ task \in [Files -> [state : {"new", "queued", "active", "paused"} \cup Finished,
                         stop : {"none", "pause", "cancel"}, cancel : {"no", "wait", "abort"}]]
  /\ known \subseteq Files /\ shown \subseteq Files
  /\ ToSet(waiting) = {f \in Files : task[f].state = "queued"} /\ ToSet(waiting) \subseteq known

\* Every file gets its turn: whatever the user does to the others, in whatever order they end, one
\* that waits is started or cancelled (pump).
EveryFileGetsItsTurn == \A f \in Files : task[f].state = "queued" ~> task[f].state # "queued"
=============================================================================
