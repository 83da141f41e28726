------------------------------ MODULE MCBrowser ------------------------------
(***************************************************************************)
(* Small instances of what runs in the browser: one file's upload, the     *)
(* queue of the files, the rate limit in front of the server, a library    *)
(* view and its places; and of the server's side of uploads, one request   *)
(* at a time.  A behaviour is one part's; the others stand still.          *)
(***************************************************************************)
EXTENDS UploadTask, Integers, Sequences, FiniteSets

CONSTANTS a, b, c, None,
          Files, FileConcurrency,                       \* the queue
          Clients, Limit, Window, MaxBroken,            \* the rate limit
          Docs, Deletable, PerPage, Orders, Layouts,    \* the view, and where the pointer may be
          Xs, Ys,
          Most, Widths, Lefts, Tops,                    \* the places of so many documents, in a list and in grids
          video, Ids, Users, Stored, Size, Multipart,   \* the server's side of uploads
          Genuine, PartCount, Plan, MaxReceives,
          Procs, Workers

\* Limits are natural numbers, there are finitely many files, and what is not a document is told from one.
ASSUME QueueAssumption == IsFiniteSet(Files) /\ FileConcurrency \in Nat
ASSUME LimitAssumption == Limit \in Nat /\ Window \in Nat \ {0} /\ MaxBroken \in Nat /\ None \notin Nat
ASSUME ViewAssumption == /\ Orders \subseteq Seq(Docs) /\ PerPage \in Nat /\ Xs \cup Ys \subseteq Int
                         /\ Layouts \subseteq [mode : {"grid", "list"}, width : Nat]
                         /\ None \notin Docs /\ Deletable \subseteq Docs
ASSUME PlanAssumption == Size \in [Stored -> Nat \ {0}] /\ Plan \in Nat /\ MaxReceives \in Nat
ASSUME PlaceAssumption == Most \in Nat /\ Widths # {} /\ Widths \subseteq Nat /\ Lefts \cup Tops \subseteq Int

VARIABLES part,
          file, known, shown, waiting,
          key, client, broken,
          order, layout, sel, box, menu, drag, asked, sent,
          uploads, session, parts, object, assets, used, req, queued, receives, dead, job

queueVars == <<file, known, shown, waiting>>
limitVars == <<key, client, broken>>
viewVars == <<order, layout, sel, box, menu, drag, asked, sent>>
uploadVars == <<uploads, session, parts, object, assets, used, req, queued, receives, dead, job>>
allVars == <<part, vars, queueVars, limitVars, viewVars, uploadVars>>

Q == INSTANCE UploadQueue WITH task <- file
R == INSTANCE RateLimit
V == INSTANCE LibraryView
U == INSTANCE Uploads WITH Files <- Stored, Limit <- Plan, queue <- queued

\* One file is twice as big as the others.
MCSize == [f \in Stored |-> IF f = video THEN 2 ELSE 1]

\* What the view may list, in a grid of two columns.
MCOrders == {<<a, b, c>>, <<c, a>>, <<b>>}
MCLayouts == {[mode |-> "grid", width |-> 380]}

MCLefts == {-10, 0, 100, 185, 190, 200, 390, 600}
MCTops == {-10, 0, 47, 48, 95, 195, 205, 215, 430}

\* The places: up to Most documents, of which it does not matter which they are.
Lists == {[i \in 1..n |-> i] : n \in 0..Most}
Shapes == [mode : {"grid", "list"}, width : Widths]
P == INSTANCE LibraryView WITH Docs <- 1..Most, Deletable <- {}, Orders <- Lists, Layouts <- Shapes, Xs <- Lefts, Ys <- Tops

\* A view that nobody looks at.
Still == order = <<>> /\ layout = [mode |-> "list", width |-> CHOOSE w \in Widths : TRUE]

MCInit ==
  /\ part \in {"task", "queue", "limit", "view", "places", "uploads"}
  /\ Init /\ Q!Init /\ R!Init /\ U!Init
  /\ IF part = "view" THEN V!Init ELSE P!Init /\ sel = P!Nobody /\ (part # "places" => Still)

MCNext ==
  /\ UNCHANGED part
  /\ \/ part = "task" /\ Next /\ UNCHANGED <<queueVars, limitVars, viewVars, uploadVars>>
     \/ part = "queue" /\ Q!Next /\ UNCHANGED <<vars, limitVars, viewVars, uploadVars>>
     \/ part = "limit" /\ R!Next /\ UNCHANGED <<vars, queueVars, viewVars, uploadVars>>
     \/ part = "view" /\ V!Next /\ UNCHANGED <<vars, queueVars, limitVars, uploadVars>>
     \/ /\ part = "places"
        /\ (\E o \in Lists : P!ViewChanges(o)) \/ (\E l \in Shapes : P!Measure(l))
        /\ UNCHANGED <<vars, queueVars, limitVars, uploadVars>>
     \/ part = "uploads" /\ U!Next /\ UNCHANGED <<vars, queueVars, limitVars, viewVars>>

\* A part that stands still has nothing enabled that its fairness asks for, but for the limit's hits.
MCSpec == /\ MCInit /\ [][MCNext]_allVars
          /\ Fairness /\ Q!Fairness /\ U!Fairness
          /\ part = "limit" => R!Fairness

\* Every variable of every part holds a value of its kind.
TypesOK == /\ TypeOK /\ Q!TypeOK /\ R!TypeOK /\ U!TypeOK
           /\ IF part = "view" THEN V!TypeOK ELSE P!TypeOK

\* Nobody is locked out for good by a rate limit (rate-limit.ts UpstashStore).
GetsThrough == part = "limit" => R!GetsThrough

\* Every upload that is begun comes to an end, however often it is retried, and every file that waits
\* gets its turn (engine.ts run, store.ts pump).
UploadsSettle == Settles /\ Q!EveryFileGetsItsTurn

\* A file in use has its bytes (uploads.ts complete and abort, verification.ts verify).
ReadyHasObject == U!ReadyHasObject

\* A queued job is carried out, or ends up in the dead-letter queue (sqs.ts).
JobSettles == U!JobSettles

\* An action is begun on what is drawn as selected, or on one document that is not, whatever left the
\* view or joined it meanwhile, and the selection box and the keys find the documents where they are
\* drawn (selection.ts, library-view.tsx, layout.ts).
ActsOnWhatIsShown == V!ActsOnWhatIsShown /\ [](part = "places" => P!AgreeOnPlaces)
=============================================================================
