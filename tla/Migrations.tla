------------------------------ MODULE Migrations ------------------------------
(***************************************************************************)
(* The migrations of the database (packages/db/src/migrations): a run      *)
(* reads which are recorded, and applies and records the others in order.  *)
(* Runs may overlap, crash in the middle and be repeated, and the web app  *)
(* of the old version writes documents meanwhile.                          *)
(***************************************************************************)
EXTENDS Naturals, Sequences, FiniteSets

CONSTANTS Runs,      \* processes that run the migrations
          Docs,
          MaxStarts, \* runs that are started, in the model
          None

VARIABLES log,        \* the recorded migrations
          validator,  \* the migration whose validator each collection has, 0 for none
          index,      \* the indexes there are
          doc,        \* the backfilled fields of each document, None if there is no document
          app,        \* the migration up to which the running web app knows the schema
          run,        \* where each process is
          slipped,    \* documents the old app inserted between a backfill and its validator
          spoiled,    \* a process died beside another, or with migrations to go that another recorded
          starts

vars == <<log, validator, index, doc, app, run, slipped, spoiled, starts>>

Migrations == 1..5
Collections == {"documents", "assets", "uploads", "templates"}
Filled == {4, 5}   \* migrations that give every document new fields

Validate(c) == [do |-> "validate", on |-> c]
Index(i) == [do |-> "index", on |-> i]
Drop(i) == [do |-> "drop", on |-> i]
Fill == [do |-> "fill", on |-> "documents"]

-----------------------------------------------------------------------------
\* What each migration does, in order; collections and indexes that nothing touches again are
\* represented by one of them.

AuthIndexes == <<Index("email_unique")>>
CoreCollections == <<Validate("documents"), Index("trash_updated"), Validate("assets"), Index("sha256")>>
Uploads == <<Validate("assets"), Drop("sha256"), Index("sha256_live"), Validate("uploads")>>
Library == <<Fill, Validate("documents"), Drop("trash_updated"), Index("library")>>
NewDocuments == <<Fill, Validate("documents"), Index("sources"), Validate("templates")>>

Steps == <<AuthIndexes, CoreCollections, Uploads, Library, NewDocuments>>

Does(m, step) == \E i \in DOMAIN Steps[m] : Steps[m][i] = step
Versions(c, S) == {0} \cup {m \in S : Does(m, Validate(c))}
Newest(S) == CHOOSE m \in S : \A n \in S : n <= m

\* The schema of a database where exactly the migrations of S ran.
ValidatorsOf(S) == [c \in Collections |-> Newest(Versions(c, S))]
IndexesOf(S) == {i \in {"email_unique", "trash_updated", "sha256", "sha256_live", "library", "sources"} :
                   /\ \E m \in S : Does(m, Index(i))
                   /\ \A m \in S : ~Does(m, Drop(i))}

\* The fields a document must have under a validator, and those an app that knows so much writes.
Upto(v) == {m \in Filled : m <= v}

NotRunning == [at |-> "idle", applied |-> {}, m |-> 1, s |-> 1]
Idle == \A r \in Runs : run[r] = NotRunning

\* A database of any earlier version, with the app of that version.
Init ==
  /\ app \in 0..5
  /\ log = 1..app
  /\ validator = ValidatorsOf(log)
  /\ index = IndexesOf(log)
  /\ doc \in [Docs -> {None} \cup (IF app >= 2 THEN {Upto(app)} ELSE {})]
  /\ run = [r \in Runs |-> NotRunning]
  /\ slipped = {} /\ spoiled = FALSE
  /\ starts = 0

-----------------------------------------------------------------------------
\* A run.

Start(r) ==
  /\ run[r] = NotRunning
  /\ starts < MaxStarts /\ starts' = starts + 1
  /\ run' = [run EXCEPT ![r] = [at |-> "run", applied |-> log, m |-> 1, s |-> 1]]
  /\ UNCHANGED <<log, validator, index, doc, app, slipped, spoiled>>

NextMigration(r) == [run[r] EXCEPT !.m = @ + 1, !.s = 1]
Working(r) == run[r].at = "run" /\ run[r].m \in Migrations

Skip(r) ==
  /\ Working(r) /\ run[r].m \in run[r].applied
  /\ run' = [run EXCEPT ![r] = NextMigration(r)]
  /\ UNCHANGED <<log, validator, index, doc, app, slipped, spoiled, starts>>

\* (Mutant: the last write of a migration is not awaited.)
UpDoneEarly(r) == run[r].s >= Len(Steps[run[r].m])
UpDone(r) == run[r].s > Len(Steps[run[r].m])

\* One write of a migration: ensureCollection (the validator of a new or an existing collection),
\* createIndexes, dropIndexIfExists, or a backfill of the documents that lack the fields.
Up(r) ==
  /\ Working(r) /\ run[r].m \notin run[r].applied /\ ~UpDone(r)
  /\ LET m == run[r].m  step == Steps[m][run[r].s] IN
       /\ validator' = IF step.do = "validate" THEN [validator EXCEPT ![step.on] = m] ELSE validator
       /\ index' = CASE step.do = "index" -> index \cup {step.on}
                     [] step.do = "drop" -> index \ {step.on}
                     [] OTHER -> index
       /\ doc' = IF step.do # "fill" THEN doc
                 ELSE [d \in Docs |-> IF doc[d] = None THEN None ELSE doc[d] \cup {m}]
  /\ run' = [run EXCEPT ![r].s = @ + 1]
  /\ UNCHANGED <<log, app, slipped, spoiled, starts>>

Record(r) ==
  /\ Working(r) /\ run[r].m \notin run[r].applied /\ UpDone(r)
  /\ log' = log \cup {run[r].m}
  /\ run' = [run EXCEPT ![r] = NextMigration(r)]
  /\ UNCHANGED <<validator, index, doc, app, slipped, spoiled, starts>>

Finish(r) ==
  /\ run[r].at = "run" /\ run[r].m \notin Migrations
  /\ run' = [run EXCEPT ![r] = NotRunning]
  /\ UNCHANGED <<log, validator, index, doc, app, slipped, spoiled, starts>>

\* The process dies, or a write fails and the run ends.
Overlaps(r) == \/ \E q \in Runs \ {r} : run[q] # NotRunning
               \/ \E m \in log : m >= run[r].m /\ m \notin run[r].applied
Die(r) ==
  /\ run[r] # NotRunning
  /\ spoiled' = (spoiled \/ Overlaps(r))
  /\ run' = [run EXCEPT ![r] = NotRunning]
  /\ UNCHANGED <<log, validator, index, doc, app, slipped, starts>>

-----------------------------------------------------------------------------
\* The web app inserts a document; the new version is deployed when everything is recorded.

InWindow(r, m) == /\ Working(r) /\ run[r].m = m /\ m \notin run[r].applied
                  /\ \E i, j \in DOMAIN Steps[m] : /\ Steps[m][i] = Fill /\ Steps[m][j] = Validate("documents")
                                                   /\ i < run[r].s /\ run[r].s <= j

Insert(d) ==
  /\ app >= 2 /\ doc[d] = None
  /\ Upto(validator["documents"]) \subseteq Upto(app)
  /\ doc' = [doc EXCEPT ![d] = Upto(app)]
  /\ slipped' = IF \E r \in Runs, m \in Filled \ Upto(app) : InWindow(r, m) THEN slipped \cup {d} ELSE slipped
  /\ UNCHANGED <<log, validator, index, app, run, spoiled, starts>>

Deploy ==
  /\ log = Migrations /\ app # 5
  /\ app' = 5
  /\ UNCHANGED <<log, validator, index, doc, run, slipped, spoiled, starts>>

Next == \/ \E r \in Runs : Start(r) \/ Skip(r) \/ Up(r) \/ Record(r) \/ Finish(r) \/ Die(r)
        \/ (\E d \in Docs : Insert(d)) \/ Deploy

Spec == Init /\ [][Next]_vars

-----------------------------------------------------------------------------
\* Properties.

\* Every variable holds a value of its kind.
TypeOK ==
  /\ log \subseteq Migrations
  /\ validator \in [Collections -> 0..5]
  /\ doc \in [Docs -> (SUBSET Filled) \cup {None}]
  /\ app \in 0..5
  /\ \A r \in Runs : run[r].applied \subseteq Migrations /\ run[r].m \in 1..6 /\ run[r].s \in 1..5
  /\ slipped \subseteq Docs /\ spoiled \in BOOLEAN

\* Validators and indexes are those of the newest recorded migrations, and every document has their
\* fields but for those that were inserted between a backfill and its validator.
Done ==
  /\ \A c \in Collections : validator[c] >= Newest(Versions(c, log))
  /\ \A i \in IndexesOf(Migrations), m \in log : Does(m, Index(i)) => i \in index
  /\ \A i \in index, m \in log : ~Does(m, Drop(i))
  /\ \A d \in Docs \ slipped : doc[d] # None => Upto(Newest({0} \cup log)) \subseteq doc[d]

\* index.ts: "Safe to run repeatedly and from several processes": when no run is under way, what is
\* recorded is done.
RecordedIsDone == Idle => Done

\* What is true of it: runs may overlap, repeat an earlier migration after a later one was recorded, and
\* die alone; but one that dies beside another may leave what the other did undone.
DoneUnlessDied == (Idle /\ ~spoiled) => Done
=============================================================================
