------------------------------- MODULE Folders ------------------------------
(***************************************************************************)
(* The folders of a workspace and the documents in them: creating, moving  *)
(* and trashing folders (packages/db folders.ts), putting documents into   *)
(* them (documents.ts, creation.ts, insert.ts), and the daily purge of     *)
(* both (trash.ts).                                                        *)
(*                                                                         *)
(* A move walks up the tree, and trashing walks down, with one query per   *)
(* level and outside any transaction, while other requests change the      *)
(* tree.  What trashing found is written in a transaction, which reads a   *)
(* snapshot and is run again when a record it writes was written by        *)
(* somebody else since: `stale` holds those of each request.               *)
(***************************************************************************)
EXTENDS FiniteSets

CONSTANTS Folders,   \* folder ids
          Docs,      \* document ids
          Procs,     \* requests and purge jobs running at once
          Movers,    \* those of them that may be moves of folders
          None       \* no folder: the top level of the workspace

VARIABLES folder,   \* folder records
          doc,      \* document records
          req,      \* what each request is doing
          stale     \* records others wrote since the snapshot of each request's transaction

vars == <<folder, doc, req, stale>>

\* `what` moves `to` a folder; a walk up is at `cursor`; one down has found `ids`, the last at `level`;
\* `along` are the documents that are trashed with them.
Idle == [at |-> "idle", what |-> None, to |-> None, cursor |-> None, ids |-> {}, level |-> {}, along |-> {}]

-----------------------------------------------------------------------------
\* Helpers.

Created(f) == folder[f].status # "none"
Present(f) == folder[f].status \in {"live", "trashed", "expired"}
LiveFolder(f) == folder[f].status = "live"
Here(d) == doc[d].status \in {"live", "trashed", "expired"}

\* A place something may be put: the top level or a live folder (liveFolder, checkFolder).
Place(t) == t = None \/ (t \in Folders /\ LiveFolder(t))

\* Where a document goes that is restored or copied: its folder, or the top level if that is gone.
HomeOf(d) == IF doc[d].folder # None /\ LiveFolder(doc[d].folder) THEN doc[d].folder ELSE None

\* (Mutant: only the target itself is compared, not the folders above it.)
TargetOnly(p) == req[p].to = req[p].what /\ req[p].cursor # None

\* The walk up from the target has come to the folder that moves.
Reached(p) == req[p].cursor = req[p].what

\* The documents that are trashed with the folders a request found.
DocsBelow(p) == {d \in Docs : doc[d].status = "live" /\ doc[d].folder \in req[p].ids}

\* The records that the transaction of p writes.
Written(p) == req[p].ids \cup req[p].along

\* A write of the records W makes them stale for every transaction that writes them, since its snapshot.
Marked(q, W) == IF req[q].at = "commit" THEN stale[q] \cup (W \cap Written(q)) ELSE stale[q]
Wrote(W) == stale' = [q \in Procs |-> Marked(q, W)]

\* (Mutant: the documents found in the snapshot are written without a transaction.)
NeverStale(p) == TRUE

\* Nobody wrote them since.
Unchanged(p) == Written(p) \cap stale[p] = {}

\* updateOne by id: a document that is gone is not found.
Moved(d, t) == IF Here(d) THEN [doc EXCEPT ![d].folder = t] ELSE doc

\* A request that only reads.
Begin(p, r) == req[p] = Idle /\ req' = [req EXCEPT ![p] = r] /\ stale' = stale
Goes(p, r) == req' = [req EXCEPT ![p] = r] /\ stale' = stale
Finish(p) == req' = [req EXCEPT ![p] = Idle]

Init ==
  /\ folder = [f \in Folders |-> [status |-> "none", parent |-> None]]
  /\ doc = [d \in Docs |-> [status |-> "none", folder |-> None]]
  /\ req = [p \in Procs |-> Idle]
  /\ stale = [p \in Procs |-> {}]

-----------------------------------------------------------------------------
\* Creating a folder: its parent is checked, then the record is inserted.

CreateCheck(p, t) ==
  /\ Place(t)
  /\ Begin(p, [Idle EXCEPT !.at = "create", !.to = t])
  /\ UNCHANGED <<folder, doc>>

CreateInsert(p, f) ==
  /\ req[p].at = "create"
  /\ folder[f].status = "none"
  /\ folder' = [folder EXCEPT ![f] = [status |-> "live", parent |-> req[p].to]]
  /\ Finish(p) /\ Wrote({f})
  /\ UNCHANGED doc

-----------------------------------------------------------------------------
\* Moving a folder.

\* Both folders are live; the walk starts at the target (there is none to the top level).
MoveCheck(p, f, t) ==
  /\ LiveFolder(f) /\ Place(t)
  /\ Begin(p, [Idle EXCEPT !.at = "walk", !.what = f, !.to = t, !.cursor = t])
  /\ UNCHANGED <<folder, doc>>

\* One level up, through trashed folders too; a folder whose record is gone ends the walk.
MoveUp(p) ==
  /\ req[p].at = "walk"
  /\ req[p].cursor # None /\ ~Reached(p)
  /\ Goes(p, [req[p] EXCEPT !.cursor = IF Present(@) THEN folder[@].parent ELSE None])
  /\ UNCHANGED <<folder, doc>>

\* folder_cycle, or a refused sibling (keyBefore).
MoveRefuse(p) ==
  /\ req[p].at = "walk"
  /\ req[p].cursor = None \/ Reached(p)
  /\ Finish(p)
  /\ UNCHANGED <<folder, doc, stale>>

\* The update is by id alone.
MoveWrite(p) ==
  /\ req[p].at = "walk"
  /\ req[p].cursor = None
  /\ folder' = IF Present(req[p].what) THEN [folder EXCEPT ![req[p].what].parent = req[p].to]
               ELSE folder
  /\ Finish(p) /\ Wrote({req[p].what})
  /\ UNCHANGED doc

-----------------------------------------------------------------------------
\* Trashing a folder: its subtree is read level by level, then a transaction writes what was found.

TrashCheck(p, f) ==
  /\ LiveFolder(f)
  /\ Begin(p, [Idle EXCEPT !.at = "gather", !.what = f, !.ids = {f}, !.level = {f}])
  /\ UNCHANGED <<folder, doc>>

Gather(p) ==
  LET children == {g \in Folders : LiveFolder(g) /\ folder[g].parent \in req[p].level} IN
  /\ req[p].at = "gather"
  /\ req[p].level # {}
  /\ Goes(p, [req[p] EXCEPT !.level = children, !.ids = @ \cup children])
  /\ UNCHANGED <<folder, doc>>

\* The snapshot: the folders by id, and the documents by their folder and deletedAt.
TrashSnapshot(p) ==
  /\ req[p].at = "gather"
  /\ req[p].level = {}
  /\ Goes(p, [req[p] EXCEPT !.at = "commit", !.along = DocsBelow(p)])
  /\ UNCHANGED <<folder, doc>>

\* A record it writes is newer than the snapshot: the driver runs the transaction again.
TrashConflict(p) ==
  /\ req[p].at = "commit" /\ ~Unchanged(p)
  /\ req' = [req EXCEPT ![p].at = "gather", ![p].along = {}]
  /\ stale' = [stale EXCEPT ![p] = {}]
  /\ UNCHANGED <<folder, doc>>

\* A document inserted or moved in since the snapshot stays as it is.
TrashCommit(p) ==
  /\ req[p].at = "commit" /\ Unchanged(p)
  /\ folder' = [f \in Folders |-> IF f \in req[p].ids /\ Present(f)
                                  THEN [folder[f] EXCEPT !.status = "trashed"] ELSE folder[f]]
  /\ doc' = [d \in Docs |-> IF d \in req[p].along THEN [doc[d] EXCEPT !.status = "trashed"] ELSE doc[d]]
  /\ Finish(p)
  /\ stale' = [q \in Procs |-> IF q = p THEN {} ELSE Marked(q, Written(p))]

-----------------------------------------------------------------------------
\* Documents: the folder is checked, then the document is written.

\* creation.create and documents.create.
NewDocCheck(p, t) ==
  /\ Place(t)
  /\ Begin(p, [Idle EXCEPT !.at = "insert", !.to = t])
  /\ UNCHANGED <<folder, doc>>

DuplicateCheck(p, d) ==
  /\ doc[d].status = "live"
  /\ Begin(p, [Idle EXCEPT !.at = "insert", !.to = HomeOf(d)])
  /\ UNCHANGED <<folder, doc>>

DocInsert(p, d) ==
  /\ req[p].at = "insert"
  /\ doc[d].status = "none"
  /\ doc' = [doc EXCEPT ![d] = [status |-> "live", folder |-> req[p].to]]
  /\ Finish(p) /\ Wrote({d})
  /\ UNCHANGED folder

DocMoveCheck(p, d, t) ==
  /\ doc[d].status = "live" /\ Place(t)
  /\ Begin(p, [Idle EXCEPT !.at = "place", !.what = d, !.to = t])
  /\ UNCHANGED <<folder, doc>>

DocMoveWrite(p) ==
  /\ req[p].at = "place"
  /\ doc' = Moved(req[p].what, req[p].to)
  /\ Finish(p) /\ Wrote({req[p].what})
  /\ UNCHANGED folder

RestoreCheck(p, d) ==
  /\ doc[d].status \in {"trashed", "expired"}
  /\ Begin(p, [Idle EXCEPT !.at = "restore", !.what = d, !.to = HomeOf(d)])
  /\ UNCHANGED <<folder, doc>>

RestoreWrite(p) ==
  /\ req[p].at = "restore"
  /\ doc' = IF Here(req[p].what)
            THEN [doc EXCEPT ![req[p].what] = [status |-> "live", folder |-> req[p].to]] ELSE doc
  /\ Finish(p) /\ Wrote({req[p].what})
  /\ UNCHANGED folder

\* documents.trash, and "Delete forever" (Trash has their steps).
TrashDoc(d) ==
  /\ doc[d].status = "live"
  /\ doc' = [doc EXCEPT ![d].status = "trashed"]
  /\ Wrote({d})
  /\ UNCHANGED <<folder, req>>

PurgeDoc(d) ==
  /\ doc[d].status \in {"trashed", "expired"}
  /\ doc' = [doc EXCEPT ![d] = [status |-> "gone", folder |-> None]]
  /\ Wrote({d})
  /\ UNCHANGED <<folder, req>>

-----------------------------------------------------------------------------
\* The daily purge: documents past their retention first, then folders.

\* The retention period passes; no request takes that long.
RetentionPasses ==
  /\ \A p \in Procs : req[p] = Idle
  /\ folder' = [f \in Folders |-> IF folder[f].status = "trashed"
                                  THEN [folder[f] EXCEPT !.status = "expired"] ELSE folder[f]]
  /\ doc' = [d \in Docs |-> IF doc[d].status = "trashed"
                            THEN [doc[d] EXCEPT !.status = "expired"] ELSE doc[d]]
  /\ UNCHANGED <<req, stale>>

SweepDocs(p) ==
  LET expired == {d \in Docs : doc[d].status = "expired"} IN
  /\ req[p] = Idle
  /\ req' = [req EXCEPT ![p] = [Idle EXCEPT !.at = "sweep"]]
  /\ doc' = [d \in Docs |-> IF d \in expired THEN [status |-> "gone", folder |-> None] ELSE doc[d]]
  /\ Wrote(expired)
  /\ UNCHANGED folder

SweepFolders(p) ==
  LET expired == {f \in Folders : folder[f].status = "expired"} IN
  /\ req[p].at = "sweep"
  /\ folder' = [f \in Folders |-> IF f \in expired THEN [status |-> "gone", parent |-> None] ELSE folder[f]]
  /\ Finish(p) /\ Wrote(expired)
  /\ UNCHANGED doc

\* A request or job dies, or a query it makes fails.
Crash(p) ==
  /\ req[p] # Idle
  /\ Finish(p)
  /\ stale' = [stale EXCEPT ![p] = {}]
  /\ UNCHANGED <<folder, doc>>

-----------------------------------------------------------------------------
FolderStep(p) ==
  \/ \E t \in Folders \cup {None} : CreateCheck(p, t)
  \/ \E f \in Folders : CreateInsert(p, f) \/ TrashCheck(p, f)
  \/ Gather(p) \/ TrashSnapshot(p) \/ TrashConflict(p) \/ TrashCommit(p) \/ SweepDocs(p) \/ SweepFolders(p)
MoveBegins(p) == \E f \in Folders, t \in Folders \cup {None} : MoveCheck(p, f, t)
MoveStep(p) == MoveUp(p) \/ MoveRefuse(p) \/ MoveWrite(p)
DocStep(p) ==
  \/ \E t \in Folders \cup {None} : NewDocCheck(p, t) \/ \E d \in Docs : DocMoveCheck(p, d, t)
  \/ \E d \in Docs : DuplicateCheck(p, d) \/ DocInsert(p, d) \/ RestoreCheck(p, d)
  \/ DocMoveWrite(p) \/ RestoreWrite(p)

Next ==
  \/ \E p \in Procs : FolderStep(p) \/ DocStep(p) \/ MoveStep(p) \/ Crash(p)
  \/ \E p \in Movers : MoveBegins(p)
  \/ \E d \in Docs : TrashDoc(d) \/ PurgeDoc(d)
  \/ RetentionPasses

Spec == Init /\ [][Next]_vars

-----------------------------------------------------------------------------
\* Properties.

Status == {"none", "live", "trashed", "expired", "gone"}
Places == Folders \cup {None}
Requests == [at : {"idle", "create", "walk", "gather", "commit", "insert", "place", "restore", "sweep"},
             what : Folders \cup Docs \cup {None}, to : Places, cursor : Places,
             ids : SUBSET Folders, level : SUBSET Folders, along : SUBSET Docs]

\* What a request remembers was there when it was read; only moves walk.
RequestOK(p) ==
  /\ req[p].to # None => Created(req[p].to)
  /\ req[p].cursor # None => Created(req[p].cursor)
  /\ \A f \in req[p].ids : Created(f)
  /\ req[p].at = "walk" => p \in Movers /\ req[p].what \in Folders
  /\ req[p].at \in {"place", "restore"} => req[p].what \in Docs

\* Records have their types, their folder was created, and what is gone is nowhere.
TreeOK ==
  /\ folder \in [Folders -> [status : Status, parent : Places]]
  /\ doc \in [Docs -> [status : Status, folder : Places]]
  /\ req \in [Procs -> Requests]
  /\ \A f \in Folders : folder[f].parent # None => Present(f) /\ Created(folder[f].parent)
  /\ \A d \in Docs : doc[d].folder # None => Here(d) /\ Created(doc[d].folder)
  /\ \A p \in Procs : RequestOK(p)

\* Only a transaction has records that were written since its snapshot.
StaleOK ==
  /\ stale \in [Procs -> SUBSET (Folders \cup Docs)]
  /\ \A p \in Procs : req[p].at # "commit" => stale[p] = {}

TypeOK == TreeOK /\ StaleOK

\* folders.ts: a move "refuses cycles": the folders are a forest, so every set of them has one whose
\* parent is outside it.  True while at most one request moves folders, whatever the others do.
NoCycle == \A S \in SUBSET Folders : S # {} => \E f \in S : folder[f].parent \notin S

\* folders.ts: a document goes to the trash with folders only when its own folder is one of them: one
\* that was moved out while the folder was being trashed stays, and so does one restored elsewhere.
OnlyInsideGoesAlong ==
  [][folder' # folder =>
       \A d \in Docs : doc[d].status = "live" /\ doc'[d].status = "trashed" =>
         doc[d].folder # None /\ folder'[doc[d].folder].status = "trashed"]_vars
=============================================================================
