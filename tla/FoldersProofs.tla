---------------------------- MODULE FoldersProofs ---------------------------
(***************************************************************************)
(* Theorems about Folders, for any number of folders, documents and        *)
(* requests: the type invariant; the folders are a forest while at most    *)
(* one request moves them; a document is trashed along only with its own   *)
(* folder.                                                                 *)
(***************************************************************************)
EXTENDS MCRaces, TLAPS

USE NoneAssumption, MoversAssumption

-----------------------------------------------------------------------------
\* The folders of MCRaces behave as those of Folders.

LEMMA FoldersStart == MCInit => F!Init
BY DEF MCInit

LEMMA FoldersSteps == [MCNext]_allVars => [F!Next]_F!vars
BY DEF MCNext, allVars, folderVars, F!vars

-----------------------------------------------------------------------------
\* The type invariant.

\* TreeOK in three parts: folders, documents, requests.
FoldersOK ==
  /\ folder \in [Folders -> [status : F!Status, parent : F!Places]]
  /\ \A f \in Folders : folder[f].parent # None => F!Present(f) /\ F!Created(folder[f].parent)
DocsOK ==
  /\ doc \in [Placed -> [status : F!Status, folder : F!Places]]
  /\ \A d \in Placed : doc[d].folder # None => F!Here(d) /\ F!Created(doc[d].folder)
RequestsOK == change \in [Handlers -> F!Requests] /\ \A p \in Handlers : F!RequestOK(p)

LEMMA TypeParts == F!TreeOK <=> FoldersOK /\ DocsOK /\ RequestsOK
BY DEF F!TreeOK, FoldersOK, DocsOK, RequestsOK

LEMMA IdleTyped == F!Idle \in F!Requests
BY DEF F!Idle, F!Requests, F!Places

\* Once created, a folder's record stays or is gone: it never becomes one that was not created.
StillCreated == \A f \in Folders : F!Created(f) => F!Created(f)'

\* A request that begins, and remembers only what is there.
LEMMA RequestsBegin ==
  ASSUME RequestsOK, NEW p \in Handlers, NEW r \in F!Requests, change' = [change EXCEPT ![p] = r],
         StillCreated,
         /\ r.to # None => F!Created(r.to)
         /\ r.cursor # None => F!Created(r.cursor)
         /\ \A f \in r.ids : F!Created(f)
         /\ r.at = "walk" => p \in Movers /\ r.what \in Folders
         /\ r.at \in {"place", "restore"} => r.what \in Placed
  PROVE  RequestsOK'
<1>1. change' \in [Handlers -> F!Requests]
  BY DEF RequestsOK
<1>2. ASSUME NEW q \in Handlers  PROVE F!RequestOK(q)'
  <2>1. CASE q = p
    <3>1. change'[q] = r
      BY <2>1 DEF RequestsOK
    <3>2. r.to \in F!Places /\ r.cursor \in F!Places /\ r.ids \subseteq Folders
      BY DEF F!Requests
    <3>3. QED BY <2>1, <3>1, <3>2 DEF F!RequestOK, StillCreated, F!Places
  <2>2. CASE q # p
    <3>1. change'[q] = change[q] /\ F!RequestOK(q)
      BY <2>2 DEF RequestsOK
    <3>2. change[q].to \in F!Places /\ change[q].cursor \in F!Places /\ change[q].ids \subseteq Folders
      BY DEF RequestsOK, F!Requests
    <3>3. QED BY <3>1, <3>2 DEF F!RequestOK, StillCreated, F!Places
  <2>3. QED BY <2>1, <2>2
<1>3. QED BY <1>1, <1>2 DEF RequestsOK

\* A request that is over.
LEMMA RequestsFinish ==
  ASSUME RequestsOK, NEW p \in Handlers, F!Finish(p), StillCreated
  PROVE  RequestsOK'
<1>1. F!Idle.to = None /\ F!Idle.cursor = None /\ F!Idle.ids = {} /\ F!Idle.at = "idle"
  BY DEF F!Idle
<1>2. QED BY <1>1, IdleTyped, RequestsBegin DEF F!Finish

\* Documents whose folders were created before stay typed when folders change.
LEMMA DocsStay ==
  ASSUME DocsOK, StillCreated, UNCHANGED doc
  PROVE  DocsOK'
BY DEF DocsOK, StillCreated, F!Here, F!Places

\* Folders that do not change.
LEMMA FoldersStay ==
  ASSUME FoldersOK, UNCHANGED folder
  PROVE  FoldersOK' /\ StillCreated
BY DEF FoldersOK, StillCreated, F!Created, F!Present

\* A step that only reads, and remembers r.
LEMMA ReadStep ==
  ASSUME F!TreeOK, NEW p \in Handlers, NEW r \in F!Requests, change' = [change EXCEPT ![p] = r],
         UNCHANGED <<folder, doc>>,
         /\ r.to # None => F!Created(r.to)
         /\ r.cursor # None => F!Created(r.cursor)
         /\ \A f \in r.ids : F!Created(f)
         /\ r.at = "walk" => p \in Movers /\ r.what \in Folders
         /\ r.at \in {"place", "restore"} => r.what \in Placed
  PROVE  F!TreeOK'
<1>1. FoldersOK' /\ StillCreated
  BY FoldersStay, TypeParts
<1>2. DocsOK'
  BY <1>1, DocsStay, TypeParts
<1>3. RequestsOK'
  BY <1>1, RequestsBegin, TypeParts
<1>4. F!TreeOK' <=> FoldersOK' /\ DocsOK' /\ RequestsOK'
  BY DEF F!TreeOK, FoldersOK, DocsOK, RequestsOK
<1>5. QED BY <1>1, <1>2, <1>3, <1>4

\* A step that writes documents and ends its request or belongs to none.
LEMMA DocWrite ==
  ASSUME F!TreeOK, UNCHANGED folder, DocsOK',
         UNCHANGED change \/ \E p \in Handlers : F!Finish(p)
  PROVE  F!TreeOK'
<1>1. FoldersOK' /\ StillCreated
  BY FoldersStay, TypeParts
<1>2. RequestsOK'
  <2>1. CASE UNCHANGED change
    BY <1>1, <2>1, TypeParts DEF RequestsOK, F!RequestOK, StillCreated, F!Requests, F!Places
  <2>2. CASE \E p \in Handlers : F!Finish(p)
    BY <1>1, <2>2, RequestsFinish, TypeParts
  <2>3. QED BY <2>1, <2>2
<1>3. QED BY <1>1, <1>2 DEF F!TreeOK, FoldersOK, DocsOK, RequestsOK

-----------------------------------------------------------------------------
\* Each kind of step.

LEMMA TypeFolderChecks ==
  ASSUME F!TreeOK, NEW p \in Handlers, NEW f, NEW t \in F!Places,
         \/ F!CreateCheck(p, t)
         \/ f \in Folders /\ F!TrashCheck(p, f)
         \/ f \in Folders /\ p \in Movers /\ F!MoveCheck(p, f, t)
  PROVE  F!TreeOK'
<1>1. F!Place(t) /\ t # None => F!Created(t)
  BY DEF F!Place, F!LiveFolder, F!Created
<1>2. F!LiveFolder(f) => F!Created(f)
  BY DEF F!LiveFolder, F!Created
<1>3. CASE F!CreateCheck(p, t)
  <2> DEFINE r == [F!Idle EXCEPT !.at = "create", !.to = t]
  <2>1. /\ r \in F!Requests /\ r.at = "create" /\ r.to = t /\ r.cursor = None /\ r.ids = {}
        /\ change' = [change EXCEPT ![p] = r]
    BY <1>3 DEF F!CreateCheck, F!Begin, F!Idle, F!Requests, F!Places
  <2> HIDE DEF r
  <2>2. QED BY <1>1, <1>3, <2>1, ReadStep DEF F!CreateCheck
<1>4. CASE f \in Folders /\ F!TrashCheck(p, f)
  <2> DEFINE r == [F!Idle EXCEPT !.at = "gather", !.what = f, !.ids = {f}, !.level = {f}]
  <2>1. /\ r \in F!Requests /\ r.at = "gather" /\ r.to = None /\ r.cursor = None /\ r.ids = {f}
        /\ change' = [change EXCEPT ![p] = r]
    BY <1>4 DEF F!TrashCheck, F!Begin, F!Idle, F!Requests, F!Places
  <2> HIDE DEF r
  <2>2. QED BY <1>2, <1>4, <2>1, ReadStep DEF F!TrashCheck
<1>5. CASE f \in Folders /\ p \in Movers /\ F!MoveCheck(p, f, t)
  <2> DEFINE r == [F!Idle EXCEPT !.at = "walk", !.what = f, !.to = t, !.cursor = t]
  <2>1. /\ r \in F!Requests /\ r.at = "walk" /\ r.what = f /\ r.to = t /\ r.cursor = t /\ r.ids = {}
        /\ change' = [change EXCEPT ![p] = r]
    BY <1>5 DEF F!MoveCheck, F!Begin, F!Idle, F!Requests, F!Places
  <2> HIDE DEF r
  <2>2. QED BY <1>1, <1>5, <2>1, ReadStep DEF F!MoveCheck
<1>6. QED BY <1>3, <1>4, <1>5

\* Walking up and down the tree.
LEMMA TypeWalks ==
  ASSUME F!TreeOK, NEW p \in Handlers, \/ F!MoveUp(p) \/ F!Gather(p) \/ F!MoveRefuse(p) \/ F!Crash(p)
         \/ F!TrashSnapshot(p) \/ F!TrashConflict(p)
  PROVE  F!TreeOK'
<1>0. change[p] \in F!Requests /\ F!RequestOK(p)
  BY DEF F!TreeOK
<1>1. CASE F!MoveUp(p)
  <2> DEFINE c == change[p].cursor
             r == [change[p] EXCEPT !.cursor = IF F!Present(c) THEN folder[c].parent ELSE None]
  <2>1. c \in Folders
    BY <1>0, <1>1 DEF F!MoveUp, F!Requests, F!Places
  <2>2. folder[c].parent \in F!Places /\ (folder[c].parent # None => F!Created(folder[c].parent))
    BY <2>1 DEF F!TreeOK
  <2>3. r \in F!Requests /\ change' = [change EXCEPT ![p] = r]
    BY <1>0, <1>1, <2>2 DEF F!MoveUp, F!Goes, F!Requests, F!Places, F!TreeOK
  <2>4. /\ r.at = change[p].at /\ r.what = change[p].what /\ r.to = change[p].to /\ r.ids = change[p].ids
        /\ r.cursor # None => F!Created(r.cursor)
    BY <1>0, <2>2 DEF F!Requests
  <2> HIDE DEF r
  <2>5. /\ r.to # None => F!Created(r.to)
        /\ \A f \in r.ids : F!Created(f)
        /\ r.at = "walk" => p \in Movers /\ r.what \in Folders
        /\ r.at \in {"place", "restore"} => r.what \in Placed
    BY <1>0, <2>4 DEF F!RequestOK
  <2>6. UNCHANGED <<folder, doc>>
    BY <1>1 DEF F!MoveUp
  <2>7. QED BY <2>3, <2>4, <2>5, <2>6, ReadStep
<1>2. CASE F!Gather(p)
  <2> DEFINE children == {g \in Folders : F!LiveFolder(g) /\ folder[g].parent \in change[p].level}
             r == [change[p] EXCEPT !.level = children, !.ids = @ \cup children]
  <2>1. children \subseteq Folders /\ \A g \in children : F!Created(g)
    BY DEF F!LiveFolder, F!Created
  <2> HIDE DEF children
  <2>2. r \in F!Requests
    BY <1>0, <2>1 DEF F!Requests
  <2>3. change' = [change EXCEPT ![p] = r]
    BY <1>2, <1>0 DEF F!Gather, F!Goes, children, F!Requests, F!TreeOK
  <2>4. /\ r.at = change[p].at /\ r.what = change[p].what /\ r.to = change[p].to
        /\ r.cursor = change[p].cursor
        /\ r.ids = change[p].ids \cup children
    BY <1>0 DEF F!Requests
  <2> HIDE DEF r
  <2>5. QED BY <1>0, <1>2, <2>1, <2>2, <2>3, <2>4, ReadStep DEF F!Gather, F!RequestOK
<1>3. CASE F!MoveRefuse(p) \/ F!Crash(p)
  <2>1. F!Finish(p) /\ UNCHANGED <<folder, doc>>
    BY <1>3 DEF F!MoveRefuse, F!Crash
  <2>2. F!Idle.to = None /\ F!Idle.cursor = None /\ F!Idle.ids = {} /\ F!Idle.at = "idle"
    BY DEF F!Idle
  <2>3. QED BY <2>1, <2>2, IdleTyped, ReadStep DEF F!Finish
<1>4. CASE F!TrashSnapshot(p) \/ F!TrashConflict(p)
  <2>1. PICK r \in F!Requests : /\ r.at \in {"gather", "commit"} /\ r.to = change[p].to
                                /\ r.cursor = change[p].cursor /\ r.ids = change[p].ids
                                /\ change' = [change EXCEPT ![p] = r]
    <3>1. CASE F!TrashSnapshot(p)
      <4>1. F!DocsBelow(p) \in SUBSET Placed
        BY DEF F!DocsBelow
      <4>2. change' = [change EXCEPT ![p] = [change[p] EXCEPT !.at = "commit", !.along = F!DocsBelow(p)]]
        BY <3>1 DEF F!TrashSnapshot, F!Goes
      <4> DEFINE r == [change[p] EXCEPT !.at = "commit", !.along = F!DocsBelow(p)]
      <4>3. r \in F!Requests
        BY <1>0, <4>1 DEF F!Requests
      <4>4. r.at = "commit" /\ r.to = change[p].to /\ r.cursor = change[p].cursor /\ r.ids = change[p].ids
        BY <1>0 DEF F!Requests
      <4> HIDE DEF r
      <4>5. QED BY <4>2, <4>3, <4>4 DEF r
    <3>2. CASE F!TrashConflict(p)
      <4> DEFINE r == [change[p] EXCEPT !.at = "gather", !.along = {}]
      <4>1. r \in F!Requests /\ change' = [change EXCEPT ![p] = r]
        BY <1>0, <3>2 DEF F!TrashConflict, F!Requests, F!TreeOK
      <4>2. r.at = "gather" /\ r.to = change[p].to /\ r.cursor = change[p].cursor /\ r.ids = change[p].ids
        BY <1>0 DEF F!Requests
      <4> HIDE DEF r
      <4>3. QED BY <4>1, <4>2
    <3>3. QED BY <1>4, <3>1, <3>2
  <2>2. UNCHANGED <<folder, doc>>
    BY <1>4 DEF F!TrashSnapshot, F!TrashConflict
  <2>3. QED BY <1>0, <2>1, <2>2, ReadStep DEF F!RequestOK
<1>5. QED BY <1>1, <1>2, <1>3, <1>4

\* Writes to the folders alone.
LEMMA TypeFolderWrites ==
  ASSUME F!TreeOK, NEW p \in Handlers, NEW f,
         (f \in Folders /\ F!CreateInsert(p, f)) \/ F!MoveWrite(p) \/ F!SweepFolders(p)
  PROVE  F!TreeOK'
<1>0. change[p] \in F!Requests /\ F!RequestOK(p) /\ FoldersOK /\ DocsOK /\ RequestsOK
  BY TypeParts DEF F!TreeOK
<1>1. FoldersOK' /\ StillCreated
  <2>1. CASE f \in Folders /\ F!CreateInsert(p, f)
    <3>1. change[p].to \in F!Places
      BY <1>0 DEF F!Requests
    <3>2. folder' = [folder EXCEPT ![f] = [status |-> "live", parent |-> change[p].to]]
      BY <2>1 DEF F!CreateInsert
    <3>3. folder' \in [Folders -> [status : F!Status, parent : F!Places]]
      BY <1>0, <3>1, <3>2 DEF FoldersOK, F!Status
    <3>4. StillCreated
      BY <1>0, <3>2 DEF StillCreated, F!Created, FoldersOK
    <3>5. ASSUME NEW g \in Folders, folder'[g].parent # None
          PROVE  F!Present(g)' /\ F!Created(folder[g].parent)'
      <4>1. CASE g = f
        <5>1. folder'[g].parent = change[p].to /\ folder'[g].status = "live"
          BY <1>0, <3>2, <4>1 DEF FoldersOK
        <5>2. QED BY <1>0, <3>1, <3>4, <3>5, <5>1 DEF F!RequestOK, StillCreated, F!Present, F!Places
      <4>2. CASE g # f
        BY <1>0, <3>2, <3>4, <3>5, <4>2 DEF FoldersOK, StillCreated, F!Present, F!Places
      <4>3. QED BY <4>1, <4>2
    <3>6. QED BY <3>3, <3>4, <3>5 DEF FoldersOK
  <2>2. CASE F!MoveWrite(p)
    <3> DEFINE w == change[p].what
    <3>1. w \in Folders /\ change[p].to \in F!Places
      BY <1>0, <2>2 DEF F!Requests, F!MoveWrite, F!RequestOK
    <3>2. folder' = IF F!Present(w) THEN [folder EXCEPT ![w].parent = change[p].to] ELSE folder
      BY <2>2 DEF F!MoveWrite
    <3>3. folder' \in [Folders -> [status : F!Status, parent : F!Places]]
      BY <1>0, <3>1, <3>2 DEF FoldersOK
    <3>4. \A g \in Folders : folder'[g].status = folder[g].status
      BY <1>0, <3>1, <3>2 DEF FoldersOK
    <3>5. StillCreated /\ \A g \in Folders : F!Present(g) => F!Present(g)'
      BY <3>4 DEF StillCreated, F!Created, F!Present
    <3>6. ASSUME NEW g \in Folders, folder'[g].parent # None
          PROVE  F!Present(g)' /\ F!Created(folder[g].parent)'
      <4>1. CASE g = w /\ F!Present(w)
        <5>1. folder'[g].parent = change[p].to
          BY <1>0, <3>1, <3>2, <4>1 DEF FoldersOK
        <5>2. QED BY <1>0, <3>1, <3>5, <3>6, <4>1, <5>1 DEF F!RequestOK, StillCreated, F!Places
      <4>2. CASE ~(g = w /\ F!Present(w))
        <5>1. folder'[g].parent = folder[g].parent
          BY <1>0, <3>1, <3>2, <4>2 DEF FoldersOK
        <5>2. QED BY <1>0, <3>5, <3>6, <5>1 DEF FoldersOK, StillCreated, F!Places
      <4>3. QED BY <4>1, <4>2
    <3>7. QED BY <3>3, <3>5, <3>6 DEF FoldersOK
  <2>3. CASE F!SweepFolders(p)
    <3>1. folder' = [g \in Folders |-> IF folder[g].status = "expired"
                                       THEN [status |-> "gone", parent |-> None] ELSE folder[g]]
      BY <2>3 DEF F!SweepFolders
    <3>2. folder' \in [Folders -> [status : F!Status, parent : F!Places]]
      BY <1>0, <3>1 DEF FoldersOK, F!Status, F!Places
    <3>3. StillCreated
      BY <3>1 DEF StillCreated, F!Created
    <3>4. QED BY <1>0, <3>1, <3>2, <3>3 DEF FoldersOK, StillCreated, F!Present, F!Places
  <2>4. QED BY <2>1, <2>2, <2>3
<1>2. F!Finish(p) /\ UNCHANGED doc
  BY DEF F!CreateInsert, F!MoveWrite, F!SweepFolders
<1>3. DocsOK'
  BY <1>0, <1>1, <1>2, DocsStay
<1>4. RequestsOK'
  BY <1>0, <1>1, <1>2, RequestsFinish
<1>5. QED BY <1>1, <1>3, <1>4 DEF F!TreeOK, FoldersOK, DocsOK, RequestsOK

\* A change of folders' statuses alone leaves the tree as it is.
LEMMA StatusWrite ==
  ASSUME F!TreeOK, folder' \in [Folders -> [status : F!Status, parent : F!Places]],
         \A f \in Folders : /\ folder'[f].parent = folder[f].parent
                            /\ F!Present(f) => F!Present(f)'
                            /\ F!Created(f) => F!Created(f)'
  PROVE  FoldersOK' /\ StillCreated
BY DEF F!TreeOK, FoldersOK, StillCreated, F!Places

\* A change of documents' statuses alone leaves them where they are.
LEMMA DocStatusWrite ==
  ASSUME F!TreeOK, StillCreated, doc' \in [Placed -> [status : F!Status, folder : F!Places]],
         \A d \in Placed : /\ doc'[d].folder # None => doc'[d].folder = doc[d].folder
                           /\ doc'[d].folder # None /\ F!Here(d) => F!Here(d)'
  PROVE  DocsOK'
BY DEF F!TreeOK, DocsOK, StillCreated, F!Places

\* Writes to folders and documents together.
LEMMA TypeTrash ==
  ASSUME F!TreeOK, (\E p \in Handlers : F!TrashCommit(p)) \/ F!RetentionPasses
  PROVE  F!TreeOK'
<1>1. FoldersOK' /\ StillCreated
  <2>1. CASE \E p \in Handlers : F!TrashCommit(p)
    <3>1. PICK p \in Handlers : F!TrashCommit(p)
      BY <2>1
    <3>2. folder' = [f \in Folders |-> IF f \in change[p].ids /\ F!Present(f)
                                       THEN [folder[f] EXCEPT !.status = "trashed"] ELSE folder[f]]
      BY <3>1 DEF F!TrashCommit
    <3>3. folder' \in [Folders -> [status : F!Status, parent : F!Places]]
      BY <3>2 DEF F!TreeOK, F!Status
    <3>4. ASSUME NEW f \in Folders
          PROVE  /\ folder'[f].parent = folder[f].parent
                 /\ F!Present(f) => F!Present(f)'
                 /\ F!Created(f) => F!Created(f)'
      BY <3>2 DEF F!TreeOK, F!Present, F!Created
    <3>5. QED BY <3>3, <3>4, StatusWrite
  <2>2. CASE F!RetentionPasses
    <3>1. folder' = [f \in Folders |-> IF folder[f].status = "trashed"
                                       THEN [folder[f] EXCEPT !.status = "expired"] ELSE folder[f]]
      BY <2>2 DEF F!RetentionPasses
    <3>2. folder' \in [Folders -> [status : F!Status, parent : F!Places]]
      BY <3>1 DEF F!TreeOK, F!Status
    <3>3. ASSUME NEW f \in Folders
          PROVE  /\ folder'[f].parent = folder[f].parent
                 /\ F!Present(f) => F!Present(f)'
                 /\ F!Created(f) => F!Created(f)'
      BY <3>1 DEF F!TreeOK, F!Present, F!Created
    <3>4. QED BY <3>2, <3>3, StatusWrite
  <2>3. QED BY <2>1, <2>2
<1>2. DocsOK'
  <2>1. CASE \E p \in Handlers : F!TrashCommit(p)
    <3>1. PICK p \in Handlers : F!TrashCommit(p)
      BY <2>1
    <3>2. doc' = [d \in Placed |-> IF d \in change[p].along
                                 THEN [doc[d] EXCEPT !.status = "trashed"] ELSE doc[d]]
      BY <3>1 DEF F!TrashCommit
    <3>3. doc' \in [Placed -> [status : F!Status, folder : F!Places]]
      BY <3>2 DEF F!TreeOK, F!Status
    <3>4. \A d \in Placed : doc'[d].folder = doc[d].folder /\ (F!Here(d) => F!Here(d)')
      BY <3>2 DEF F!TreeOK, F!Here
    <3>5. QED BY <1>1, <3>3, <3>4, DocStatusWrite
  <2>2. CASE F!RetentionPasses
    <3>1. doc' = [d \in Placed |-> IF doc[d].status = "trashed"
                                 THEN [doc[d] EXCEPT !.status = "expired"] ELSE doc[d]]
      BY <2>2 DEF F!RetentionPasses
    <3>2. doc' \in [Placed -> [status : F!Status, folder : F!Places]]
      BY <3>1 DEF F!TreeOK, F!Status
    <3>3. \A d \in Placed : doc'[d].folder = doc[d].folder /\ (F!Here(d) => F!Here(d)')
      BY <3>1 DEF F!TreeOK, F!Here
    <3>4. QED BY <1>1, <3>2, <3>3, DocStatusWrite
  <2>3. QED BY <2>1, <2>2
<1>3. RequestsOK'
  <2>1. CASE \E p \in Handlers : F!TrashCommit(p)
    BY <1>1, <2>1, RequestsFinish, TypeParts DEF F!TrashCommit
  <2>2. CASE F!RetentionPasses
    BY <1>1, <2>2, TypeParts DEF F!RetentionPasses, RequestsOK, F!RequestOK, StillCreated, F!Requests,
                                 F!Places
  <2>3. QED BY <2>1, <2>2
<1>4. QED BY <1>1, <1>2, <1>3 DEF F!TreeOK, FoldersOK, DocsOK, RequestsOK

\* What a document request checks first.
LEMMA TypeDocChecks ==
  ASSUME F!TreeOK, NEW p \in Handlers, NEW d, NEW t \in F!Places,
         \/ F!NewDocCheck(p, t)
         \/ d \in Placed /\ (F!DuplicateCheck(p, d) \/ F!DocMoveCheck(p, d, t) \/ F!RestoreCheck(p, d))
  PROVE  F!TreeOK'
<1>1. /\ F!Place(t) /\ t # None => F!Created(t)
      /\ d \in Placed => F!HomeOf(d) \in F!Places /\ (F!HomeOf(d) # None => F!Created(F!HomeOf(d)))
  BY DEF F!Place, F!HomeOf, F!LiveFolder, F!Created, F!TreeOK, F!Places
<1> DEFINE Inserts(u) == change' = [change EXCEPT ![p] = [F!Idle EXCEPT !.at = "insert", !.to = u]]
           Puts(u) == change' = [change EXCEPT ![p] = [F!Idle EXCEPT !.at = "place", !.what = d, !.to = u]]
           Restores(u) ==
             change' = [change EXCEPT ![p] = [F!Idle EXCEPT !.at = "restore", !.what = d, !.to = u]]
<1>2. PICK u \in F!Places : /\ u # None => F!Created(u)
                            /\ UNCHANGED <<folder, doc>>
                            /\ \/ Inserts(u)
                               \/ d \in Placed /\ (Puts(u) \/ Restores(u))
  <2>1. CASE F!NewDocCheck(p, t)
    BY <1>1, <2>1 DEF F!NewDocCheck, F!Begin
  <2>2. CASE d \in Placed /\ F!DuplicateCheck(p, d)
    BY <1>1, <2>2 DEF F!DuplicateCheck, F!Begin
  <2>3. CASE d \in Placed /\ F!DocMoveCheck(p, d, t)
    BY <1>1, <2>3 DEF F!DocMoveCheck, F!Begin
  <2>4. CASE d \in Placed /\ F!RestoreCheck(p, d)
    BY <1>1, <2>4 DEF F!RestoreCheck, F!Begin
  <2>5. QED BY <2>1, <2>2, <2>3, <2>4
<1>3. PICK r \in F!Requests : /\ r.at # "walk" /\ r.to = u /\ r.cursor = None /\ r.ids = {}
                              /\ r.at \in {"place", "restore"} => r.what \in Placed
                              /\ change' = [change EXCEPT ![p] = r]
  <2>1. CASE Inserts(u)
    BY <2>1 DEF F!Idle, F!Requests, F!Places
  <2>2. CASE d \in Placed /\ Puts(u)
    BY <2>2 DEF F!Idle, F!Requests, F!Places
  <2>3. CASE d \in Placed /\ Restores(u)
    BY <2>3 DEF F!Idle, F!Requests, F!Places
  <2>4. QED BY <1>2, <2>1, <2>2, <2>3
<1>4. QED BY <1>2, <1>3, ReadStep

\* Writes to the documents alone.
LEMMA TypeDocWrites ==
  ASSUME F!TreeOK, NEW p \in Handlers,
         \/ F!DocMoveWrite(p) \/ F!RestoreWrite(p) \/ F!SweepDocs(p)
         \/ \E d \in Placed : F!DocInsert(p, d)
  PROVE  F!TreeOK'
<1>0. change[p] \in F!Requests /\ F!RequestOK(p) /\ DocsOK
  BY TypeParts DEF F!TreeOK
<1>1. CASE \E d \in Placed : F!DocInsert(p, d)
  <2>1. change[p].to \in F!Places /\ (change[p].to # None => F!Created(change[p].to))
    BY <1>0 DEF F!Requests, F!RequestOK
  <2>2. DocsOK'
    BY <1>0, <1>1, <2>1 DEF F!DocInsert, DocsOK, F!Status, F!Here, F!Created
  <2>3. QED BY <1>1, <2>2, DocWrite DEF F!DocInsert
<1>2. CASE F!DocMoveWrite(p)
  <2>1. /\ change[p].to \in F!Places /\ (change[p].to # None => F!Created(change[p].to))
        /\ change[p].what \in Placed
    BY <1>0, <1>2 DEF F!DocMoveWrite, F!Requests, F!RequestOK
  <2>2. DocsOK'
    BY <1>0, <1>2, <2>1 DEF F!DocMoveWrite, F!Moved, DocsOK, F!Here, F!Created
  <2>3. QED BY <1>2, <2>2, DocWrite DEF F!DocMoveWrite
<1>3. CASE F!RestoreWrite(p)
  <2>1. /\ change[p].to \in F!Places /\ (change[p].to # None => F!Created(change[p].to))
        /\ change[p].what \in Placed
    BY <1>0, <1>3 DEF F!RestoreWrite, F!Requests, F!RequestOK
  <2>2. DocsOK'
    BY <1>0, <1>3, <2>1 DEF F!RestoreWrite, DocsOK, F!Status, F!Here, F!Created
  <2>3. QED BY <1>3, <2>2, DocWrite DEF F!RestoreWrite
<1>4. CASE F!SweepDocs(p)
  <2>1. doc' = [e \in Placed |-> IF doc[e].status = "expired" THEN [status |-> "gone", folder |-> None]
                               ELSE doc[e]]
    BY <1>4 DEF F!SweepDocs
  <2>2. DocsOK'
    BY <1>0, <1>4, <2>1 DEF F!SweepDocs, DocsOK, F!Status, F!Here, F!Created, F!Places
  <2>3. FoldersOK' /\ StillCreated
    BY <1>4, FoldersStay, TypeParts DEF F!SweepDocs
  <2> DEFINE r == [F!Idle EXCEPT !.at = "sweep"]
  <2>4. /\ r \in F!Requests /\ r.at = "sweep" /\ r.to = None /\ r.cursor = None /\ r.ids = {}
        /\ change' = [change EXCEPT ![p] = r]
    BY <1>4 DEF F!SweepDocs, F!Begin, F!Idle, F!Requests, F!Places
  <2> HIDE DEF r
  <2>5. RequestsOK'
    BY <2>3, <2>4, RequestsBegin, TypeParts
  <2>6. QED BY <2>2, <2>3, <2>5 DEF F!TreeOK, FoldersOK, DocsOK, RequestsOK
<1>5. QED BY <1>1, <1>2, <1>3, <1>4

LEMMA TypeDocTrash ==
  ASSUME F!TreeOK, NEW d \in Placed, F!TrashDoc(d) \/ F!PurgeDoc(d)
  PROVE  F!TreeOK'
<1>1. DocsOK'
  BY TypeParts DEF F!TrashDoc, F!PurgeDoc, DocsOK, F!Status, F!Here, F!Created, F!Places
<1>2. QED BY <1>1, DocWrite DEF F!TrashDoc, F!PurgeDoc

\* Every step keeps the types.
LEMMA TreeStep == F!TreeOK /\ [F!Next]_F!vars => F!TreeOK'
<1> SUFFICES ASSUME F!TreeOK, [F!Next]_F!vars  PROVE F!TreeOK'
  OBVIOUS
<1>1. CASE UNCHANGED F!vars
  BY <1>1, DocWrite, TypeParts DEF F!vars, DocsOK, F!Created, F!Here
<1>2. ASSUME NEW p \in Handlers, F!FolderStep(p)  PROVE F!TreeOK'
  <2>1. CASE \/ \E t \in Folders \cup {None} : F!CreateCheck(p, t)
             \/ \E f \in Folders : F!TrashCheck(p, f)
    BY <2>1, TypeFolderChecks DEF F!Places
  <2>2. CASE (\E f \in Folders : F!CreateInsert(p, f)) \/ F!SweepFolders(p)
    BY <2>2, TypeFolderWrites
  <2>3. CASE F!Gather(p) \/ F!TrashSnapshot(p) \/ F!TrashConflict(p)
    BY <2>3, TypeWalks
  <2>4. CASE F!TrashCommit(p)
    BY <2>4, TypeTrash
  <2>5. CASE F!SweepDocs(p)
    BY <2>5, TypeDocWrites
  <2>6. QED BY <1>2, <2>1, <2>2, <2>3, <2>4, <2>5 DEF F!FolderStep
<1>3. ASSUME NEW p \in Handlers, F!DocStep(p)  PROVE F!TreeOK'
  <2>1. CASE \/ \E t \in Folders \cup {None} : F!NewDocCheck(p, t)
             \/ \E t \in Folders \cup {None} : \E d \in Placed : F!DocMoveCheck(p, d, t)
             \/ \E d \in Placed : F!DuplicateCheck(p, d) \/ F!RestoreCheck(p, d)
    <3>1. PICK t \in F!Places : F!NewDocCheck(p, t) \/ \E d \in Placed : F!DocMoveCheck(p, d, t)
                              \/ F!DuplicateCheck(p, d) \/ F!RestoreCheck(p, d)
      BY <2>1 DEF F!Places
    <3>2. QED BY <3>1, TypeDocChecks
  <2>2. CASE (\E d \in Placed : F!DocInsert(p, d)) \/ F!DocMoveWrite(p) \/ F!RestoreWrite(p)
    BY <2>2, TypeDocWrites
  <2>3. QED BY <1>3, <2>1, <2>2 DEF F!DocStep
<1>4. ASSUME NEW p \in Handlers, F!MoveStep(p) \/ F!Crash(p)  PROVE F!TreeOK'
  BY <1>4, TypeWalks, TypeFolderWrites DEF F!MoveStep
<1>5. ASSUME NEW p \in Movers, F!MoveBegins(p)  PROVE F!TreeOK'
  BY <1>5, TypeFolderChecks DEF F!MoveBegins, F!Places
<1>6. ASSUME NEW d \in Placed, F!TrashDoc(d) \/ F!PurgeDoc(d)  PROVE F!TreeOK'
  BY <1>6, TypeDocTrash
<1>7. CASE F!RetentionPasses
  BY <1>7, TypeTrash
<1>8. QED BY <1>1, <1>2, <1>3, <1>4, <1>5, <1>6, <1>7 DEF F!Next

-----------------------------------------------------------------------------
\* What was written since a snapshot.

\* A step that marks records for the transactions that are open, and for no request that opens one.
LEMMA StaleKept ==
  ASSUME F!StaleOK, touched' \in [Handlers -> SUBSET (Folders \cup Placed)],
         \A q \in Handlers : \/ /\ change'[q] = change[q]
                                /\ (change[q].at # "commit" => touched'[q] = touched[q])
                             \/ touched'[q] = {}
  PROVE  F!StaleOK'
BY DEF F!StaleOK

\* A request reads: it had no transaction.
LEMMA StaleRead ==
  ASSUME F!TypeOK, NEW p \in Handlers, NEW r, change[p].at # "commit",
         change' = [change EXCEPT ![p] = r], touched' = touched
  PROVE  F!StaleOK'
<1>1. ASSUME NEW q \in Handlers  PROVE change'[q] = change[q] \/ touched'[q] = {}
  BY DEF F!TypeOK, F!TreeOK, F!StaleOK
<1>2. QED BY <1>1, StaleKept DEF F!TypeOK, F!StaleOK

\* What a write marks is what the transactions write.
LEMMA MarkedFits ==
  ASSUME F!TypeOK, NEW q \in Handlers, NEW W
  PROVE  F!Marked(q, W) \subseteq Folders \cup Placed
<1>1. F!Written(q) \subseteq Folders \cup Placed
  BY DEF F!TypeOK, F!TreeOK, F!Requests, F!Written
<1>2. QED BY <1>1 DEF F!Marked, F!TypeOK, F!StaleOK

\* A request without a transaction writes records and is over, or the write is nobody's.
LEMMA StaleWrite ==
  ASSUME F!TypeOK, NEW W, F!Wrote(W),
         \/ UNCHANGED change
         \/ \E p \in Handlers : change[p].at # "commit" /\ \E r : change' = [change EXCEPT ![p] = r]
  PROVE  F!StaleOK'
<1>1. touched' \in [Handlers -> SUBSET (Folders \cup Placed)]
  BY MarkedFits DEF F!Wrote
<1>2. ASSUME NEW q \in Handlers, change[q].at # "commit"  PROVE touched'[q] = touched[q] /\ touched'[q] = {}
  BY <1>2 DEF F!Wrote, F!Marked, F!TypeOK, F!StaleOK
<1>3. ASSUME NEW q \in Handlers, change[q].at = "commit"  PROVE change'[q] = change[q]
  BY <1>3 DEF F!TypeOK, F!TreeOK
<1>4. QED BY <1>1, <1>2, <1>3, StaleKept DEF F!TypeOK

\* Every step keeps it.
LEMMA StaleStep ==
  ASSUME F!TypeOK, [F!Next]_F!vars
  PROVE  F!StaleOK'
<1>1. CASE UNCHANGED F!vars \/ F!RetentionPasses
  BY <1>1 DEF F!vars, F!RetentionPasses, F!TypeOK, F!StaleOK
<1>2. F!Idle.at = "idle"
  BY DEF F!Idle
<1>3. ASSUME NEW p \in Handlers, NEW r, F!Begin(p, r) \/ (change[p].at # "commit" /\ F!Goes(p, r))
      PROVE  F!StaleOK'
  BY <1>2, <1>3, StaleRead DEF F!Begin, F!Goes
<1>4. ASSUME NEW p \in Handlers, NEW W, change[p].at # "commit", F!Finish(p), F!Wrote(W)  PROVE F!StaleOK'
  BY <1>4, StaleWrite DEF F!Finish
<1>5. ASSUME NEW p \in Handlers, F!FolderStep(p)  PROVE F!StaleOK'
  <2>1. CASE \/ \E t \in Folders \cup {None} : F!CreateCheck(p, t)
             \/ \E f \in Folders : F!TrashCheck(p, f)
    BY <1>3, <2>1 DEF F!CreateCheck, F!TrashCheck
  <2>2. CASE (\E f \in Folders : F!CreateInsert(p, f)) \/ F!SweepFolders(p)
    BY <1>4, <2>2 DEF F!CreateInsert, F!SweepFolders
  <2>3. CASE F!Gather(p) \/ F!TrashSnapshot(p)
    BY <1>3, <2>3 DEF F!Gather, F!TrashSnapshot
  <2>4. CASE F!TrashConflict(p)
    <3>1. \A q \in Handlers : touched'[q] = IF q = p THEN {} ELSE touched[q]
      BY <2>4 DEF F!TrashConflict, F!TypeOK, F!StaleOK
    <3>2. \A q \in Handlers : q # p => change'[q] = change[q]
      BY <2>4 DEF F!TrashConflict, F!TypeOK, F!TreeOK
    <3>3. touched' \in [Handlers -> SUBSET (Folders \cup Placed)]
      BY <2>4 DEF F!TrashConflict, F!TypeOK, F!StaleOK
    <3>4. QED BY <3>1, <3>2, <3>3, StaleKept DEF F!TypeOK
  <2>5. CASE F!TrashCommit(p)
    <3>1. touched' = [q \in Handlers |-> IF q = p THEN {} ELSE F!Marked(q, F!Written(p))]
      BY <2>5 DEF F!TrashCommit
    <3>2. touched' \in [Handlers -> SUBSET (Folders \cup Placed)]
      BY <3>1, MarkedFits
    <3>3. ASSUME NEW q \in Handlers, q # p  PROVE change'[q] = change[q]
      BY <2>5, <3>3 DEF F!TrashCommit, F!Finish, F!TypeOK, F!TreeOK
    <3>4. ASSUME NEW q \in Handlers, q # p, change[q].at # "commit"  PROVE touched'[q] = touched[q]
      BY <3>1, <3>4 DEF F!Marked
    <3>5. QED BY <3>1, <3>2, <3>3, <3>4, StaleKept DEF F!TypeOK
  <2>6. CASE F!SweepDocs(p)
    BY <1>2, <2>6, StaleWrite DEF F!SweepDocs
  <2>7. QED BY <1>5, <2>1, <2>2, <2>3, <2>4, <2>5, <2>6 DEF F!FolderStep
<1>6. ASSUME NEW p \in Handlers, F!DocStep(p)  PROVE F!StaleOK'
  <2>1. CASE \/ \E t \in Folders \cup {None} : F!NewDocCheck(p, t)
             \/ \E t \in Folders \cup {None} : \E d \in Placed : F!DocMoveCheck(p, d, t)
             \/ \E d \in Placed : F!DuplicateCheck(p, d) \/ F!RestoreCheck(p, d)
    BY <1>3, <2>1 DEF F!NewDocCheck, F!DocMoveCheck, F!DuplicateCheck, F!RestoreCheck
  <2>2. CASE (\E d \in Placed : F!DocInsert(p, d)) \/ F!DocMoveWrite(p) \/ F!RestoreWrite(p)
    BY <1>4, <2>2 DEF F!DocInsert, F!DocMoveWrite, F!RestoreWrite
  <2>3. QED BY <1>6, <2>1, <2>2 DEF F!DocStep
<1>7. ASSUME NEW p \in Handlers, F!MoveStep(p) \/ F!MoveBegins(p)  PROVE F!StaleOK'
  <2>1. CASE F!MoveUp(p) \/ F!MoveBegins(p)
    BY <1>3, <2>1 DEF F!MoveUp, F!MoveBegins, F!MoveCheck
  <2>2. CASE F!MoveRefuse(p)
    BY <2>2, StaleRead DEF F!MoveRefuse, F!Finish
  <2>3. CASE F!MoveWrite(p)
    BY <1>4, <2>3 DEF F!MoveWrite
  <2>4. QED BY <1>7, <2>1, <2>2, <2>3 DEF F!MoveStep
<1>8. ASSUME NEW p \in Handlers, F!Crash(p)  PROVE F!StaleOK'
  <2>1. \A q \in Handlers : touched'[q] = IF q = p THEN {} ELSE touched[q]
    BY <1>8 DEF F!Crash, F!TypeOK, F!StaleOK
  <2>2. \A q \in Handlers : q # p => change'[q] = change[q]
    BY <1>8 DEF F!Crash, F!Finish, F!TypeOK, F!TreeOK
  <2>3. touched' \in [Handlers -> SUBSET (Folders \cup Placed)]
    BY <1>8 DEF F!Crash, F!TypeOK, F!StaleOK
  <2>4. QED BY <2>1, <2>2, <2>3, StaleKept DEF F!TypeOK
<1>9. ASSUME NEW d \in Placed, F!TrashDoc(d) \/ F!PurgeDoc(d)  PROVE F!StaleOK'
  BY <1>9, StaleWrite DEF F!TrashDoc, F!PurgeDoc
<1>10. QED BY <1>1, <1>5, <1>6, <1>7, <1>8, <1>9, MoversAssumption DEF F!Next

LEMMA TypeStep == F!TypeOK /\ [F!Next]_F!vars => F!TypeOK'
BY TreeStep, StaleStep DEF F!TypeOK

\* Nothing has begun.
LEMMA TypeStart == F!Init => F!TypeOK
BY IdleTyped DEF F!Init, F!TypeOK, F!TreeOK, F!StaleOK, F!RequestOK, F!Idle, F!Status, F!Places

\* folders.ts, documents.ts: what requests remember, and what records point at, was created.
THEOREM FoldersTyped == MCSpec => []F!TypeOK
BY FoldersStart, FoldersSteps, TypeStart, TypeStep, PTL DEF MCSpec

-----------------------------------------------------------------------------
\* The folders are a forest while one request at most moves them.

\* At most one request moves folders.
OneMover == \A p, q \in Movers : p = q

\* What a walk has seen: a set V of folders without the one that moves, from which every way up leads
\* to the cursor or to the top level, and which the way up from the target enters.
Seen(p, V) ==
  /\ change[p].what \notin V
  /\ change[p].to \in V \cup {change[p].cursor, None}
  /\ \A v \in V : F!Created(v) /\ folder[v].parent \in V \cup {change[p].cursor, None}
Walked(p) == change[p].at = "walk" => \E V \in SUBSET Folders : Seen(p, V)

\* The inductive invariant.
Forest == F!TypeOK /\ F!NoCycle /\ \A p \in Handlers : Walked(p)

\* A step that moves no folder, or only to the top level, makes no cycle.
LEMMA NoCycleKept ==
  ASSUME F!NoCycle, \A f \in Folders : folder'[f].parent \in {folder[f].parent, None}
  PROVE  F!NoCycle'
<1> SUFFICES ASSUME NEW S \in SUBSET Folders, S # {}, \A f \in S : folder'[f].parent \in S
             PROVE  FALSE
  BY DEF F!NoCycle
<1>1. \A f \in S : folder[f].parent \in S
  OBVIOUS
<1>2. QED BY <1>1 DEF F!NoCycle

\* Nor does it change what another request's walk has seen.
LEMMA WalkedKept ==
  ASSUME NEW p \in Handlers, Walked(p), change'[p] = change[p],
         \A f \in Folders : F!Created(f) => F!Created(f)' /\ folder'[f].parent \in {folder[f].parent, None}
  PROVE  Walked(p)'
<1> SUFFICES ASSUME change[p].at = "walk"  PROVE \E V \in SUBSET Folders : Seen(p, V)'
  BY DEF Walked
<1>1. PICK V \in SUBSET Folders : Seen(p, V)
  BY DEF Walked
<1>2. Seen(p, V)'
  BY <1>1 DEF Seen
<1>3. QED BY <1>2

\* A new folder is nobody's parent.
LEMMA ForestCreate ==
  ASSUME Forest, NEW p \in Handlers, NEW g \in Folders, F!CreateInsert(p, g)
  PROVE  F!NoCycle'
<1> DEFINE t == change[p].to
<1>1. folder' = [folder EXCEPT ![g] = [status |-> "live", parent |-> t]] /\ ~F!Created(g)
  BY DEF F!CreateInsert, F!Created
<1>2. t # None => F!Created(t)
  BY DEF Forest, F!TypeOK, F!TreeOK, F!RequestOK
<1>3. /\ folder'[g].parent = t
      /\ \A f \in Folders \ {g} : folder'[f].parent = folder[f].parent /\ folder[f].parent # g
  BY <1>1 DEF Forest, F!TypeOK, F!TreeOK
<1> HIDE DEF t
<1> SUFFICES ASSUME NEW S \in SUBSET Folders, S # {}, \A f \in S : folder'[f].parent \in S
             PROVE  FALSE
  BY DEF F!NoCycle
<1> DEFINE R == S \ {g}
<1>4. R # {}
  BY <1>1, <1>2, <1>3
<1>5. \A f \in R : folder[f].parent \in R
  BY <1>3
<1>6. QED BY <1>4, <1>5 DEF Forest, F!NoCycle

\* The move that follows a walk to the top: what it saw is closed under parents, has the target, and
\* not the folder that moves; a cycle through the two would leave a smaller one within it.
LEMMA ForestMove ==
  ASSUME Forest, NEW p \in Handlers, F!MoveWrite(p)
  PROVE  F!NoCycle'
<1> DEFINE w == change[p].what
           t == change[p].to
<1>1. w \in Folders /\ change[p].cursor = None /\ change[p].at = "walk"
  BY DEF F!MoveWrite, Forest, F!TypeOK, F!TreeOK, F!RequestOK
<1>2. CASE ~F!Present(w)
  BY <1>2, NoCycleKept DEF F!MoveWrite, Forest
<1>3. CASE F!Present(w)
  <2>1. PICK V \in SUBSET Folders : Seen(p, V)
    BY <1>1 DEF Forest, Walked
  <2>2. /\ folder'[w].parent = t
        /\ \A f \in Folders \ {w} : folder'[f].parent = folder[f].parent
    BY <1>1, <1>3 DEF F!MoveWrite, Forest, F!TypeOK, F!TreeOK
  <2>3. w \notin V /\ t \in V \cup {None} /\ \A v \in V : folder[v].parent \in V \cup {None}
    BY <1>1, <2>1 DEF Seen
  <2> HIDE DEF w, t
  <2> SUFFICES ASSUME NEW S \in SUBSET Folders, S # {}, \A f \in S : folder'[f].parent \in S
               PROVE  FALSE
    BY DEF F!NoCycle
  <2>4. CASE w \notin S
    BY <2>2, <2>4 DEF Forest, F!NoCycle
  <2>5. CASE w \in S
    <3> DEFINE R == S \cap V
    <3>1. t \in R
      BY <2>2, <2>3, <2>5
    <3>2. \A f \in R : folder[f].parent \in R
      BY <2>2, <2>3
    <3>3. QED BY <3>1, <3>2 DEF Forest, F!NoCycle
  <2>6. QED BY <2>4, <2>5
<1>4. QED BY <1>2, <1>3

\* The walk begins at the target, having seen nothing, and sees one folder more with every level.
LEMMA WalkedStep ==
  ASSUME Forest, NEW p \in Handlers,
         F!MoveUp(p) \/ \E f \in Folders, t \in F!Places : F!MoveCheck(p, f, t)
  PROVE  Walked(p)'
<1>1. CASE \E f \in Folders, t \in F!Places : F!MoveCheck(p, f, t)
  <2>1. PICK f \in Folders, t \in F!Places : F!MoveCheck(p, f, t)
    BY <1>1
  <2>2. change'[p].to = t /\ change'[p].cursor = t
    BY <2>1 DEF F!MoveCheck, F!Begin, F!Idle, Forest, F!TypeOK, F!TreeOK
  <2>3. Seen(p, {})'
    BY <2>2 DEF Seen
  <2>4. QED BY <2>3 DEF Walked
<1>2. CASE F!MoveUp(p)
  <2>1. PICK c \in Folders : change[p].cursor = c
    BY <1>2 DEF F!MoveUp, Forest, F!TypeOK, F!TreeOK, F!Requests, F!Places
  <2>2. F!Created(c) /\ c # change[p].what /\ change[p].at = "walk"
    BY <1>2, <2>1 DEF F!MoveUp, F!Reached, Forest, F!TypeOK, F!TreeOK, F!RequestOK
  <2>3. /\ change'[p].what = change[p].what /\ change'[p].to = change[p].to
        /\ change'[p].cursor = IF F!Present(c) THEN folder[c].parent ELSE None
        /\ UNCHANGED folder
    BY <1>2, <2>1 DEF F!MoveUp, F!Goes, Forest, F!TypeOK, F!TreeOK, F!Requests
  <2>4. folder[c].parent \in {change'[p].cursor, None}
    BY <2>3 DEF Forest, F!TypeOK, F!TreeOK
  <2>5. PICK V \in SUBSET Folders : Seen(p, V)
    BY <2>2 DEF Forest, Walked
  <2>6. \A v \in V \cup {c} : folder[v].parent \in (V \cup {c}) \cup {change'[p].cursor, None}
    BY <2>1, <2>4, <2>5 DEF Seen
  <2>7. Seen(p, V \cup {c})'
    BY <2>1, <2>2, <2>3, <2>5, <2>6 DEF Seen, F!Created
  <2>8. QED BY <2>7 DEF Walked
<1>3. QED BY <1>1, <1>2

\* A request that goes on to something that is no walk.
LEMMA NotWalking ==
  ASSUME Forest, NEW p \in Handlers, NEW r, r.at # "walk", change' = [change EXCEPT ![p] = r]
  PROVE  \A q \in Handlers : change'[q] = change[q] \/ change'[q].at # "walk"
BY DEF Forest, F!TypeOK, F!TreeOK

LEMMA FinishedNotWalking ==
  ASSUME Forest, NEW p \in Handlers, F!Finish(p)
  PROVE  \A q \in Handlers : change'[q] = change[q] \/ change'[q].at # "walk"
<1>1. F!Idle.at # "walk"
  BY DEF F!Idle
<1>2. QED BY <1>1, NotWalking DEF F!Finish

\* The steps that write no folder.
LEMMA ForestSameFolders ==
  ASSUME Forest, F!TypeOK', UNCHANGED folder,
         \A p \in Handlers : change'[p] = change[p] \/ change'[p].at # "walk"
  PROVE  Forest'
<1>1. \A f \in Folders : (F!Created(f) => F!Created(f)') /\ folder'[f].parent = folder[f].parent
  BY DEF F!Created
<1>2. F!NoCycle'
  BY <1>1, NoCycleKept DEF Forest
<1>3. QED BY <1>1, <1>2, WalkedKept DEF Forest, Walked

\* Creating, trashing and purging folders.
LEMMA ForestFolderStep ==
  ASSUME Forest, F!TypeOK', NEW p \in Handlers, F!FolderStep(p)
  PROVE  Forest'
<1>1. CASE \E t \in Folders \cup {None} : F!CreateCheck(p, t)
  <2>1. PICK t : F!CreateCheck(p, t)
    BY <1>1
  <2>2. [F!Idle EXCEPT !.at = "create", !.to = t].at # "walk"
    BY DEF F!Idle
  <2>3. QED BY <2>1, <2>2, NotWalking, ForestSameFolders DEF F!CreateCheck, F!Begin
<1>2. CASE \E f \in Folders : F!TrashCheck(p, f)
  <2>1. PICK f : F!TrashCheck(p, f)
    BY <1>2
  <2>2. [F!Idle EXCEPT !.at = "gather", !.what = f, !.ids = {f}, !.level = {f}].at # "walk"
    BY DEF F!Idle
  <2>3. QED BY <2>1, <2>2, NotWalking, ForestSameFolders DEF F!TrashCheck, F!Begin
<1>3. CASE F!Gather(p)
  <2>1. PICK L, I : change' = [change EXCEPT ![p] = [change[p] EXCEPT !.level = L, !.ids = I]]
    BY <1>3 DEF F!Gather, F!Goes
  <2>2. change[p] \in F!Requests /\ change[p].at = "gather" /\ change \in [Handlers -> F!Requests]
    BY <1>3 DEF F!Gather, Forest, F!TypeOK, F!TreeOK
  <2>3. \A q \in Handlers : change'[q] = change[q] \/ change'[q].at # "walk"
    BY <2>1, <2>2 DEF F!Requests
  <2>4. QED BY <1>3, <2>3, ForestSameFolders DEF F!Gather
<1>4. CASE F!SweepDocs(p)
  <2>1. [F!Idle EXCEPT !.at = "sweep"].at # "walk"
    BY DEF F!Idle
  <2>2. QED BY <1>4, <2>1, NotWalking, ForestSameFolders DEF F!SweepDocs, F!Begin
<1>5. CASE (\E g \in Folders : F!CreateInsert(p, g)) \/ F!TrashCommit(p) \/ F!SweepFolders(p)
  <2>1. \A f \in Folders : F!Created(f) => F!Created(f)' /\ folder'[f].parent \in {folder[f].parent, None}
    <3>1. CASE \E g \in Folders : F!CreateInsert(p, g)
      BY <3>1 DEF F!CreateInsert, F!Created, Forest, F!TypeOK, F!TreeOK
    <3>2. CASE F!TrashCommit(p)
      BY <3>2 DEF F!TrashCommit, F!Created, Forest, F!TypeOK, F!TreeOK
    <3>3. CASE F!SweepFolders(p)
      BY <3>3 DEF F!SweepFolders, F!Created
    <3>4. QED BY <1>5, <3>1, <3>2, <3>3
  <2>2. \A q \in Handlers : change'[q] = change[q] \/ change'[q].at # "walk"
    BY <1>5, FinishedNotWalking DEF F!CreateInsert, F!TrashCommit, F!SweepFolders
  <2>3. F!NoCycle'
    <3>1. CASE \E g \in Folders : F!CreateInsert(p, g)
      BY <3>1, ForestCreate
    <3>2. CASE F!TrashCommit(p)
      <4>1. \A f \in Folders : folder'[f].parent = folder[f].parent
        BY <3>2 DEF F!TrashCommit, Forest, F!TypeOK, F!TreeOK
      <4>2. QED BY <4>1, NoCycleKept DEF Forest
    <3>3. CASE F!SweepFolders(p)
      <4>1. \A f \in Folders : folder'[f].parent \in {folder[f].parent, None}
        BY <3>3 DEF F!SweepFolders
      <4>2. QED BY <4>1, NoCycleKept DEF Forest
    <3>4. QED BY <1>5, <3>1, <3>2, <3>3
  <2>4. QED BY <2>1, <2>2, <2>3, WalkedKept DEF Forest, Walked
<1>6. CASE F!TrashSnapshot(p) \/ F!TrashConflict(p)
  <2>1. PICK r : r.at # "walk" /\ change' = [change EXCEPT ![p] = r]
    <3>1. change[p] \in F!Requests /\ change \in [Handlers -> F!Requests]
      BY DEF Forest, F!TypeOK, F!TreeOK
    <3>2. [change[p] EXCEPT !.at = "commit", !.along = F!DocsBelow(p)].at # "walk"
      BY <3>1 DEF F!Requests
    <3>3. [change[p] EXCEPT !.at = "gather", !.along = {}].at # "walk"
      BY <3>1 DEF F!Requests
    <3>4. F!TrashConflict(p) =>
            change' = [change EXCEPT ![p] = [change[p] EXCEPT !.at = "gather", !.along = {}]]
      BY <3>1 DEF F!TrashConflict
    <3>5. QED BY <1>6, <3>2, <3>3, <3>4 DEF F!TrashSnapshot, F!Goes
  <2>2. UNCHANGED folder
    BY <1>6 DEF F!TrashSnapshot, F!TrashConflict
  <2>3. QED BY <2>1, <2>2, NotWalking, ForestSameFolders
<1>7. QED BY <1>1, <1>2, <1>3, <1>4, <1>5, <1>6 DEF F!FolderStep

\* Documents.
LEMMA ForestDocStep ==
  ASSUME Forest, F!TypeOK', NEW p \in Handlers, F!DocStep(p)
  PROVE  Forest'
<1>1. UNCHANGED folder
  BY DEF F!DocStep, F!NewDocCheck, F!DuplicateCheck, F!DocInsert, F!DocMoveCheck, F!DocMoveWrite,
         F!RestoreCheck,
         F!RestoreWrite
<1>2. \/ F!Finish(p)
      \/ \E t : change' = [change EXCEPT ![p] = [F!Idle EXCEPT !.at = "insert", !.to = t]]
      \/ \E d, t : change' = [change EXCEPT ![p] = [F!Idle EXCEPT !.at = "place", !.what = d, !.to = t]]
      \/ \E d, t : change' = [change EXCEPT ![p] = [F!Idle EXCEPT !.at = "restore", !.what = d, !.to = t]]
  BY DEF F!DocStep, F!NewDocCheck, F!DuplicateCheck, F!DocInsert, F!DocMoveCheck, F!DocMoveWrite,
         F!RestoreCheck,
         F!RestoreWrite, F!Begin
<1>3. ASSUME NEW t, NEW d
      PROVE  /\ [F!Idle EXCEPT !.at = "insert", !.to = t].at # "walk"
             /\ [F!Idle EXCEPT !.at = "place", !.what = d, !.to = t].at # "walk"
             /\ [F!Idle EXCEPT !.at = "restore", !.what = d, !.to = t].at # "walk"
  BY DEF F!Idle
<1>4. \A q \in Handlers : change'[q] = change[q] \/ change'[q].at # "walk"
  <2>1. CASE F!Finish(p)
    BY <2>1, FinishedNotWalking
  <2>2. CASE \E t : change' = [change EXCEPT ![p] = [F!Idle EXCEPT !.at = "insert", !.to = t]]
    BY <2>2, <1>3, NotWalking
  <2>3. CASE \E d, t : change' = [change EXCEPT ![p] = [F!Idle EXCEPT !.at = "place", !.what = d, !.to = t]]
    BY <2>3, <1>3, NotWalking
  <2>4. CASE \E d, t : change' = [change EXCEPT ![p] = [F!Idle EXCEPT !.at = "restore", !.what = d, !.to = t]]
    BY <2>4, <1>3, NotWalking
  <2>5. QED BY <1>2, <2>1, <2>2, <2>3, <2>4
<1>5. QED BY <1>1, <1>4, ForestSameFolders

\* The one move at a time.
LEMMA ForestMoveStep ==
  ASSUME OneMover, Forest, F!TypeOK', NEW p \in Handlers,
         F!MoveStep(p) \/ (p \in Movers /\ F!MoveBegins(p))
  PROVE  Forest'
<1>1. F!NoCycle'
  <2>1. CASE F!MoveWrite(p)
    BY <2>1, ForestMove
  <2>2. CASE ~F!MoveWrite(p)
    <3>1. UNCHANGED folder
      BY <2>2 DEF F!MoveStep, F!MoveUp, F!MoveRefuse, F!MoveBegins, F!MoveCheck
    <3>2. QED BY <3>1, NoCycleKept DEF Forest
  <2>3. QED BY <2>1, <2>2
<1>2. ASSUME NEW q \in Handlers  PROVE Walked(q)'
  <2>1. CASE q = p
    <3>1. CASE F!MoveUp(p) \/ F!MoveBegins(p)
      BY <2>1, <3>1, WalkedStep DEF F!MoveBegins, F!Places
    <3>2. CASE F!MoveRefuse(p) \/ F!MoveWrite(p)
      BY <2>1, <3>2 DEF F!MoveRefuse, F!MoveWrite, F!Finish, F!Idle, Walked, Forest, F!TypeOK, F!TreeOK
    <3>3. QED BY <3>1, <3>2 DEF F!MoveStep
  <2>2. CASE q # p
    <3>1. p \in Movers
      BY DEF F!MoveStep, F!MoveUp, F!MoveRefuse, F!MoveWrite, Forest, F!TypeOK, F!TreeOK, F!RequestOK
    <3>2. change'[q].at # "walk"
      BY <2>2, <3>1 DEF OneMover, F!TypeOK, F!TreeOK, F!RequestOK
    <3>3. QED BY <3>2 DEF Walked
  <2>3. QED BY <2>1, <2>2
<1>3. QED BY <1>1, <1>2 DEF Forest

\* Every step keeps the invariant.
LEMMA ForestStep ==
  ASSUME OneMover, Forest, [F!Next]_F!vars
  PROVE  Forest'
<1>1. F!TypeOK'
  BY TypeStep DEF Forest
<1>2. CASE UNCHANGED F!vars
  BY <1>1, <1>2, NoCycleKept, WalkedKept DEF F!vars, Forest, F!Created
<1>3. ASSUME NEW p \in Handlers, F!FolderStep(p)  PROVE Forest'
  BY <1>1, <1>3, ForestFolderStep
<1>4. ASSUME NEW p \in Handlers, F!MoveStep(p) \/ (p \in Movers /\ F!MoveBegins(p))  PROVE Forest'
  BY <1>1, <1>4, ForestMoveStep
<1>5. ASSUME NEW p \in Handlers, F!DocStep(p)  PROVE Forest'
  BY <1>1, <1>5, ForestDocStep
<1>6. ASSUME NEW p \in Handlers, F!Crash(p)  PROVE Forest'
  BY <1>1, <1>6, FinishedNotWalking, ForestSameFolders DEF F!Crash
<1>7. ASSUME NEW d \in Placed, F!TrashDoc(d) \/ F!PurgeDoc(d)  PROVE Forest'
  BY <1>1, <1>7, ForestSameFolders DEF F!TrashDoc, F!PurgeDoc
<1>8. CASE F!RetentionPasses
  <2>1. \A f \in Folders : (F!Created(f) => F!Created(f)') /\ folder'[f].parent = folder[f].parent
    BY <1>8 DEF F!RetentionPasses, F!Created, Forest, F!TypeOK, F!TreeOK
  <2>2. F!NoCycle'
    BY <2>1, NoCycleKept DEF Forest
  <2>3. UNCHANGED change
    BY <1>8 DEF F!RetentionPasses
  <2>4. QED BY <1>1, <2>1, <2>2, <2>3, WalkedKept DEF Forest
<1>9. QED BY <1>2, <1>3, <1>4, <1>5, <1>6, <1>7, <1>8 DEF F!Next

\* folders.ts: "Refuses cycles": while at most one request moves folders, the folders are a forest,
\* although its walk reads one level at a time and others create, trash and purge folders meanwhile.
THEOREM MovesKeepForest ==
  ASSUME OneMover
  PROVE  MCSpec => []NoCycle
<1>1. F!Init => Forest
  <2>1. ASSUME F!Init  PROVE Forest
    <3>1. F!TypeOK
      BY <2>1, TypeStart
    <3>2. F!NoCycle
      BY <2>1 DEF F!Init, F!NoCycle
    <3>3. \A p \in Handlers : Walked(p)
      BY <2>1 DEF F!Init, Walked, F!Idle
    <3>4. QED BY <3>1, <3>2, <3>3 DEF Forest
  <2>2. QED BY <2>1
<1>2. Forest /\ [F!Next]_F!vars => Forest'
  BY ForestStep
<1>3. Forest => NoCycle
  BY DEF Forest, NoCycle
<1>4. QED BY <1>1, <1>2, <1>3, FoldersStart, FoldersSteps, PTL DEF MCSpec

-----------------------------------------------------------------------------
\* What a folder takes along to the trash.

\* The folders a request gathers can be trashed again but not purged: no request is that slow.  What
\* its transaction takes along was written by somebody since, or is live in one of those folders.
Kept(f) == folder[f].status \in {"live", "trashed"}
Inside(p, d) == doc[d].status = "live" /\ doc[d].folder \in change[p].ids
Gathered(p) ==
  /\ change[p].at \in {"gather", "commit"} => \A f \in change[p].ids : Kept(f)
  /\ change[p].at = "commit" => \A d \in change[p].along : d \in touched[p] \/ Inside(p, d)

\* The inductive invariant.
Together == F!TypeOK /\ \A p \in Handlers : Gathered(p)

\* What others write is marked.
LEMMA GatheredKept ==
  ASSUME Together, NEW q \in Handlers, change'[q] = change[q],
         \A f \in Folders : Kept(f) => Kept(f)',
         change[q].at = "commit" =>
           /\ touched[q] \subseteq touched'[q]
           /\ \A d \in change[q].along : doc'[d] = doc[d] \/ d \in touched'[q]
  PROVE  Gathered(q)'
<1>1. change[q].ids \subseteq Folders
  BY DEF Together, F!TypeOK, F!TreeOK, F!Requests
<1>2. QED BY <1>1 DEF Together, Gathered, Inside

\* A write W of records that changes no document outside W.
LEMMA GatheredWrite ==
  ASSUME Together, NEW q \in Handlers, change'[q] = change[q], NEW W, touched'[q] = F!Marked(q, W),
         \A f \in Folders : Kept(f) => Kept(f)',
         \A d \in Placed : doc'[d] = doc[d] \/ d \in W
  PROVE  Gathered(q)'
<1>1. change[q].at = "commit" => touched'[q] = touched[q] \cup (W \cap F!Written(q))
  BY DEF F!Marked
<1>2. change[q].along \subseteq Placed /\ change[q].along \subseteq F!Written(q)
  BY DEF Together, F!TypeOK, F!TreeOK, F!Requests, F!Written
<1>3. QED BY <1>1, <1>2, GatheredKept

\* The request that takes the step.
LEMMA GatheredSelf ==
  ASSUME Together, NEW p \in Handlers, NEW r, change' = [change EXCEPT ![p] = r],
         r.at \notin {"gather", "commit"}
  PROVE  Gathered(p)'
BY DEF Together, F!TypeOK, F!TreeOK, Gathered

\* A request reads, and begins or goes on.
LEMMA TogetherRead ==
  ASSUME Together, NEW p \in Handlers, NEW r, change' = [change EXCEPT ![p] = r],
         touched' = touched, UNCHANGED <<folder, doc>>, Gathered(p)'
  PROVE  \A q \in Handlers : Gathered(q)'
<1>1. ASSUME NEW q \in Handlers, q # p  PROVE Gathered(q)'
  <2>1. change'[q] = change[q]
    BY <1>1 DEF Together, F!TypeOK, F!TreeOK
  <2>2. QED BY <2>1, GatheredKept DEF Kept
<1>2. QED BY <1>1

\* A write to the records W that ends a request or is nobody's.
LEMMA TogetherWrite ==
  ASSUME Together, NEW W, F!Wrote(W), (\E p \in Handlers : F!Finish(p)) \/ UNCHANGED change,
         \A f \in Folders : Kept(f) => Kept(f)',
         \A d \in Placed : doc'[d] = doc[d] \/ d \in W
  PROVE  \A q \in Handlers : Gathered(q)'
<1>1. F!Idle.at \notin {"gather", "commit"}
  BY DEF F!Idle
<1>2. ASSUME NEW q \in Handlers  PROVE Gathered(q)'
  <2>1. touched'[q] = F!Marked(q, W)
    BY DEF F!Wrote
  <2>2. CASE change'[q] = change[q]
    BY <2>1, <2>2, GatheredWrite
  <2>3. CASE change'[q] # change[q]
    <3>1. PICK p \in Handlers : F!Finish(p)
      BY <2>3
    <3>2. q = p
      BY <2>3, <3>1 DEF F!Finish, Together, F!TypeOK, F!TreeOK
    <3>3. QED BY <1>1, <3>1, <3>2, GatheredSelf DEF F!Finish
  <2>4. QED BY <2>2, <2>3
<1>3. QED BY <1>2

\* The steps of trashing a folder, and of the other requests for folders.
LEMMA TogetherFolderStep ==
  ASSUME Together, NEW p \in Handlers, F!FolderStep(p)
  PROVE  \A q \in Handlers : Gathered(q)'
<1>0. change \in [Handlers -> F!Requests] /\ change[p] \in F!Requests /\ Gathered(p)
  BY DEF Together, F!TypeOK, F!TreeOK
<1>1. CASE \E t \in Folders \cup {None} : F!CreateCheck(p, t)
  <2>1. PICK t : F!CreateCheck(p, t)
    BY <1>1
  <2>2. [F!Idle EXCEPT !.at = "create", !.to = t].at = "create"
    BY DEF F!Idle
  <2>3. QED BY <2>1, <2>2, GatheredSelf, TogetherRead DEF F!CreateCheck, F!Begin
<1>2. CASE \E f \in Folders : F!TrashCheck(p, f)
  <2>1. PICK f \in Folders : F!TrashCheck(p, f)
    BY <1>2
  <2> DEFINE r == [F!Idle EXCEPT !.at = "gather", !.what = f, !.ids = {f}, !.level = {f}]
  <2>2. r.at = "gather" /\ r.ids = {f} /\ change' = [change EXCEPT ![p] = r]
    BY <2>1 DEF F!TrashCheck, F!Begin, F!Idle
  <2> HIDE DEF r
  <2>3. Gathered(p)'
    BY <1>0, <2>1, <2>2 DEF Gathered, Kept, F!TrashCheck, F!LiveFolder
  <2>4. QED BY <2>1, <2>2, <2>3, TogetherRead DEF F!TrashCheck, F!Begin
<1>3. CASE F!Gather(p)
  <2> DEFINE children == {g \in Folders : F!LiveFolder(g) /\ folder[g].parent \in change[p].level}
             r == [change[p] EXCEPT !.level = children, !.ids = @ \cup children]
  <2>1. /\ r.at = "gather" /\ r.ids = change[p].ids \cup children /\ change' = [change EXCEPT ![p] = r]
        /\ \A g \in children : Kept(g)
    BY <1>0, <1>3 DEF F!Gather, F!Goes, F!Requests, F!LiveFolder, Kept
  <2> HIDE DEF children, r
  <2>2. Gathered(p)'
    BY <1>0, <1>3, <2>1 DEF Gathered, Kept, F!Gather
  <2>3. QED BY <1>3, <2>1, <2>2, TogetherRead DEF F!Gather, F!Goes
<1>4. CASE F!TrashSnapshot(p)
  <2> DEFINE r == [change[p] EXCEPT !.at = "commit", !.along = F!DocsBelow(p)]
  <2>1. /\ r.at = "commit" /\ r.ids = change[p].ids /\ r.along = F!DocsBelow(p)
        /\ change' = [change EXCEPT ![p] = r] /\ change'[p] = r
    BY <1>0, <1>4 DEF F!TrashSnapshot, F!Goes, F!Requests
  <2> HIDE DEF r
  <2>2. Gathered(p)'
    BY <1>0, <1>4, <2>1 DEF Gathered, Kept, F!TrashSnapshot, F!DocsBelow, Inside
  <2>3. QED BY <1>4, <2>1, <2>2, TogetherRead DEF F!TrashSnapshot, F!Goes
<1>5. CASE F!TrashConflict(p)
  <2>1. ASSUME NEW q \in Handlers, q # p  PROVE Gathered(q)'
    <3>1. change'[q] = change[q] /\ touched'[q] = touched[q]
      BY <1>5, <2>1 DEF F!TrashConflict, Together, F!TypeOK, F!TreeOK, F!StaleOK
    <3>2. QED BY <1>5, <3>1, GatheredKept DEF F!TrashConflict, Kept
  <2>2. change'[p].at = "gather" /\ change'[p].ids = change[p].ids
    BY <1>0, <1>5 DEF F!TrashConflict, F!Requests
  <2>3. Gathered(p)'
    BY <1>0, <1>5, <2>2 DEF Gathered, Kept, F!TrashConflict
  <2>4. QED BY <2>1, <2>3
<1>6. CASE F!TrashCommit(p)
  <2>1. ASSUME NEW f \in Folders, Kept(f)  PROVE Kept(f)'
    BY <1>6, <2>1 DEF F!TrashCommit, Kept, Together, F!TypeOK, F!TreeOK
  <2>2. \A d \in Placed : doc'[d] = doc[d] \/ d \in F!Written(p)
    BY <1>6 DEF F!TrashCommit, F!Written
  <2>3. ASSUME NEW q \in Handlers, q # p  PROVE Gathered(q)'
    <3>1. change'[q] = change[q] /\ touched'[q] = F!Marked(q, F!Written(p))
      BY <1>0, <1>6, <2>3 DEF F!TrashCommit, F!Finish
    <3>2. QED BY <2>1, <2>2, <3>1, GatheredWrite
  <2>4. F!Idle.at \notin {"gather", "commit"}
    BY DEF F!Idle
  <2>5. Gathered(p)'
    BY <1>6, <2>4, GatheredSelf DEF F!TrashCommit, F!Finish
  <2>6. QED BY <2>3, <2>5
<1>7. CASE \E g \in Folders : F!CreateInsert(p, g)
  <2>1. PICK g \in Folders : F!CreateInsert(p, g)
    BY <1>7
  <2>2. ASSUME NEW f \in Folders, Kept(f)  PROVE Kept(f)'
    BY <2>1, <2>2 DEF F!CreateInsert, Kept, Together, F!TypeOK, F!TreeOK
  <2>3. QED BY <2>1, <2>2, TogetherWrite DEF F!CreateInsert
<1>8. CASE F!SweepFolders(p)
  <2>1. ASSUME NEW f \in Folders, Kept(f)  PROVE Kept(f)'
    BY <1>8, <2>1 DEF F!SweepFolders, Kept, Together, F!TypeOK, F!TreeOK
  <2>2. QED BY <1>8, <2>1, TogetherWrite DEF F!SweepFolders
<1>9. CASE F!SweepDocs(p)
  <2> DEFINE expired == {d \in Placed : doc[d].status = "expired"}
             r == [F!Idle EXCEPT !.at = "sweep"]
  <2>1. r.at = "sweep" /\ change' = [change EXCEPT ![p] = r]
    BY <1>9 DEF F!SweepDocs, F!Idle
  <2>2. F!Wrote(expired) /\ UNCHANGED folder /\ \A d \in Placed : doc'[d] = doc[d] \/ d \in expired
    BY <1>9 DEF F!SweepDocs
  <2> HIDE DEF expired, r
  <2>3. ASSUME NEW q \in Handlers, q # p  PROVE Gathered(q)'
    <3>1. change'[q] = change[q] /\ touched'[q] = F!Marked(q, expired)
      BY <1>0, <2>1, <2>2, <2>3 DEF F!Wrote
    <3>2. QED BY <2>2, <3>1, GatheredWrite DEF Kept
  <2>4. Gathered(p)'
    BY <2>1, GatheredSelf
  <2>5. QED BY <2>3, <2>4
<1>10. QED BY <1>1, <1>2, <1>3, <1>4, <1>5, <1>6, <1>7, <1>8, <1>9 DEF F!FolderStep

\* Requests for documents.
LEMMA TogetherDocStep ==
  ASSUME Together, NEW p \in Handlers, F!DocStep(p)
  PROVE  \A q \in Handlers : Gathered(q)'
<1>1. CASE \/ \E t \in Folders \cup {None} : F!NewDocCheck(p, t) \/ \E d \in Placed : F!DocMoveCheck(p, d, t)
           \/ \E d \in Placed : F!DuplicateCheck(p, d) \/ F!RestoreCheck(p, d)
  <2>1. ASSUME NEW t, NEW d
        PROVE  /\ [F!Idle EXCEPT !.at = "insert", !.to = t].at = "insert"
               /\ [F!Idle EXCEPT !.at = "place", !.what = d, !.to = t].at = "place"
               /\ [F!Idle EXCEPT !.at = "restore", !.what = d, !.to = t].at = "restore"
    BY DEF F!Idle
  <2>2. PICK r : r.at \notin {"gather", "commit"} /\ F!Begin(p, r)
    BY <1>1, <2>1 DEF F!NewDocCheck, F!DocMoveCheck, F!DuplicateCheck, F!RestoreCheck
  <2>3. UNCHANGED <<folder, doc>>
    BY <1>1 DEF F!NewDocCheck, F!DocMoveCheck, F!DuplicateCheck, F!RestoreCheck
  <2>4. QED BY <2>2, <2>3, GatheredSelf, TogetherRead DEF F!Begin
<1>2. CASE \E d \in Placed : F!DocInsert(p, d)
  <2>1. PICK d \in Placed : F!DocInsert(p, d)
    BY <1>2
  <2>2. \A e \in Placed : doc'[e] = doc[e] \/ e \in {d}
    BY <2>1 DEF F!DocInsert, Together, F!TypeOK, F!TreeOK
  <2>3. QED BY <2>1, <2>2, TogetherWrite DEF F!DocInsert, Kept
<1>3. CASE F!DocMoveWrite(p)
  <2>1. \A e \in Placed : doc'[e] = doc[e] \/ e \in {change[p].what}
    BY <1>3 DEF F!DocMoveWrite, F!Moved, Together, F!TypeOK, F!TreeOK
  <2>2. QED BY <1>3, <2>1, TogetherWrite DEF F!DocMoveWrite, Kept
<1>4. CASE F!RestoreWrite(p)
  <2>1. \A e \in Placed : doc'[e] = doc[e] \/ e \in {change[p].what}
    BY <1>4 DEF F!RestoreWrite, Together, F!TypeOK, F!TreeOK
  <2>2. QED BY <1>4, <2>1, TogetherWrite DEF F!RestoreWrite, Kept
<1>5. QED BY <1>1, <1>2, <1>3, <1>4 DEF F!DocStep

\* Moves of folders.
LEMMA TogetherMoveStep ==
  ASSUME Together, NEW p \in Handlers, F!MoveStep(p) \/ F!MoveBegins(p)
  PROVE  \A q \in Handlers : Gathered(q)'
<1>0. change \in [Handlers -> F!Requests] /\ change[p] \in F!Requests
  BY DEF Together, F!TypeOK, F!TreeOK
<1>1. CASE F!MoveBegins(p)
  <2>1. PICK f, t : F!MoveCheck(p, f, t)
    BY <1>1 DEF F!MoveBegins
  <2>2. [F!Idle EXCEPT !.at = "walk", !.what = f, !.to = t, !.cursor = t].at = "walk"
    BY DEF F!Idle
  <2>3. QED BY <2>1, <2>2, GatheredSelf, TogetherRead DEF F!MoveCheck, F!Begin
<1>2. CASE F!MoveUp(p)
  <2>1. PICK c : change' = [change EXCEPT ![p] = [change[p] EXCEPT !.cursor = c]]
    BY <1>2 DEF F!MoveUp, F!Goes
  <2>2. [change[p] EXCEPT !.cursor = c].at = "walk"
    BY <1>0, <1>2 DEF F!MoveUp, F!Requests
  <2>3. QED BY <1>2, <2>1, <2>2, GatheredSelf, TogetherRead DEF F!MoveUp, F!Goes
<1>3. CASE F!MoveRefuse(p)
  <2>1. F!Idle.at = "idle"
    BY DEF F!Idle
  <2>2. QED BY <1>3, <2>1, GatheredSelf, TogetherRead DEF F!MoveRefuse, F!Finish
<1>4. CASE F!MoveWrite(p)
  <2>1. ASSUME NEW f \in Folders, Kept(f)  PROVE Kept(f)'
    BY <1>4, <2>1 DEF F!MoveWrite, Kept, Together, F!TypeOK, F!TreeOK
  <2>2. QED BY <1>4, <2>1, TogetherWrite DEF F!MoveWrite
<1>5. QED BY <1>1, <1>2, <1>3, <1>4 DEF F!MoveStep

\* Every step keeps the invariant.
LEMMA TogetherStep == Together /\ [F!Next]_F!vars => Together'
<1> SUFFICES ASSUME Together, [F!Next]_F!vars  PROVE Together'
  OBVIOUS
<1>1. F!TypeOK'
  BY TypeStep DEF Together
<1>2. \A q \in Handlers : Gathered(q)'
  <2>1. CASE UNCHANGED F!vars
    BY <2>1, GatheredKept DEF F!vars, Kept
  <2>2. ASSUME NEW p \in Handlers, F!FolderStep(p) \/ F!DocStep(p) \/ F!MoveStep(p)
        PROVE \A q \in Handlers : Gathered(q)'
    BY <2>2, TogetherFolderStep, TogetherDocStep, TogetherMoveStep
  <2>3. ASSUME NEW p \in Movers, F!MoveBegins(p)  PROVE \A q \in Handlers : Gathered(q)'
    BY <2>3, TogetherMoveStep
  <2>4. ASSUME NEW p \in Handlers, F!Crash(p)  PROVE \A q \in Handlers : Gathered(q)'
    <3>1. F!Idle.at = "idle"
      BY DEF F!Idle
    <3>2. Gathered(p)'
      BY <2>4, <3>1, GatheredSelf DEF F!Crash, F!Finish
    <3>3. ASSUME NEW q \in Handlers, q # p  PROVE Gathered(q)'
      <4>1. change'[q] = change[q] /\ touched'[q] = touched[q]
        BY <2>4, <3>3 DEF F!Crash, F!Finish, Together, F!TypeOK, F!TreeOK, F!StaleOK
      <4>2. QED BY <2>4, <4>1, GatheredKept DEF F!Crash, Kept
    <3>4. QED BY <3>2, <3>3
  <2>5. ASSUME NEW d \in Placed, F!TrashDoc(d) \/ F!PurgeDoc(d)  PROVE \A q \in Handlers : Gathered(q)'
    <3>1. \A e \in Placed : doc'[e] = doc[e] \/ e \in {d}
      BY <2>5 DEF F!TrashDoc, F!PurgeDoc, Together, F!TypeOK, F!TreeOK
    <3>2. QED BY <2>5, <3>1, TogetherWrite DEF F!TrashDoc, F!PurgeDoc, Kept
  <2>6. CASE F!RetentionPasses
    BY <2>6 DEF F!RetentionPasses, F!Idle, Gathered
  <2>7. QED BY <2>1, <2>2, <2>3, <2>4, <2>5, <2>6 DEF F!Next
<1>3. QED BY <1>1, <1>2 DEF Together

\* folders.ts: a document is trashed along only with its own folder, however others move, restore and
\* trash documents and folders while the subtree is read and the transaction runs.
THEOREM TrashedWithItsFolder == MCSpec => OnlyInsideGoesAlong
<1> DEFINE A == folder' # folder =>
                  \A d \in Placed : doc[d].status = "live" /\ doc'[d].status = "trashed" =>
                    doc[d].folder # None /\ folder'[doc[d].folder].status = "trashed"
<1>1. F!Init => Together
  <2>1. ASSUME F!Init, NEW p \in Handlers  PROVE Gathered(p)
    BY <2>1 DEF F!Init, Gathered, F!Idle
  <2>2. QED BY <2>1, TypeStart DEF Together
<1>2. Together /\ [F!Next]_F!vars => [A]_F!vars
  <2> SUFFICES ASSUME Together, F!Next, folder' # folder,
                      NEW d \in Placed, doc[d].status = "live", doc'[d].status = "trashed"
               PROVE  doc[d].folder # None /\ folder'[doc[d].folder].status = "trashed"
    BY DEF F!vars
  <2>1. ASSUME NEW p \in Handlers, F!TrashCommit(p)
        PROVE  doc[d].folder # None /\ folder'[doc[d].folder].status = "trashed"
    <3>1. d \in change[p].along /\ change[p].at = "commit"
      BY <2>1 DEF F!TrashCommit
    <3>2. d \notin touched[p]
      BY <2>1, <3>1 DEF F!TrashCommit, F!Unchanged, F!Written
    <3>3. Inside(p, d) /\ \A f \in change[p].ids : Kept(f)
      BY <3>1, <3>2 DEF Together, Gathered
    <3>4. change[p].ids \subseteq Folders
      BY DEF Together, F!TypeOK, F!TreeOK, F!Requests
    <3>5. doc[d].folder \in Folders /\ F!Present(doc[d].folder) /\ doc[d].folder \in change[p].ids
      BY <3>3, <3>4 DEF Inside, Kept, F!Present
    <3>6. folder'[doc[d].folder].status = "trashed"
      BY <2>1, <3>5 DEF F!TrashCommit, Together, F!TypeOK, F!TreeOK
    <3>7. QED BY <3>5, <3>6, NoneAssumption
  <2>2. ASSUME NEW p \in Handlers, F!FolderStep(p), ~F!TrashCommit(p)  PROVE FALSE
    <3>1. UNCHANGED doc \/ UNCHANGED folder
      BY <2>2 DEF F!FolderStep, F!CreateCheck, F!CreateInsert, F!TrashCheck, F!Gather, F!TrashSnapshot,
                  F!TrashConflict, F!SweepDocs, F!SweepFolders
    <3>2. QED BY <3>1
  <2>3. ASSUME NEW p \in Handlers, F!DocStep(p) \/ F!MoveStep(p) \/ F!Crash(p) \/ F!MoveBegins(p)
        PROVE FALSE
    <3>1. UNCHANGED doc \/ UNCHANGED folder
      BY <2>3 DEF F!DocStep, F!NewDocCheck, F!DuplicateCheck, F!DocInsert, F!DocMoveCheck, F!DocMoveWrite,
                  F!RestoreCheck, F!RestoreWrite, F!Crash, F!MoveBegins, F!MoveCheck, F!MoveStep, F!MoveUp,
                  F!MoveRefuse, F!MoveWrite
    <3>2. QED BY <3>1
  <2>4. ASSUME NEW e \in Placed, F!TrashDoc(e) \/ F!PurgeDoc(e)  PROVE FALSE
    BY <2>4 DEF F!TrashDoc, F!PurgeDoc
  <2>5. CASE F!RetentionPasses
    BY <2>5 DEF F!RetentionPasses, Together, F!TypeOK, F!TreeOK
  <2>6. QED BY <2>1, <2>2, <2>3, <2>4, <2>5, MoversAssumption DEF F!Next
<1>3. QED
  BY <1>1, <1>2, FoldersStart, FoldersSteps, TogetherStep, PTL
  DEF MCSpec, OnlyInsideGoesAlong, F!OnlyInsideGoesAlong
=============================================================================
