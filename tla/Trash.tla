------------------------------- MODULE Trash --------------------------------
(***************************************************************************)
(* Documents, the files they use, and deleting both for good: creating and *)
(* duplicating documents (packages/db creation.ts, documents.ts,           *)
(* insert.ts), the trash, and the cascade of "Delete forever" and of the   *)
(* daily purge (trash.ts, cascade.ts).                                     *)
(*                                                                         *)
(* The cascade is a MongoDB transaction: it reads a snapshot and fails,    *)
(* and is retried by the driver, when a record it writes was written by    *)
(* somebody else since.  Reads do not conflict.  `stale` holds the records *)
(* written since a request's snapshot.                                     *)
(***************************************************************************)
EXTENDS ByteSets

CONSTANTS Docs,      \* document ids
          Assets,    \* asset ids
          Size,      \* Size[a]: bytes of asset a
          Limit,     \* the storage limit of the workspace's owner
          Batch,     \* documents the daily purge deletes per transaction
          Procs,     \* requests and purge jobs running at once
          Account,   \* the owner's user record
          None

ASSUME SizeAssumption == Size \in [Assets -> Nat \ {0}]
ASSUME LimitAssumption == Limit \in Nat

VARIABLES docs,     \* document records: status, and the assets their sources, cover and pages use
          assets,   \* asset records: status, and the document they belong to
          object,   \* the assets whose S3 object exists
          used,     \* the owner's storageUsedBytes
          req,      \* what each request is doing
          stale     \* records others wrote since the snapshot of each request's transaction

vars == <<docs, assets, object, used, req, stale>>

Idle == [at |-> "idle", docs |-> {}, uses |-> {}, owned |-> {}, doomed |-> {},
         refund |-> {}]

-----------------------------------------------------------------------------
\* Helpers.

Exists(d) == docs[d].status \in {"live", "trashed", "expired"}
Stored(a) == assets[a].status \in {"verifying", "ready", "rejected"}
Live(a) == assets[a].status \in {"verifying", "ready"}
Sizes(A) == [a \in A |-> Size[a]]

\* A write of the records W makes them stale for every transaction that has its snapshot.
Wrote(W) == stale' = [q \in Procs |-> IF req[q].at = "commit" THEN stale[q] \cup W ELSE stale[q]]

\* assetsOnlyUsedBy: what these documents own or use, and no other document uses.
OwnedBy(D) == {a \in Assets : Stored(a) /\ assets[a].doc \in D}
UsedBy(D) == UNION {docs[d].uses : d \in {e \in D : Exists(e)}}
\* (Mutant: what other documents use is not taken out.)
UsedByThem(D) == {a \in OwnedBy(D) \cup UsedBy(D) : Stored(a)}
OnlyUsedBy(D) == {a \in (OwnedBy(D) \cup UsedBy(D)) \ UsedBy(Docs \ D) : Stored(a)}

\* The files among A somebody is charged for.
Charged(A) == {a \in A : Live(a)}

\* (Mutant: the bytes are not given back.)
NotRefunded(A) == used

\* refundStorage, for the files A; it never goes below zero.
Refunded(A) == LET bytes == TotalBytes(Sizes(A))
               IN  IF used < bytes THEN 0 ELSE used - bytes

\* The records the cascade of request p writes.
Written(p) == req[p].docs \cup req[p].owned \cup req[p].doomed
              \cup (IF req[p].refund = {} THEN {} ELSE {Account})

\* (Mutant: a file that stays still points at the document that went.)
OwnersKept(p) == [a \in Assets |-> IF a \in req[p].doomed THEN [status |-> "gone", doc |-> None]
                                   ELSE assets[a]]

\* The asset records after the cascade: the doomed are gone, the others that were owned have no owner.
AssetsAfter(p) == [a \in Assets |-> IF a \in req[p].doomed THEN [status |-> "gone", doc |-> None]
                                    ELSE IF a \in req[p].owned THEN [assets[a] EXCEPT !.doc = None]
                                    ELSE assets[a]]

\* A request with the objects of A left to remove.
Removing(A) == IF A = {} THEN Idle ELSE [Idle EXCEPT !.at = "remove", !.doomed = A]

\* The status the purge permission needs.
InTrash(d) == docs[d].status \in {"trashed", "expired"}

-----------------------------------------------------------------------------
Init ==
  /\ docs = [d \in Docs |-> [status |-> "none", uses |-> {}]]
  /\ assets = [a \in Assets |-> [status |-> "none", doc |-> None]]
  /\ object = {}
  /\ used = 0
  /\ req = [p \in Procs |-> Idle]
  /\ stale = [p \in Procs |-> {}]

-----------------------------------------------------------------------------
\* Files arrive (Uploads has the protocol): completing an upload into document d first checks that d
\* may be edited.
CompleteCheck(p, d) ==
  /\ req[p] = Idle
  /\ docs[d].status = "live"
  /\ req' = [req EXCEPT ![p] = [Idle EXCEPT !.at = "register", !.docs = {d}]]
  /\ UNCHANGED <<docs, assets, object, used, stale>>

\* The asset of a completed upload or of a fetched file, charged to the owner.
Register(p, a, d, status) ==
  /\ assets[a].status = "none"
  /\ used + Size[a] <= Limit
  /\ assets' = [assets EXCEPT ![a] = [status |-> status, doc |-> d]]
  /\ object' = object \cup {a}
  /\ used' = used + Size[a]
  /\ req' = [req EXCEPT ![p] = Idle]
  /\ Wrote({a, Account})
  /\ UNCHANGED docs

RegisterOwned(p, a) ==
  /\ req[p].at = "register"
  /\ \E d \in req[p].docs : Register(p, a, d, "verifying")

RegisterUnowned(p, a) ==
  /\ req[p] = Idle
  /\ Register(p, a, None, "verifying")

\* The import job hashed and sniffed what it fetched, so the file is ready at once.
RegisterFetched(p, a) ==
  /\ req[p] = Idle
  /\ Register(p, a, None, "ready")

\* The verification worker's verdict, conditional on the status.
Verify(a) ==
  /\ assets[a].status = "verifying"
  /\ assets' = [assets EXCEPT ![a].status = "ready"]
  /\ Wrote({a})
  /\ UNCHANGED <<docs, object, used, req>>

Reject(a) ==
  /\ assets[a].status = "verifying"
  /\ assets' = [assets EXCEPT ![a].status = "rejected"]
  /\ object' = object \ {a}
  /\ used' = Refunded(Charged({a}))
  /\ Wrote({a, Account})
  /\ UNCHANGED <<docs, req>>

-----------------------------------------------------------------------------
\* A new document: the files it will use are read first, the document is inserted later.

\* create: the files must be ready.
CreateRead(p, A) ==
  /\ req[p] = Idle
  /\ \A a \in A : assets[a].status = "ready"
  /\ req' = [req EXCEPT ![p] = [Idle EXCEPT !.at = "create", !.uses = A]]
  /\ UNCHANGED <<docs, assets, object, used, stale>>

\* duplicate: the copy uses the same files.
DuplicateRead(p, d) ==
  /\ req[p] = Idle
  /\ docs[d].status = "live"
  /\ req' = [req EXCEPT ![p] = [Idle EXCEPT !.at = "duplicate", !.uses = docs[d].uses]]
  /\ UNCHANGED <<docs, assets, object, used, stale>>

\* insertDocument; a created document takes over the files that belong to none.
Insert(p, d) ==
  LET attached == {a \in req[p].uses : /\ req[p].at = "create"
                                       /\ Stored(a) /\ assets[a].doc = None} IN
  /\ req[p].at \in {"create", "duplicate"}
  /\ docs[d].status = "none"
  /\ docs' = [docs EXCEPT ![d] = [status |-> "live", uses |-> req[p].uses]]
  /\ assets' = [a \in Assets |-> IF a \in attached THEN [assets[a] EXCEPT !.doc = d]
                                 ELSE assets[a]]
  /\ req' = [req EXCEPT ![p] = Idle]
  /\ Wrote({d} \cup attached)
  /\ UNCHANGED <<object, used>>

-----------------------------------------------------------------------------
\* The trash.  Each update is by id alone, so it finds nothing once the document is gone.

SetStatus(d, status) ==
  /\ docs' = [docs EXCEPT ![d].status = status]
  /\ Wrote({d})
  /\ UNCHANGED <<assets, object, used, req>>

TrashDoc(p, d) == req[p] = Idle /\ docs[d].status = "live" /\ SetStatus(d, "trashed")

RestoreDoc(p, d) ==
  req[p] = Idle /\ InTrash(d) /\ SetStatus(d, "live")

\* The retention period passes.  Nothing is written.
Age(d) ==
  /\ docs[d].status = "trashed"
  /\ docs' = [docs EXCEPT ![d].status = "expired"]
  /\ UNCHANGED <<assets, object, used, req, stale>>

-----------------------------------------------------------------------------
\* Deleting for good.

\* "Delete forever": every document is checked before the transaction.
PurgeCheck(p, D) ==
  /\ req[p] = Idle
  /\ D # {} /\ \A d \in D : InTrash(d)
  /\ req' = [req EXCEPT ![p] = [Idle EXCEPT !.at = "snapshot", !.docs = D]]
  /\ UNCHANGED <<docs, assets, object, used, stale>>

\* The daily purge: up to a batch of documents past their retention.
SweepFind(p, D) ==
  LET expired == {d \in Docs : docs[d].status = "expired"} IN
  /\ req[p] = Idle
  /\ D # {} /\ D \subseteq expired
  /\ Cardinality(D) <= Batch /\ (D = expired \/ Cardinality(D) = Batch)
  /\ req' = [req EXCEPT ![p] = [Idle EXCEPT !.at = "snapshot", !.docs = D]]
  /\ UNCHANGED <<docs, assets, object, used, stale>>

\* (Mutant: the objects are removed before the transaction, not after it.)
RemovesFirst(p) ==
  LET D == req[p].docs IN
  /\ req[p].at = "snapshot"
  /\ req' = [req EXCEPT ![p] = [@ EXCEPT !.at = "commit", !.docs = {d \in D : Exists(d)},
                                         !.owned = OwnedBy(D), !.doomed = OnlyUsedBy(D),
                                         !.refund = Charged(OnlyUsedBy(D))]]
  /\ object' = object \ OnlyUsedBy(D)
  /\ UNCHANGED <<docs, assets, used, stale>>

\* deleteDocumentsCascade reads: which documents are still there, and which files go with them.
Snapshot(p) ==
  LET D == req[p].docs IN
  /\ req[p].at = "snapshot"
  /\ req' = [req EXCEPT ![p] = [@ EXCEPT !.at = "commit", !.docs = {d \in D : Exists(d)},
                                         !.owned = OwnedBy(D), !.doomed = OnlyUsedBy(D),
                                         !.refund = Charged(OnlyUsedBy(D))]]
  /\ UNCHANGED <<docs, assets, object, used, stale>>

\* A record it writes is newer than the snapshot: the driver runs the transaction again.
Conflict(p) ==
  /\ req[p].at = "commit"
  /\ Written(p) \cap stale[p] # {}
  /\ req' = [req EXCEPT ![p] = [Idle EXCEPT !.at = "snapshot", !.docs = req[p].docs]]
  /\ stale' = [stale EXCEPT ![p] = {}]
  /\ UNCHANGED <<docs, assets, object, used>>

\* The documents and files go, the bytes come back, surviving files lose their document.
Commit(p) ==
  /\ req[p].at = "commit"
  /\ Written(p) \cap stale[p] = {}
  /\ docs' = [d \in Docs |-> IF d \in req[p].docs THEN [status |-> "gone", uses |-> {}]
                             ELSE docs[d]]
  /\ assets' = AssetsAfter(p)
  /\ used' = Refunded(req[p].refund)
  /\ req' = [req EXCEPT ![p] = Removing(req[p].doomed)]
  /\ stale' = [q \in Procs |-> IF q = p THEN {}
                               ELSE IF req[q].at = "commit" THEN stale[q] \cup Written(p)
                               ELSE stale[q]]
  /\ UNCHANGED object

\* removeObjects, one by one after the transaction; a removal that fails leaves an orphan.
RemoveObject(p, a) ==
  /\ req[p].at = "remove"
  /\ a \in req[p].doomed
  /\ object' \in {object \ {a}, object}
  /\ req' = [req EXCEPT ![p] = Removing(req[p].doomed \ {a})]
  /\ UNCHANGED <<docs, assets, used, stale>>

\* A request or job dies, or a call it makes fails.
Crash(p) ==
  /\ req[p] # Idle
  /\ req' = [req EXCEPT ![p] = Idle]
  /\ stale' = [stale EXCEPT ![p] = {}]
  /\ UNCHANGED <<docs, assets, object, used>>

-----------------------------------------------------------------------------
FileStep(p) ==
  \/ \E d \in Docs : CompleteCheck(p, d)
  \/ \E a \in Assets : RegisterOwned(p, a) \/ RegisterUnowned(p, a) \/ RegisterFetched(p, a)
DocStep(p) ==
  \/ \E A \in SUBSET Assets : CreateRead(p, A)
  \/ \E d \in Docs : DuplicateRead(p, d) \/ Insert(p, d) \/ TrashDoc(p, d) \/ RestoreDoc(p, d)
PurgeStep(p) ==
  \/ \E D \in SUBSET Docs : PurgeCheck(p, D) \/ SweepFind(p, D)
  \/ Snapshot(p) \/ Conflict(p) \/ Commit(p)
  \/ \E a \in Assets : RemoveObject(p, a)

Next ==
  \/ \E p \in Procs : FileStep(p) \/ DocStep(p) \/ PurgeStep(p) \/ Crash(p)
  \/ \E a \in Assets : Verify(a) \/ Reject(a)
  \/ \E d \in Docs : Age(d)

Spec == Init /\ [][Next]_vars

-----------------------------------------------------------------------------
\* Properties.

DocStatus == {"none", "live", "trashed", "expired", "gone"}
AssetStatus == {"none", "verifying", "ready", "rejected", "gone"}
Steps == {"idle", "register", "create", "duplicate", "snapshot", "commit", "remove"}
Requests == [at : Steps, docs : SUBSET Docs, uses : SUBSET Assets, owned : SUBSET Assets,
             doomed : SUBSET Assets, refund : SUBSET Assets]

\* The records, the objects, the requests and what each knows to be stale.
RecordsOK ==
  /\ docs \in [Docs -> [status : DocStatus, uses : SUBSET Assets]]
  /\ assets \in [Assets -> [status : AssetStatus, doc : Docs \cup {None}]]
  /\ object \subseteq Assets
  /\ req \in [Procs -> Requests]
  /\ stale \in [Procs -> SUBSET (Docs \cup Assets \cup {Account})]

\* What a transaction deletes is still there, and charged for as its snapshot says, unless somebody
\* wrote it since; what it removes from S3 afterwards has no record left.
RequestOK(p) ==
  /\ req[p].at = "idle" => req[p] = Idle
  /\ req[p].at # "commit" => stale[p] = {}
  /\ req[p].at = "commit" =>
       /\ req[p].refund \subseteq req[p].doomed
       /\ \A a \in req[p].doomed \ stale[p] : Stored(a) /\ (Live(a) <=> a \in req[p].refund)
  /\ req[p].at = "remove" => \A a \in req[p].doomed : assets[a].status = "gone"

\* Every variable has its type, and what a request remembers is true or known to be stale.
TypeOK == RecordsOK /\ used \in Nat /\ \A p \in Procs : RequestOK(p)

\* What the owner is charged for: the bytes of the live files.
Held == [a \in Assets |-> IF Live(a) THEN Size[a] ELSE 0]

\* quota.ts: deleting documents gives back exactly the bytes of the live files that go, once,
\* whatever purges, rejections and uploads run at the same time.
StorageConserved == used = TotalBytes(Held)

\* trash.ts: "Records go first ... rather than a document pointing at a missing file": a file that
\* is ready to be used has its object, although purges remove objects outside their transaction.
ReadyHasFile == \A a \in Assets : assets[a].status = "ready" => a \in object

\* cascade.ts: "one file can back several documents; it may only go when the last of them does".
NoDanglingFile == \A d \in Docs : Exists(d) => \A a \in docs[d].uses : Stored(a)

\* cascade.ts: files that stay "no longer point at a document that is gone".
OwnerExists == \A a \in Assets : Stored(a) /\ assets[a].doc # None => Exists(assets[a].doc)

\* The trash implements the account's ledger: every step charges one file, gives back a set of files
\* the account holds, or leaves the account alone.
Ledger == INSTANCE Ledger WITH held <- Held
LedgerSpec == Ledger!Spec
=============================================================================
