---------------------------- MODULE TrashProofs -----------------------------
(***************************************************************************)
(* Theorems about Trash, for any number of documents, files and requests:  *)
(* the type invariant, conservation of the owner's storage counter under   *)
(* concurrent deletions, the implementation of Ledger, and that a ready    *)
(* file has its object; and, with one request at a time, what documents,   *)
(* files and the trash may rely on.                                        *)
(***************************************************************************)
EXTENDS Trash, ByteSetsProofs

USE SizeAssumption, LimitAssumption

\* A step that registers a file.
Registers == \E p \in Procs, a \in Assets, d \in Docs \cup {None}, status \in {"verifying", "ready"} :
               Register(p, a, d, status)

\* A request that somebody else's write of the records W leaves alone still knows what it knew: what
\* changed is in its stale set.
LEMMA OtherRequest ==
  ASSUME NEW q \in Procs, RecordsOK, RequestOK(q), NEW W \in SUBSET (Docs \cup Assets \cup {Account}),
         req'[q] = req[q],
         stale'[q] = IF req[q].at = "commit" THEN stale[q] \cup W ELSE stale[q],
         \A a \in Assets \ W : assets'[a].status = assets[a].status,
         \A a \in Assets : assets[a].status = "gone" => assets'[a].status = "gone"
  PROVE  RequestOK(q)'
<1>1. req[q].doomed \subseteq Assets
  BY DEF RecordsOK, Requests
<1>2. ASSUME req[q].at = "commit", NEW a \in req[q].doomed \ stale'[q]
      PROVE  Stored(a)' /\ (Live(a)' <=> a \in req[q].refund)
  BY <1>1, <1>2 DEF RequestOK, Stored, Live
<1>3. QED BY <1>1, <1>2 DEF RequestOK, Stored, Live, Idle

\* What Wrote does to one transaction's stale set.
LEMMA WroteStale ==
  ASSUME RecordsOK, NEW W \in SUBSET (Docs \cup Assets \cup {Account}), Wrote(W)
  PROVE  /\ stale' \in [Procs -> SUBSET (Docs \cup Assets \cup {Account})]
         /\ \A q \in Procs : stale'[q] = IF req[q].at = "commit" THEN stale[q] \cup W ELSE stale[q]
BY DEF Wrote, RecordsOK

\* A request that has no snapshot yet and starts, or finishes, or goes on reading: nothing it writes
\* matters to the other transactions.
LEMMA QuietStep ==
  ASSUME TypeOK, NEW p \in Procs, NEW r \in Requests, r.at \notin {"commit", "remove"},
         r.at = "idle" => r = Idle, req[p].at # "commit",
         req' = [req EXCEPT ![p] = r], UNCHANGED <<docs, assets, object, stale>>
  PROVE  RecordsOK' /\ \A q \in Procs : RequestOK(q)'
<1>1. RecordsOK'
  BY DEF TypeOK, RecordsOK
<1>2. ASSUME NEW q \in Procs  PROVE RequestOK(q)'
  <2>1. CASE q = p
    BY <2>1 DEF TypeOK, RecordsOK, RequestOK, Idle
  <2>2. CASE q # p
    BY <2>2 DEF TypeOK, RecordsOK, RequestOK, Idle, Stored, Live
  <2>3. QED BY <2>1, <2>2
<1>3. QED BY <1>1, <1>2

\* A write that belongs to no request, or to one that is idle before and after.
LEMMA WriteStep ==
  ASSUME TypeOK, NEW W \in SUBSET (Docs \cup Assets \cup {Account}), Wrote(W),
         \/ UNCHANGED req
         \/ \E p \in Procs : req[p].at # "commit" /\ req' = [req EXCEPT ![p] = Idle],
         docs' \in [Docs -> [status : DocStatus, uses : SUBSET Assets]],
         assets' \in [Assets -> [status : AssetStatus, doc : Docs \cup {None}]],
         object' \subseteq Assets,
         \A a \in Assets \ W : assets'[a].status = assets[a].status,
         \A a \in Assets : assets[a].status = "gone" => assets'[a].status = "gone"
  PROVE  RecordsOK' /\ \A q \in Procs : RequestOK(q)'
<1>1. /\ stale' \in [Procs -> SUBSET (Docs \cup Assets \cup {Account})]
      /\ \A q \in Procs : stale'[q] = IF req[q].at = "commit" THEN stale[q] \cup W ELSE stale[q]
  BY WroteStale DEF TypeOK
<1>2. RecordsOK'
  <2>1. Idle \in Requests
    BY DEF Idle, Requests, Steps
  <2>2. req' \in [Procs -> Requests]
    BY <2>1 DEF TypeOK, RecordsOK
  <2>3. QED BY <1>1, <2>2 DEF RecordsOK
<1>3. ASSUME NEW q \in Procs  PROVE RequestOK(q)'
  <2>1. CASE req'[q] = req[q]
    BY <1>1, <2>1, OtherRequest DEF TypeOK
  <2>2. CASE req'[q] # req[q]
    <3>1. req[q].at # "commit" /\ req'[q] = Idle
      BY <2>2 DEF TypeOK, RecordsOK
    <3>2. QED BY <1>1, <3>1 DEF TypeOK, RequestOK, Idle
  <2>3. QED BY <2>1, <2>2
<1>4. QED BY <1>2, <1>3

\* The type invariant but for the counter, which the accounting below determines.
Typed == RecordsOK /\ \A p \in Procs : RequestOK(p)

-----------------------------------------------------------------------------
\* Each action in turn.

\* Completing an upload into a document checks the document first.
LEMMA TypeCompleteCheck ==
  ASSUME TypeOK, NEW p \in Procs, NEW d \in Docs, CompleteCheck(p, d)
  PROVE  Typed'
<1> DEFINE r == [Idle EXCEPT !.at = "register", !.docs = {d}]
<1>1. r \in Requests /\ r.at = "register"
  BY DEF Idle, Requests, Steps
<1>2. req[p].at # "commit" /\ req' = [req EXCEPT ![p] = r]
  BY DEF CompleteCheck, Idle
<1>3. QED BY <1>1, <1>2, QuietStep DEF CompleteCheck, Typed

\* A new asset is in no snapshot, and its request is over.
LEMMA TypeRegister ==
  ASSUME TypeOK, NEW p \in Procs, NEW a \in Assets, NEW d \in Docs \cup {None},
         NEW status \in {"verifying", "ready"}, Register(p, a, d, status), req[p].at # "commit"
  PROVE  Typed'
<1>1. assets' \in [Assets -> [status : AssetStatus, doc : Docs \cup {None}]]
  BY DEF Register, TypeOK, RecordsOK, AssetStatus
<1>2. /\ \A b \in Assets \ {a, Account} : assets'[b].status = assets[b].status
      /\ \A b \in Assets : assets[b].status = "gone" => assets'[b].status = "gone"
  BY DEF Register, TypeOK, RecordsOK
<1>3. object' \subseteq Assets /\ docs' \in [Docs -> [status : DocStatus, uses : SUBSET Assets]]
  BY DEF Register, TypeOK, RecordsOK
<1>4. QED BY <1>1, <1>2, <1>3, WriteStep DEF Register, Typed

\* A verdict changes one asset, which every snapshot then knows to be stale.
LEMMA TypeVerdict ==
  ASSUME TypeOK, NEW a \in Assets, Verify(a) \/ Reject(a)
  PROVE  Typed'
<1>1. assets' \in [Assets -> [status : AssetStatus, doc : Docs \cup {None}]]
  BY DEF Verify, Reject, TypeOK, RecordsOK, AssetStatus
<1>2. /\ \A b \in Assets \ {a} : assets'[b].status = assets[b].status
      /\ \A b \in Assets : assets[b].status = "gone" => assets'[b].status = "gone"
  BY DEF Verify, Reject, TypeOK, RecordsOK
<1>3. object' \subseteq Assets /\ docs' \in [Docs -> [status : DocStatus, uses : SUBSET Assets]]
  BY DEF Verify, Reject, TypeOK, RecordsOK
<1>4. (Wrote({a}) \/ Wrote({a, Account})) /\ UNCHANGED req
  BY DEF Verify, Reject
<1>5. QED BY <1>1, <1>2, <1>3, <1>4, WriteStep DEF Typed

\* create and duplicate read first.
LEMMA TypeRead ==
  ASSUME TypeOK, NEW p \in Procs,
         (\E A \in SUBSET Assets : CreateRead(p, A)) \/ (\E d \in Docs : DuplicateRead(p, d))
  PROVE  Typed'
<1> DEFINE made(A) == [Idle EXCEPT !.at = "create", !.uses = A]
           copy(A) == [Idle EXCEPT !.at = "duplicate", !.uses = A]
<1>1. PICK A \in SUBSET Assets :
        /\ req[p] = Idle /\ UNCHANGED <<docs, assets, object, stale>>
        /\ \/ req' = [req EXCEPT ![p] = made(A)]
           \/ req' = [req EXCEPT ![p] = copy(A)]
  BY DEF CreateRead, DuplicateRead, TypeOK, RecordsOK
<1>2. req[p].at = "idle"
  BY <1>1 DEF Idle
<1>3. made(A) \in Requests /\ made(A).at = "create"
  BY DEF Idle, Requests, Steps
<1>4. copy(A) \in Requests /\ copy(A).at = "duplicate"
  BY DEF Idle, Requests, Steps
<1> HIDE DEF made, copy
<1>5. QED BY <1>1, <1>2, <1>3, <1>4, QuietStep DEF Typed

\* Inserting a document gives it the unowned files, whose status stays what it was.
LEMMA TypeInsert ==
  ASSUME TypeOK, NEW p \in Procs, NEW d \in Docs, Insert(p, d)
  PROVE  Typed'
<1> DEFINE attached == {a \in req[p].uses : /\ req[p].at = "create"
                                            /\ Stored(a) /\ assets[a].doc = None}
<1>1. req[p].uses \subseteq Assets /\ req[p].at # "commit"
  BY DEF Insert, TypeOK, RecordsOK, Requests
<1>2. /\ assets' \in [Assets -> [status : AssetStatus, doc : Docs \cup {None}]]
      /\ \A a \in Assets : assets'[a].status = assets[a].status
  BY DEF Insert, TypeOK, RecordsOK
<1>3. docs' \in [Docs -> [status : DocStatus, uses : SUBSET Assets]]
  BY <1>1 DEF Insert, TypeOK, RecordsOK, DocStatus
<1>4. {d} \cup attached \subseteq Docs \cup Assets \cup {Account} /\ Wrote({d} \cup attached)
  BY <1>1 DEF Insert
<1>5. object' \subseteq Assets /\ req' = [req EXCEPT ![p] = Idle]
  BY DEF Insert, TypeOK, RecordsOK
<1>6. QED BY <1>1, <1>2, <1>3, <1>4, <1>5, WriteStep DEF Typed

\* Trashing and restoring write the document's status alone.
LEMMA TypeSetStatus ==
  ASSUME TypeOK, NEW d \in Docs, NEW status \in DocStatus, SetStatus(d, status)
  PROVE  Typed'
<1>1. docs' \in [Docs -> [status : DocStatus, uses : SUBSET Assets]]
  BY DEF SetStatus, TypeOK, RecordsOK
<1>2. /\ UNCHANGED req /\ Wrote({d}) /\ object' \subseteq Assets
      /\ assets' \in [Assets -> [status : AssetStatus, doc : Docs \cup {None}]]
      /\ \A a \in Assets : assets'[a].status = assets[a].status
  BY DEF SetStatus, TypeOK, RecordsOK
<1>3. QED BY <1>1, <1>2, WriteStep DEF Typed

\* Nothing a request knows depends on the age of a trashed document.
LEMMA TypeAge ==
  ASSUME TypeOK, NEW d \in Docs, Age(d)
  PROVE  Typed'
<1>1. docs' \in [Docs -> [status : DocStatus, uses : SUBSET Assets]]
  BY DEF Age, TypeOK, RecordsOK, DocStatus
<1>2. UNCHANGED <<assets, object, req, stale>>
  BY DEF Age
<1>3. ASSUME NEW q \in Procs  PROVE RequestOK(q)'
  <2>1. RequestOK(q)
    BY DEF TypeOK
  <2>2. QED BY <1>2, <2>1 DEF RequestOK, Stored, Live
<1>4. RecordsOK'
  BY <1>1, <1>2 DEF TypeOK, RecordsOK
<1>5. QED BY <1>3, <1>4 DEF Typed

\* Both ways of deleting for good begin with a set of documents.
LEMMA TypePurgeStart ==
  ASSUME TypeOK, NEW p \in Procs, NEW D \in SUBSET Docs, PurgeCheck(p, D) \/ SweepFind(p, D)
  PROVE  Typed'
<1> DEFINE r == [Idle EXCEPT !.at = "snapshot", !.docs = D]
<1>1. r \in Requests /\ r.at = "snapshot"
  BY DEF Idle, Requests, Steps
<1>2. /\ req[p].at # "commit" /\ req' = [req EXCEPT ![p] = r]
      /\ UNCHANGED <<docs, assets, object, stale>>
  BY DEF PurgeCheck, SweepFind, Idle
<1>3. QED BY <1>1, <1>2, QuietStep DEF Typed

\* What a request's snapshot says of the files holds when it is taken.
LEMMA TypeSnapshot ==
  ASSUME TypeOK, NEW p \in Procs, Snapshot(p)
  PROVE  Typed'
<1> DEFINE D == req[p].docs
           doomed == OnlyUsedBy(D)
<1>1. req[p] \in Requests /\ stale[p] = {}
  BY DEF Snapshot, TypeOK, RecordsOK, RequestOK
<1>2. OwnedBy(D) \subseteq Assets /\ \A d \in Docs : docs[d].uses \subseteq Assets
  BY DEF OwnedBy, TypeOK, RecordsOK
<1>3. UsedBy(D) \subseteq Assets
  BY <1>1, <1>2 DEF UsedBy, Requests
<1>4. doomed \subseteq Assets /\ \A a \in doomed : Stored(a)
  BY <1>2, <1>3 DEF OnlyUsedBy
<1>5. Charged(doomed) = {a \in doomed : Live(a)}
  BY DEF Charged
<1>6. /\ req'[p] \in Requests /\ req'[p].at = "commit"
      /\ req'[p].doomed = doomed /\ req'[p].refund = Charged(doomed)
  <2> HIDE DEF doomed
  <2>1. {d \in D : Exists(d)} \subseteq Docs /\ Charged(doomed) \subseteq Assets
    BY <1>1, <1>4, <1>5 DEF Requests
  <2>2. req'[p] = [req[p] EXCEPT !.at = "commit", !.docs = {d \in D : Exists(d)},
                                 !.owned = OwnedBy(D), !.doomed = doomed,
                                 !.refund = Charged(doomed)]
    BY DEF Snapshot, TypeOK, RecordsOK, doomed
  <2>3. QED BY <1>1, <1>2, <1>4, <2>1, <2>2 DEF Requests, Steps
<1>7. /\ \A q \in Procs \ {p} : req'[q] = req[q]
      /\ DOMAIN req' = Procs /\ req' = [q \in Procs |-> req'[q]]
      /\ UNCHANGED <<docs, assets, object, stale>>
  BY DEF Snapshot, TypeOK, RecordsOK
<1>8. req' \in [Procs -> Requests]
  BY <1>6, <1>7 DEF TypeOK, RecordsOK
<1>9. RequestOK(p)'
  BY <1>1, <1>4, <1>5, <1>6, <1>7 DEF RequestOK, Stored, Live
<1>10. ASSUME NEW q \in Procs \ {p}  PROVE RequestOK(q)'
  BY <1>7 DEF TypeOK, RequestOK, Stored, Live
<1>11. QED BY <1>7, <1>8, <1>9, <1>10 DEF Typed, TypeOK, RecordsOK

\* A transaction run again, or a request that dies, forgets what it knew.
LEMMA TypeForget ==
  ASSUME TypeOK, NEW p \in Procs, Conflict(p) \/ Crash(p)
  PROVE  Typed'
<1> DEFINE again == [Idle EXCEPT !.at = "snapshot", !.docs = req[p].docs]
<1>1. req[p].docs \subseteq Docs
  BY DEF TypeOK, RecordsOK, Requests
<1>2. /\ Idle \in Requests /\ Idle.at = "idle"
      /\ again \in Requests /\ again.at = "snapshot"
  BY <1>1 DEF Idle, Requests, Steps
<1>3. PICK r \in {Idle, again} : req' = [req EXCEPT ![p] = r]
  BY DEF Conflict, Crash
<1>4. stale' = [stale EXCEPT ![p] = {}] /\ UNCHANGED <<docs, assets, object>>
  BY DEF Conflict, Crash
<1> HIDE DEF again
<1>5. RecordsOK'
  BY <1>2, <1>3, <1>4 DEF TypeOK, RecordsOK
<1>6. RequestOK(p)'
  BY <1>2, <1>3, <1>4 DEF TypeOK, RecordsOK, RequestOK
<1>7. ASSUME NEW q \in Procs \ {p}  PROVE RequestOK(q)'
  BY <1>3, <1>4 DEF TypeOK, RecordsOK, RequestOK, Stored, Live
<1>8. QED BY <1>5, <1>6, <1>7 DEF Typed

\* A request that has objects left to remove, or none.
LEMMA Remover ==
  ASSUME NEW A \in SUBSET Assets
  PROVE  /\ Removing(A) \in Requests /\ Removing(A).doomed = A
         /\ IF A = {} THEN Removing(A) = Idle ELSE Removing(A).at = "remove"
BY DEF Removing, Idle, Requests, Steps

\* The cascade's commit is a write like the others to the transactions it races.
LEMMA TypeCommit ==
  ASSUME TypeOK, NEW p \in Procs, Commit(p)
  PROVE  Typed'
<1> DEFINE r == Removing(req[p].doomed)
<1>1. req[p] \in Requests /\ req[p].at = "commit"
  BY DEF Commit, TypeOK, RecordsOK
<1>2. Written(p) \subseteq Docs \cup Assets \cup {Account} /\ req[p].doomed \subseteq Written(p)
  BY <1>1 DEF Written, Requests
<1>3. /\ r \in Requests /\ r.doomed = req[p].doomed
      /\ IF req[p].doomed = {} THEN r = Idle ELSE r.at = "remove"
  <2>1. req[p].doomed \subseteq Assets
    BY <1>1 DEF Requests
  <2>2. QED BY <2>1, Remover
<1>4. req' = [req EXCEPT ![p] = r] /\ assets' = AssetsAfter(p) /\ UNCHANGED object
  BY DEF Commit
<1>5. /\ assets' \in [Assets -> [status : AssetStatus, doc : Docs \cup {None}]]
      /\ \A a \in Assets : assets'[a].status = IF a \in req[p].doomed THEN "gone" ELSE assets[a].status
  BY <1>4 DEF AssetsAfter, TypeOK, RecordsOK, AssetStatus
<1>6. /\ stale' \in [Procs -> SUBSET (Docs \cup Assets \cup {Account})]
      /\ stale'[p] = {}
      /\ \A q \in Procs \ {p} :
           stale'[q] = IF req[q].at = "commit" THEN stale[q] \cup Written(p) ELSE stale[q]
  BY <1>2 DEF Commit, TypeOK, RecordsOK
<1>7. docs' \in [Docs -> [status : DocStatus, uses : SUBSET Assets]]
  BY DEF Commit, TypeOK, RecordsOK, DocStatus
<1> HIDE DEF r
<1>8. RecordsOK'
  BY <1>3, <1>4, <1>5, <1>6, <1>7 DEF TypeOK, RecordsOK
<1>9. RequestOK(p)'
  <2>1. req'[p] = r
    BY <1>4 DEF TypeOK, RecordsOK
  <2>2. req[p].doomed \subseteq Assets
    BY <1>1 DEF Requests
  <2>3. r.at # "commit"
    BY <1>3 DEF Idle
  <2>4. QED BY <1>3, <1>5, <1>6, <2>1, <2>2, <2>3 DEF RequestOK, Idle
<1>10. ASSUME NEW q \in Procs \ {p}  PROVE RequestOK(q)'
  <2>1. req'[q] = req[q]
    BY <1>4 DEF TypeOK, RecordsOK
  <2>2. QED BY <1>2, <1>5, <1>6, <2>1, OtherRequest DEF TypeOK
<1>11. QED BY <1>8, <1>9, <1>10 DEF Typed

\* Removing objects touches no record.
LEMMA TypeRemove ==
  ASSUME TypeOK, NEW p \in Procs, NEW a \in Assets, RemoveObject(p, a)
  PROVE  Typed'
<1> DEFINE left == req[p].doomed \ {a}
           r == Removing(left)
<1>1. left \subseteq Assets /\ req[p].at = "remove"
  BY DEF RemoveObject, TypeOK, RecordsOK, Requests
<1>2. /\ r \in Requests /\ r.doomed = left
      /\ IF left = {} THEN r = Idle ELSE r.at = "remove"
  BY <1>1, Remover
<1>3. req' = [req EXCEPT ![p] = r] /\ UNCHANGED <<docs, assets, stale>>
  BY DEF RemoveObject
<1> HIDE DEF r
<1>4. RecordsOK'
  BY <1>2, <1>3 DEF RemoveObject, TypeOK, RecordsOK
<1>5. RequestOK(p)'
  BY <1>1, <1>2, <1>3 DEF TypeOK, RecordsOK, RequestOK, Idle
<1>6. ASSUME NEW q \in Procs \ {p}  PROVE RequestOK(q)'
  BY <1>3 DEF TypeOK, RecordsOK, RequestOK, Stored, Live
<1>7. QED BY <1>4, <1>5, <1>6 DEF Typed

\* The records and what requests know keep their types in every step.
LEMMA TypedStep == TypeOK /\ [Next]_vars => Typed'
<1> SUFFICES ASSUME TypeOK, [Next]_vars  PROVE Typed'
  OBVIOUS
<1>1. CASE \E p \in Procs : FileStep(p)
  <2>1. PICK p \in Procs : FileStep(p)
    BY <1>1
  <2>2. CASE \E d \in Docs : CompleteCheck(p, d)
    BY <2>2, TypeCompleteCheck
  <2>3. CASE \E a \in Assets :
               RegisterOwned(p, a) \/ RegisterUnowned(p, a) \/ RegisterFetched(p, a)
    <3>1. PICK a \in Assets, d \in Docs \cup {None}, status \in {"verifying", "ready"} :
            Register(p, a, d, status) /\ req[p].at # "commit"
      BY <2>3 DEF RegisterOwned, RegisterUnowned, RegisterFetched, TypeOK, RecordsOK, Requests, Idle
    <3>2. QED BY <3>1, TypeRegister
  <2>4. QED BY <2>1, <2>2, <2>3 DEF FileStep
<1>2. CASE \E p \in Procs : DocStep(p)
  <2>1. PICK p \in Procs : DocStep(p)
    BY <1>2
  <2>2. CASE \E d \in Docs : TrashDoc(p, d) \/ RestoreDoc(p, d)
    <3>1. PICK d \in Docs, status \in DocStatus : SetStatus(d, status)
      BY <2>2 DEF TrashDoc, RestoreDoc, DocStatus
    <3>2. QED BY <3>1, TypeSetStatus
  <2>3. CASE \E d \in Docs : Insert(p, d)
    BY <2>3, TypeInsert
  <2>4. QED BY <2>1, <2>2, <2>3, TypeRead DEF DocStep
<1>3. CASE \E p \in Procs : PurgeStep(p) \/ Crash(p)
  BY <1>3, TypePurgeStart, TypeSnapshot, TypeForget, TypeCommit, TypeRemove DEF PurgeStep
<1>4. CASE (\E a \in Assets : Verify(a) \/ Reject(a)) \/ \E d \in Docs : Age(d)
  BY <1>4, TypeVerdict, TypeAge
<1>5. CASE UNCHANGED vars
  BY <1>5 DEF vars, Typed, TypeOK, RecordsOK, RequestOK, Stored, Live
<1>6. QED BY <1>1, <1>2, <1>3, <1>4, <1>5 DEF Next

-----------------------------------------------------------------------------
\* Accounting.

\* The inductive invariant: the counter agrees with the live files, of which there are finitely many.
Accounted == TypeOK /\ StorageConserved /\ IsFiniteSet(Bytes(Held))

\* Nothing is held in an empty workspace.
LEMMA InitAccounted == Init => Accounted
<1> SUFFICES ASSUME Init  PROVE Accounted
  OBVIOUS
<1>1. RecordsOK /\ used = 0 /\ \A p \in Procs : RequestOK(p)
  BY DEF Init, RecordsOK, DocStatus, AssetStatus, Requests, Steps, Idle, RequestOK
<1>2. \A a \in Assets : ~ Live(a)
  BY DEF Init, Live
<1>3. Bytes(Held) = {}
  BY <1>2 DEF Bytes, Held
<1>4. QED BY <1>1, <1>3, FS_EmptySet DEF Accounted, TypeOK, StorageConserved, TotalBytes

\* What the account holds is a number for every file.
LEMMA HeldType == TypeOK => Held \in [Assets -> Nat]
BY DEF TypeOK, Held

\* A step that leaves the account alone.
SameAccount == used' = used /\ \A a \in Assets : Live(a)' = Live(a)

\* Giving up the live files in A.
GivesUp(A) == /\ \A a \in Assets : Live(a)' = (Live(a) /\ a \notin A)
              /\ used' = Refunded({a \in A : Live(a)})

\* A registered file is charged, if it fits.
LEMMA RegisterCharges ==
  ASSUME TypeOK, NEW p \in Procs, NEW a \in Assets, NEW d,
         NEW status \in {"verifying", "ready"}, Register(p, a, d, status)
  PROVE  /\ Held[a] = 0 /\ used + Size[a] <= Limit /\ used' = used + Size[a]
         /\ Held' = [Held EXCEPT ![a] = Size[a]]
<1>1. \A b \in Assets : Live(b)' = (b = a \/ Live(b))
  BY DEF Register, Live, TypeOK, RecordsOK
<1>2. ~ Live(a)
  BY DEF Register, Live
<1>3. QED BY <1>1, <1>2 DEF Register, Held

\* A rejected file is given up.
LEMMA RejectGivesUp ==
  ASSUME TypeOK, NEW a \in Assets, Reject(a)
  PROVE  GivesUp({a})
<1>1. Charged({a}) = {b \in {a} : Live(b)}
  BY DEF Charged
<1>2. \A b \in Assets : Live(b)' = (Live(b) /\ b \notin {a})
  BY DEF Reject, Live, TypeOK, RecordsOK
<1>3. QED BY <1>1, <1>2 DEF Reject, GivesUp

\* The cascade gives up the doomed files: nobody wrote them, or the account, since its snapshot.
LEMMA CommitGivesUp ==
  ASSUME TypeOK, NEW p \in Procs, Commit(p)
  PROVE  req[p].doomed \subseteq Assets /\ GivesUp(req[p].doomed)
<1>1. req[p].doomed \subseteq Assets /\ req[p].doomed \cap stale[p] = {}
  BY DEF Commit, Written, TypeOK, RecordsOK, Requests
<1>2. req[p].refund = {a \in req[p].doomed : Live(a)}
  BY <1>1 DEF Commit, TypeOK, RequestOK
<1>3. \A a \in Assets : assets'[a].status = IF a \in req[p].doomed THEN "gone" ELSE assets[a].status
  BY DEF Commit, AssetsAfter, TypeOK, RecordsOK
<1>4. \A a \in Assets : Live(a)' = (Live(a) /\ a \notin req[p].doomed)
  BY <1>3 DEF Live
<1>5. QED BY <1>1, <1>2, <1>4 DEF Commit, GivesUp

\* What a step does to the account.
LEMMA AccountStep ==
  ASSUME TypeOK, [Next]_vars
  PROVE  \/ SameAccount
         \/ Registers
         \/ \E A \in SUBSET Assets : GivesUp(A)
<1>1. CASE \E p \in Procs : FileStep(p)
  <2>1. \/ SameAccount
        \/ \E p \in Procs, a \in Assets :
             RegisterOwned(p, a) \/ RegisterUnowned(p, a) \/ RegisterFetched(p, a)
    BY <1>1 DEF FileStep, CompleteCheck, SameAccount, Live
  <2>2. QED BY <2>1
        DEF Registers, RegisterOwned, RegisterUnowned, RegisterFetched, TypeOK, RecordsOK, Requests
<1>2. CASE \E p \in Procs : DocStep(p)
  <2>1. UNCHANGED <<assets, used>> \/ \E p \in Procs, d \in Docs : Insert(p, d)
    BY <1>2 DEF DocStep, CreateRead, DuplicateRead, TrashDoc, RestoreDoc, SetStatus
  <2>2. ASSUME NEW p \in Procs, NEW d \in Docs, Insert(p, d)  PROVE SameAccount
    <3>1. \A a \in Assets : assets'[a].status = assets[a].status
      BY <2>2 DEF Insert, TypeOK, RecordsOK
    <3>2. QED BY <2>2, <3>1 DEF Insert, SameAccount, Live
  <2>3. QED BY <2>1, <2>2 DEF SameAccount, Live
<1>3. CASE \E p \in Procs : PurgeStep(p) \/ Crash(p)
  <2>1. UNCHANGED <<assets, used>> \/ \E p \in Procs : Commit(p)
    BY <1>3 DEF PurgeStep, Crash, PurgeCheck, SweepFind, Snapshot, Conflict, RemoveObject
  <2>2. ASSUME NEW p \in Procs, Commit(p)  PROVE \E A \in SUBSET Assets : GivesUp(A)
    <3>1. req[p].doomed \in SUBSET Assets /\ GivesUp(req[p].doomed)
      BY <2>2, CommitGivesUp
    <3>2. QED BY <3>1, Zenon
  <2>3. QED BY <2>1, <2>2 DEF SameAccount, Live
<1>4. CASE \E a \in Assets : Verify(a) \/ Reject(a)
  <2>1. ASSUME NEW a \in Assets, Verify(a)  PROVE SameAccount
    BY <2>1 DEF Verify, SameAccount, Live, TypeOK, RecordsOK
  <2>2. QED BY <1>4, <2>1, RejectGivesUp
<1>5. CASE UNCHANGED vars \/ \E d \in Docs : Age(d)
  BY <1>5 DEF vars, Age, SameAccount, Live
<1>6. QED BY <1>1, <1>2, <1>3, <1>4, <1>5 DEF Next

\* Giving up files takes exactly their bytes off the counter.
LEMMA GivesUpBytes ==
  ASSUME Accounted, NEW A \in SUBSET Assets, GivesUp(A)
  PROVE  LET live == {a \in A : Live(a)}
         IN  /\ Held' = [a \in Assets |-> IF a \in live THEN 0 ELSE Held[a]]
             /\ IsFiniteSet(Bytes(Held')) /\ used' = TotalBytes(Held') /\ used' \in Nat
             /\ used' = used - TotalBytes([a \in live |-> Held[a]])
<1> DEFINE live == {a \in A : Live(a)}
           part == [a \in live |-> Held[a]]
           rest == [a \in Assets |-> IF a \in live THEN 0 ELSE Held[a]]
<1>1. Held \in [Assets -> Nat] /\ IsFiniteSet(Bytes(Held)) /\ used = TotalBytes(Held)
  BY HeldType DEF Accounted, StorageConserved
<1>2. live \in SUBSET Assets
  OBVIOUS
<1>3. /\ IsFiniteSet(Bytes(rest)) /\ TotalBytes(Held) = TotalBytes(part) + TotalBytes(rest)
      /\ TotalBytes(part) \in Nat /\ TotalBytes(rest) \in Nat
  <2> HIDE DEF live
  <2>1. \A h \in [Assets -> Nat] : IsFiniteSet(Bytes(h)) =>
          /\ IsFiniteSet(Bytes([a \in Assets |-> IF a \in live THEN 0 ELSE h[a]]))
          /\ TotalBytes(h) = TotalBytes([a \in live |-> h[a]])
                              + TotalBytes([a \in Assets |-> IF a \in live THEN 0 ELSE h[a]])
          /\ TotalBytes([a \in live |-> h[a]]) \in Nat
          /\ TotalBytes([a \in Assets |-> IF a \in live THEN 0 ELSE h[a]]) \in Nat
    BY <1>2, SplitBytes
  <2>2. QED BY <1>1, <2>1
<1>4. Held' = rest
  BY DEF GivesUp, Held
<1>5. Sizes(live) = part
  BY DEF Sizes, Held
<1>6. used' = IF used < TotalBytes(part) THEN 0 ELSE used - TotalBytes(part)
  BY <1>5 DEF GivesUp, Refunded
<1> HIDE DEF part, rest
<1>7. used' = TotalBytes(rest) /\ used' = used - TotalBytes(part)
  BY <1>1, <1>3, <1>6
<1>8. QED BY <1>3, <1>4, <1>7 DEF part, rest

\* Charging and giving up move the counter and the live files together.
LEMMA AccountedStep == Accounted /\ [Next]_vars => Accounted'
<1> SUFFICES ASSUME Accounted, [Next]_vars  PROVE Accounted'
  OBVIOUS
<1>1. Typed'
  BY TypedStep DEF Accounted
<1>2. Held \in [Assets -> Nat] /\ IsFiniteSet(Bytes(Held)) /\ used = TotalBytes(Held) /\ used \in Nat
  BY HeldType DEF Accounted, StorageConserved, TypeOK
<1>3. used' \in Nat /\ IsFiniteSet(Bytes(Held')) /\ used' = TotalBytes(Held')
  <2>1. CASE SameAccount
    <3>1. Held' = Held
      BY <2>1 DEF SameAccount, Held
    <3>2. QED BY <1>2, <2>1, <3>1 DEF SameAccount
  <2>2. CASE Registers
    <3>1. PICK a \in Assets : /\ Held[a] = 0 /\ used' = used + Size[a]
                              /\ Held' = [Held EXCEPT ![a] = Size[a]]
      BY <2>2, RegisterCharges DEF Registers, Accounted
    <3>2. Size[a] \in Nat
      OBVIOUS
    <3>3. IsFiniteSet(Bytes(Held')) /\ TotalBytes(Held') = TotalBytes(Held) + Size[a]
      BY <1>2, <3>1, <3>2, ChargeTotal
    <3>4. QED BY <1>2, <3>1, <3>2, <3>3
  <2>3. CASE \E A \in SUBSET Assets : GivesUp(A)
    BY <2>3, GivesUpBytes
  <2>4. QED BY <2>1, <2>2, <2>3, AccountStep DEF Accounted
<1>4. QED BY <1>1, <1>3 DEF Accounted, Typed, TypeOK, StorageConserved, TotalBytes

\* The accounting invariant of every run.
THEOREM AlwaysAccounted == Spec => []Accounted
<1>1. QED BY InitAccounted, AccountedStep, PTL DEF Spec

\* Every variable has its type, and what a transaction read of the files it deletes is true when it
\* commits.
THEOREM TypeCorrect == Spec => []TypeOK
<1>1. Accounted => TypeOK
  BY DEF Accounted
<1>2. QED BY <1>1, AlwaysAccounted, PTL

\* Purges, rejections and uploads that race keep the owner's counter equal to the bytes of the live
\* files: no file is refunded twice and none is forgotten.
THEOREM StorageIsConserved == Spec => []StorageConserved
<1>1. Accounted => StorageConserved
  BY DEF Accounted
<1>2. QED BY <1>1, AlwaysAccounted, PTL

-----------------------------------------------------------------------------
\* The ledger starts empty.
LEMMA InitImplements == Init => Ledger!Init
BY DEF Init, Ledger!Init, Held, Live

\* The ledger counts bytes as this module does.
LEMMA SameTotal ==
  ASSUME NEW h
  PROVE  Ledger!TotalBytes(h) = TotalBytes(h)
BY DEF Ledger!TotalBytes, TotalBytes, Ledger!Bytes, Bytes, Ledger!Cardinality, Cardinality

\* Every step is a charge, a refund of the files that went, or a stutter of the ledger.
LEMMA StepImplements == Accounted /\ [Next]_vars => [Ledger!Next]_(Ledger!vars)
<1> SUFFICES ASSUME Accounted, [Next]_vars  PROVE [Ledger!Next]_(Ledger!vars)
  OBVIOUS
<1>1. CASE SameAccount
  <2>1. Held' = Held
    BY <1>1 DEF SameAccount, Held
  <2>2. QED BY <1>1, <2>1 DEF SameAccount, Ledger!vars
<1>2. CASE Registers
  <2>1. PICK a \in Assets : /\ Held[a] = 0 /\ used + Size[a] <= Limit /\ used' = used + Size[a]
                            /\ Held' = [Held EXCEPT ![a] = Size[a]]
    BY <1>2, RegisterCharges DEF Registers, Accounted
  <2>2. Size[a] \in 1 .. Limit
    BY <2>1 DEF Accounted, TypeOK
  <2>3. Ledger!Charge(a, Size[a])
    BY <2>1 DEF Ledger!Charge
  <2>4. QED BY <2>2, <2>3 DEF Ledger!Next
<1>3. CASE \E A \in SUBSET Assets : GivesUp(A)
  <2>1. PICK A \in SUBSET Assets : GivesUp(A)
    BY <1>3
  <2> DEFINE live == {a \in A : Live(a)}
  <2>2. /\ Held' = [a \in Assets |-> IF a \in live THEN 0 ELSE Held[a]]
        /\ used' = used - TotalBytes([a \in live |-> Held[a]])
        /\ used' = TotalBytes(Held')
    BY <2>1, GivesUpBytes
  <2>3. CASE live = {}
    <3>1. Held' = Held
      BY <2>2, <2>3 DEF Held
    <3>2. used' = used
      BY <2>2, <3>1 DEF Accounted, StorageConserved
    <3>3. QED BY <3>1, <3>2 DEF Ledger!vars
  <2>4. CASE live # {}
    <3>1. live \subseteq Assets /\ \A a \in live : Held[a] > 0
      BY DEF Held
    <3>2. used' = used - Ledger!TotalBytes([a \in live |-> Held[a]])
      BY <2>2, SameTotal
    <3> HIDE DEF live
    <3>3. Ledger!Refund(live)
      BY <2>2, <2>4, <3>1, <3>2 DEF Ledger!Refund
    <3>4. QED BY <3>1, <3>3 DEF Ledger!Next
  <2>5. QED BY <2>3, <2>4
<1>4. QED BY <1>1, <1>2, <1>3, AccountStep DEF Accounted

\* The trash implements the account's ledger: the files a purge deletes are refunded together, once,
\* and only if they were still charged.
THEOREM ImplementsLedger == Spec => LedgerSpec
<1>1. QED BY InitImplements, StepImplements, AlwaysAccounted, PTL DEF Spec, LedgerSpec, Ledger!Spec

-----------------------------------------------------------------------------
\* Objects outlive the records that need them.

\* Every live file has its object; the worker and the purges only remove those of the others.
Backed == TypeOK /\ \A a \in Assets : Live(a) => a \in object

\* Objects are removed for rejected files and for files whose record is gone.
LEMMA BackedStep == Backed /\ TypeOK' /\ [Next]_vars => Backed'
<1> SUFFICES ASSUME Backed, TypeOK', [Next]_vars  PROVE \A a \in Assets : Live(a)' => a \in object'
  BY DEF Backed
<1>1. CASE UNCHANGED <<assets, object>>
  BY <1>1 DEF Backed, Live
<1>2. CASE Registers
  BY <1>2 DEF Backed, Registers, Register, Live, TypeOK, RecordsOK
<1>3. CASE \E a \in Assets : Verify(a) \/ Reject(a)
  BY <1>3 DEF Backed, Verify, Reject, Live, TypeOK, RecordsOK
<1>4. CASE \E p \in Procs, d \in Docs : Insert(p, d)
  <2>1. UNCHANGED object /\ \A a \in Assets : assets'[a].status = assets[a].status
    BY <1>4 DEF Insert, TypeOK, RecordsOK, Backed
  <2>2. QED BY <2>1 DEF Backed, Live
<1>5. CASE \E p \in Procs : Commit(p)
  <2>1. UNCHANGED object /\ \A a \in Assets : Live(a)' => Live(a)
    BY <1>5, CommitGivesUp DEF Commit, GivesUp, Backed
  <2>2. QED BY <2>1 DEF Backed
<1>6. CASE \E p \in Procs, a \in Assets : RemoveObject(p, a)
  <2>1. PICK p \in Procs, a \in Assets : RemoveObject(p, a)
    BY <1>6
  <2>2. assets[a].status = "gone" /\ UNCHANGED assets
    BY <2>1 DEF RemoveObject, Backed, TypeOK, RequestOK
  <2>3. QED BY <2>1, <2>2 DEF RemoveObject, Backed, Live
<1>7. \/ UNCHANGED <<assets, object>>
      \/ Registers
      \/ \E a \in Assets : Verify(a) \/ Reject(a)
      \/ \E p \in Procs, d \in Docs : Insert(p, d)
      \/ \E p \in Procs : Commit(p)
      \/ \E p \in Procs, a \in Assets : RemoveObject(p, a)
  <2>1. CASE \E p \in Procs : FileStep(p)
    BY <2>1 DEF FileStep, CompleteCheck, Registers, RegisterOwned, RegisterUnowned, RegisterFetched,
                Backed, TypeOK, RecordsOK, Requests
  <2>2. CASE \E p \in Procs : DocStep(p)
    BY <2>2 DEF DocStep, CreateRead, DuplicateRead, TrashDoc, RestoreDoc, SetStatus
  <2>3. CASE \E p \in Procs : PurgeStep(p) \/ Crash(p)
    BY <2>3 DEF PurgeStep, PurgeCheck, SweepFind, Snapshot, Conflict, Crash
  <2>4. CASE (\E a \in Assets : Verify(a) \/ Reject(a)) \/ (\E d \in Docs : Age(d)) \/ UNCHANGED vars
    BY <2>4 DEF Age, vars
  <2>5. QED BY <2>1, <2>2, <2>3, <2>4 DEF Next
<1>8. QED BY <1>1, <1>2, <1>3, <1>4, <1>5, <1>6, <1>7

\* A file somebody may open is never missing from S3, although purges and rejections remove objects
\* outside their transactions and die in between.
THEOREM ReadyFilesExist == Spec => []ReadyHasFile
<1>1. Init => Backed
  BY InitAccounted DEF Init, Accounted, Backed, Live
<1>2. Backed => ReadyHasFile
  BY DEF Backed, ReadyHasFile, Live
<1>3. QED BY <1>1, <1>2, BackedStep, TypeCorrect, PTL DEF Spec

-----------------------------------------------------------------------------
\* One request at a time: what the request read is still so when it writes, although the worker
\* judges files and documents grow old meanwhile.

OneAtATime == \A p, q \in Procs : p = q

\* What the request p read still holds.
StillSo(p) ==
  /\ req[p].at = "register" => \A d \in req[p].docs : Exists(d)
  /\ req[p].at \in {"create", "duplicate"} => \A a \in req[p].uses : Stored(a)
  /\ req[p].at \in {"snapshot", "commit"} => \A d \in req[p].docs : InTrash(d)
  /\ req[p].at = "commit" =>
       /\ \A d \in Docs \ req[p].docs : Exists(d) => req[p].doomed \cap docs[d].uses = {}
       /\ \A a \in Assets : Stored(a) /\ assets[a].doc \in req[p].docs => a \in req[p].owned

\* The inductive invariant behind NoDanglingFile and OwnerExists.
Solo == TypeOK /\ NoDanglingFile /\ OwnerExists /\ \A p \in Procs : StillSo(p)

\* A step of the only request that keeps the records right leaves that request's memory to check.
LEMMA SoloRequest ==
  ASSUME OneAtATime, Solo, NEW p \in Procs, NEW r, req' = [req EXCEPT ![p] = r],
         NoDanglingFile', OwnerExists', TypeOK', req'[p] = r => StillSo(p)'
  PROVE  Solo'
<1>1. \A q \in Procs : q = p
  BY DEF OneAtATime
<1>2. req'[p] = r
  BY DEF Solo, TypeOK, RecordsOK
<1>3. QED BY <1>1, <1>2 DEF Solo

\* A step that changes no record leaves the request's memory to check.
LEMMA SoloRead ==
  ASSUME OneAtATime, Solo, TypeOK', NEW p \in Procs, UNCHANGED <<docs, assets>>,
         NEW r, req' = [req EXCEPT ![p] = r], req'[p] = r => StillSo(p)'
  PROVE  Solo'
<1>1. NoDanglingFile' /\ OwnerExists'
  BY DEF Solo, NoDanglingFile, OwnerExists, Exists, Stored
<1>2. QED BY <1>1, SoloRequest

\* The document an upload is completed into is there.
LEMMA SoloCompleteCheck ==
  ASSUME OneAtATime, Solo, TypeOK', NEW p \in Procs, NEW d \in Docs, CompleteCheck(p, d)
  PROVE  Solo'
<1> DEFINE r == [Idle EXCEPT !.at = "register", !.docs = {d}]
<1>1. r.at = "register" /\ r.docs = {d}
  BY DEF Idle
<1>2. req' = [req EXCEPT ![p] = r] /\ UNCHANGED <<docs, assets>> /\ Exists(d)'
  BY DEF CompleteCheck, Exists
<1> HIDE DEF r
<1>3. req'[p] = r => StillSo(p)'
  BY <1>1, <1>2 DEF StillSo
<1>4. QED BY <1>2, <1>3, SoloRead

\* The files of a new document are stored.
LEMMA SoloCreateRead ==
  ASSUME OneAtATime, Solo, TypeOK', NEW p \in Procs, NEW A \in SUBSET Assets, CreateRead(p, A)
  PROVE  Solo'
<1> DEFINE r == [Idle EXCEPT !.at = "create", !.uses = A]
<1>1. r.at = "create" /\ r.uses = A
  BY DEF Idle
<1>2. req' = [req EXCEPT ![p] = r] /\ UNCHANGED <<docs, assets>> /\ \A a \in A : Stored(a)'
  BY DEF CreateRead, Stored
<1> HIDE DEF r
<1>3. req'[p] = r => StillSo(p)'
  BY <1>1, <1>2 DEF StillSo
<1>4. QED BY <1>2, <1>3, SoloRead

\* So are those of the document that is copied.
LEMMA SoloDuplicateRead ==
  ASSUME OneAtATime, Solo, TypeOK', NEW p \in Procs, NEW d \in Docs, DuplicateRead(p, d)
  PROVE  Solo'
<1> DEFINE r == [Idle EXCEPT !.at = "duplicate", !.uses = docs[d].uses]
<1>1. r.at = "duplicate" /\ r.uses = docs[d].uses
  BY DEF Idle
<1>2. req' = [req EXCEPT ![p] = r] /\ UNCHANGED <<docs, assets>> /\ docs[d].status = "live"
  BY DEF DuplicateRead
<1> HIDE DEF r
<1>3. \A a \in docs[d].uses : Stored(a)'
  BY <1>2 DEF Solo, NoDanglingFile, Exists, Stored
<1>4. req'[p] = r => StillSo(p)'
  BY <1>1, <1>3 DEF StillSo
<1>5. QED BY <1>2, <1>4, SoloRead

\* A purge has documents that are in the trash.
ToPurge(D) == [Idle EXCEPT !.at = "snapshot", !.docs = D]
LEMMA SoloToPurge ==
  ASSUME OneAtATime, Solo, TypeOK', NEW p \in Procs, NEW D, \A d \in D : InTrash(d),
         req' = [req EXCEPT ![p] = ToPurge(D)], UNCHANGED <<docs, assets>>
  PROVE  Solo'
<1>1. ToPurge(D).at = "snapshot" /\ ToPurge(D).docs = D
  BY DEF ToPurge, Idle
<1>2. req'[p] = ToPurge(D) => StillSo(p)'
  BY <1>1 DEF StillSo, InTrash
<1>3. QED BY <1>2, SoloRead

\* "Delete forever" and the daily purge both look.
LEMMA SoloPurgeCheck ==
  ASSUME OneAtATime, Solo, TypeOK', NEW p \in Procs, NEW D \in SUBSET Docs,
         PurgeCheck(p, D) \/ SweepFind(p, D)
  PROVE  Solo'
<1>1. \A d \in D : InTrash(d)
  BY DEF PurgeCheck, SweepFind, InTrash
<1>2. req' = [req EXCEPT ![p] = ToPurge(D)] /\ UNCHANGED <<docs, assets>>
  BY DEF PurgeCheck, SweepFind, ToPurge
<1>3. QED BY <1>1, <1>2, SoloToPurge

\* A transaction that runs again has the documents it had.
LEMMA SoloConflict ==
  ASSUME OneAtATime, Solo, TypeOK', NEW p \in Procs, Conflict(p)
  PROVE  Solo'
<1>1. \A d \in req[p].docs : InTrash(d)
  BY DEF Conflict, Solo, StillSo
<1>2. req' = [req EXCEPT ![p] = ToPurge(req[p].docs)] /\ UNCHANGED <<docs, assets>>
  BY DEF Conflict, ToPurge
<1>3. QED BY <1>1, <1>2, SoloToPurge

\* The snapshot has every file that would be left without a document, and dooms none another uses.
LEMMA SoloSnapshot ==
  ASSUME OneAtATime, Solo, TypeOK', NEW p \in Procs, Snapshot(p)
  PROVE  Solo'
<1> DEFINE D == req[p].docs
           r == [req[p] EXCEPT !.at = "commit", !.docs = {d \in D : Exists(d)},
                               !.owned = OwnedBy(D), !.doomed = OnlyUsedBy(D),
                               !.refund = Charged(OnlyUsedBy(D))]
<1>1. req' = [req EXCEPT ![p] = r] /\ UNCHANGED <<docs, assets>>
  BY DEF Snapshot
<1>2. req[p] \in Requests /\ \A d \in D : InTrash(d)
  BY DEF Snapshot, Solo, StillSo, TypeOK, RecordsOK
<1>3. {d \in D : Exists(d)} = D
  BY <1>2 DEF InTrash, Exists
<1>4. r.at = "commit" /\ r.docs = D /\ r.owned = OwnedBy(D) /\ r.doomed = OnlyUsedBy(D)
  BY <1>2, <1>3 DEF Requests
<1>5. ASSUME NEW d \in Docs \ D, Exists(d)  PROVE OnlyUsedBy(D) \cap docs[d].uses = {}
  <2>1. docs[d].uses \subseteq UsedBy(Docs \ D)
    BY <1>5 DEF UsedBy
  <2>2. OnlyUsedBy(D) \cap UsedBy(Docs \ D) = {}
    BY DEF OnlyUsedBy
  <2>3. QED BY <2>1, <2>2
<1>6. \A a \in Assets : Stored(a) /\ assets[a].doc \in D => a \in OwnedBy(D)
  BY DEF OwnedBy
<1> HIDE DEF D, r
<1>7. /\ \A d \in D : InTrash(d)'
      /\ \A d \in Docs \ D : Exists(d)' => OnlyUsedBy(D) \cap docs'[d].uses = {}
      /\ \A a \in Assets : Stored(a)' /\ assets'[a].doc \in D => a \in OwnedBy(D)
  BY <1>1, <1>2, <1>5, <1>6 DEF InTrash, Exists, Stored
<1>8. req'[p] = r => StillSo(p)'
  BY <1>4, <1>7 DEF StillSo
<1>9. QED BY <1>1, <1>8, SoloRead

\* A request that dies has nothing to remember.
LEMMA SoloCrash ==
  ASSUME OneAtATime, Solo, TypeOK', NEW p \in Procs, Crash(p)
  PROVE  Solo'
<1>1. req' = [req EXCEPT ![p] = Idle] /\ UNCHANGED <<docs, assets>>
  BY DEF Crash
<1>2. req'[p] = Idle => StillSo(p)'
  BY DEF StillSo, Idle
<1>3. QED BY <1>1, <1>2, SoloRead

\* Nor has one that goes on removing objects.
LEMMA SoloRemoveObject ==
  ASSUME OneAtATime, Solo, TypeOK', NEW p \in Procs, NEW a \in Assets, RemoveObject(p, a)
  PROVE  Solo'
<1> DEFINE A == req[p].doomed \ {a}
<1>1. A \in SUBSET Assets
  BY DEF Solo, TypeOK, RecordsOK, Requests
<1>2. req' = [req EXCEPT ![p] = Removing(A)] /\ UNCHANGED <<docs, assets>>
  BY DEF RemoveObject
<1> HIDE DEF A
<1>3. Removing(A).at \in {"idle", "remove"}
  BY <1>1, Remover DEF Idle
<1>4. req'[p] = Removing(A) => StillSo(p)'
  BY <1>3 DEF StillSo
<1>5. QED BY <1>2, <1>4, SoloRead

\* The worker's verdicts and the days that pass change nothing the request has read.
LEMMA SoloAround ==
  ASSUME Solo, TypeOK', (\E a \in Assets : Verify(a) \/ Reject(a)) \/ \E d \in Docs : Age(d)
  PROVE  Solo'
<1>1. /\ UNCHANGED req
      /\ \A d \in Docs : /\ docs'[d].uses = docs[d].uses /\ Exists(d)' = Exists(d)
                         /\ InTrash(d) => InTrash(d)'
      /\ \A a \in Assets : Stored(a)' = Stored(a) /\ assets'[a].doc = assets[a].doc
  <2>1. CASE \E a \in Assets : Verify(a) \/ Reject(a)
    BY <2>1 DEF Verify, Reject, Exists, InTrash, Stored, Solo, TypeOK, RecordsOK
  <2>2. CASE \E d \in Docs : Age(d)
    BY <2>2 DEF Age, Exists, InTrash, Stored, Solo, TypeOK, RecordsOK
  <2>3. QED BY <2>1, <2>2
<1>2. \A d \in Docs : docs[d].uses \subseteq Assets
  BY DEF Solo, TypeOK, RecordsOK
<1>3. NoDanglingFile'
  BY <1>1, <1>2 DEF Solo, NoDanglingFile
<1>4. OwnerExists'
  BY <1>1 DEF Solo, TypeOK, RecordsOK, OwnerExists
<1>5. ASSUME NEW q \in Procs  PROVE StillSo(q)'
  <2>1. StillSo(q) /\ req[q].docs \subseteq Docs /\ req[q].uses \subseteq Assets /\ req'[q] = req[q]
    BY <1>1 DEF Solo, TypeOK, RecordsOK, Requests
  <2>2. QED BY <1>1, <2>1 DEF StillSo
<1>6. QED BY <1>3, <1>4, <1>5 DEF Solo

\* Trashing and restoring is one step of a request that has read nothing, and the only one.
LEMMA SoloStatus ==
  ASSUME OneAtATime, Solo, TypeOK', NEW p \in Procs, NEW d \in Docs, TrashDoc(p, d) \/ RestoreDoc(p, d)
  PROVE  Solo'
<1>1. /\ req[p] = Idle /\ UNCHANGED <<req, assets>>
      /\ \A e \in Docs : docs'[e].uses = docs[e].uses /\ Exists(e)' = Exists(e)
  BY DEF TrashDoc, RestoreDoc, SetStatus, InTrash, Exists, Solo, TypeOK, RecordsOK
<1>2. NoDanglingFile' /\ OwnerExists'
  BY <1>1 DEF Solo, TypeOK, RecordsOK, NoDanglingFile, OwnerExists, Stored
<1>3. \A q \in Procs : req'[q].at = "idle"
  BY <1>1 DEF OneAtATime, Idle
<1>4. QED BY <1>2, <1>3 DEF Solo, StillSo

\* A file arrives: its document was there when the upload was checked, and nobody deleted it since.
LEMMA SoloRegister ==
  ASSUME OneAtATime, Solo, TypeOK', NEW p \in Procs, NEW a \in Assets,
         RegisterOwned(p, a) \/ RegisterUnowned(p, a) \/ RegisterFetched(p, a)
  PROVE  Solo'
<1>1. PICK d \in Docs \cup {None}, status \in {"verifying", "ready"} :
        Register(p, a, d, status) /\ (d # None => d \in Docs /\ Exists(d))
  BY DEF RegisterOwned, RegisterUnowned, RegisterFetched, Solo, StillSo, TypeOK, RecordsOK, Requests
<1>2. /\ UNCHANGED docs /\ req' = [req EXCEPT ![p] = Idle]
      /\ \A b \in Assets : /\ Stored(b) => Stored(b)'
                           /\ b # a => Stored(b)' = Stored(b) /\ assets'[b] = assets[b]
      /\ assets'[a].doc = d
  BY <1>1 DEF Register, Stored, Solo, TypeOK, RecordsOK
<1>3. NoDanglingFile'
  BY <1>2 DEF Solo, NoDanglingFile, Exists, TypeOK, RecordsOK
<1>4. OwnerExists'
  BY <1>1, <1>2 DEF Solo, OwnerExists, Exists
<1>5. req'[p] = Idle => StillSo(p)'
  BY DEF StillSo, Idle
<1>6. QED BY <1>2, <1>3, <1>4, <1>5, SoloRequest

\* A document is inserted: the files it was given are still stored.
LEMMA SoloInsert ==
  ASSUME OneAtATime, Solo, TypeOK', NEW p \in Procs, NEW d \in Docs, Insert(p, d)
  PROVE  Solo'
<1>1. \A a \in req[p].uses : Stored(a)
  BY DEF Insert, Solo, StillSo
<1>2. /\ req' = [req EXCEPT ![p] = Idle]
      /\ docs'[d].uses = req[p].uses /\ docs'[d].status = "live"
      /\ \A e \in Docs \ {d} : docs'[e] = docs[e]
      /\ \A a \in Assets : /\ Stored(a)' = Stored(a)
                           /\ assets'[a].doc = d \/ assets'[a].doc = assets[a].doc
  BY DEF Insert, Stored, Solo, TypeOK, RecordsOK
<1>3. req[p].uses \subseteq Assets /\ \A e \in Docs : docs[e].uses \subseteq Assets
  BY DEF Solo, TypeOK, RecordsOK, Requests
<1>4. \A e \in Docs : Exists(e) => Exists(e)'
  BY <1>2 DEF Exists
<1>5. NoDanglingFile'
  BY <1>1, <1>2, <1>3 DEF Solo, NoDanglingFile, Exists
<1>6. OwnerExists'
  <2>1. ASSUME NEW a \in Assets, Stored(a)', assets'[a].doc # None  PROVE Exists(assets[a].doc)'
    <3>1. CASE assets'[a].doc = d
      BY <1>2, <3>1 DEF Exists
    <3>2. CASE assets'[a].doc = assets[a].doc
      BY <1>2, <1>4, <2>1, <3>2 DEF Solo, OwnerExists, TypeOK, RecordsOK
    <3>3. QED BY <1>2, <3>1, <3>2
  <2>2. QED BY <2>1 DEF OwnerExists
<1>7. req'[p] = Idle => StillSo(p)'
  BY DEF StillSo, Idle
<1>8. QED BY <1>2, <1>5, <1>6, <1>7, SoloRequest

\* The cascade: no document that stays uses a file that goes, and no file that stays belongs to a
\* document that goes.
LEMMA SoloCommit ==
  ASSUME OneAtATime, Solo, TypeOK', NEW p \in Procs, Commit(p)
  PROVE  Solo'
<1>1. /\ req[p].at = "commit" /\ StillSo(p) /\ req[p] \in Requests
      /\ req' = [req EXCEPT ![p] = Removing(req[p].doomed)]
  BY DEF Commit, Solo, TypeOK, RecordsOK
<1>2. /\ \A d \in Docs \ req[p].docs : docs'[d] = docs[d]
      /\ \A d \in req[p].docs : ~ Exists(d)'
      /\ \A a \in Assets : /\ Stored(a)' = (Stored(a) /\ a \notin req[p].doomed)
                           /\ assets'[a].doc = IF a \in req[p].doomed \cup req[p].owned THEN None
                                               ELSE assets[a].doc
  BY <1>1 DEF Commit, AssetsAfter, Stored, Exists, Solo, TypeOK, RecordsOK, Requests
<1>3. NoDanglingFile'
  <2>1. ASSUME NEW d \in Docs, Exists(d)', NEW a \in docs'[d].uses  PROVE Stored(a)'
    <3>1. d \notin req[p].docs /\ docs'[d] = docs[d] /\ Exists(d) /\ a \in docs[d].uses
      BY <1>2, <2>1 DEF Exists
    <3>2. a \in Assets /\ Stored(a)
      BY <3>1 DEF Solo, NoDanglingFile, TypeOK, RecordsOK
    <3>3. a \notin req[p].doomed
      BY <1>1, <3>1 DEF StillSo
    <3>4. QED BY <1>2, <3>2, <3>3
  <2>2. QED BY <2>1 DEF NoDanglingFile
<1>4. OwnerExists'
  <2>1. ASSUME NEW a \in Assets, Stored(a)', assets'[a].doc # None  PROVE Exists(assets[a].doc)'
    <3>1. /\ Stored(a) /\ a \notin req[p].owned /\ assets'[a].doc = assets[a].doc
          /\ assets[a].doc # None
      BY <1>2, <2>1
    <3>2. assets[a].doc \in Docs \ req[p].docs /\ Exists(assets[a].doc)
      BY <1>1, <3>1 DEF StillSo, Solo, OwnerExists, TypeOK, RecordsOK
    <3>3. QED BY <1>2, <3>1, <3>2 DEF Exists
  <2>2. QED BY <2>1 DEF OwnerExists
<1>5. Removing(req[p].doomed).at \in {"idle", "remove"}
  BY <1>1, Remover DEF Idle, Requests
<1>6. req'[p] = Removing(req[p].doomed) => StillSo(p)'
  BY <1>5 DEF StillSo
<1>7. QED BY <1>1, <1>3, <1>4, <1>6, SoloRequest

\* The inductive step.
LEMMA SoloStep == OneAtATime /\ Solo /\ TypeOK' /\ [Next]_vars => Solo'
<1> SUFFICES ASSUME OneAtATime, Solo, TypeOK', [Next]_vars  PROVE Solo'
  OBVIOUS
<1>1. ASSUME NEW p \in Procs, FileStep(p)  PROVE Solo'
  BY <1>1, SoloCompleteCheck, SoloRegister DEF FileStep
<1>2. ASSUME NEW p \in Procs, DocStep(p)  PROVE Solo'
  BY <1>2, SoloCreateRead, SoloDuplicateRead, SoloInsert, SoloStatus DEF DocStep
<1>3. ASSUME NEW p \in Procs, PurgeStep(p) \/ Crash(p)  PROVE Solo'
  BY <1>3, SoloPurgeCheck, SoloConflict, SoloSnapshot, SoloCommit, SoloCrash,
     SoloRemoveObject DEF PurgeStep
<1>4. CASE UNCHANGED vars
  BY <1>4 DEF vars, Solo, NoDanglingFile, OwnerExists, StillSo, Exists, Stored, InTrash
<1>5. QED BY <1>1, <1>2, <1>3, <1>4, SoloAround DEF Next

\* With one request at a time, every step of a behaviour starts from records that agree.
THEOREM AlwaysSolo == ASSUME OneAtATime PROVE Spec => []Solo
<1>1. Init => Solo
  BY InitAccounted DEF Init, Accounted, Solo, NoDanglingFile, OwnerExists, StillSo, Idle, Exists, Stored
<1>2. Solo /\ TypeOK' /\ [Next]_vars => Solo'
  BY SoloStep
<1>3. QED BY <1>1, <1>2, TypeCorrect, PTL DEF Spec

\* With one request or purge at a time, a document's files stay stored for as long as it exists, in the
\* trash too: a file that several documents use goes with the last of them.
THEOREM FilesStay == ASSUME OneAtATime PROVE Spec => []NoDanglingFile
<1>1. Solo => NoDanglingFile
  BY DEF Solo
<1>2. QED BY <1>1, AlwaysSolo, PTL

\* With one request or purge at a time, no file belongs to a document that is gone.
THEOREM OwnersStay == ASSUME OneAtATime PROVE Spec => []OwnerExists
<1>1. Solo => OwnerExists
  BY DEF Solo
<1>2. QED BY <1>1, AlwaysSolo, PTL
=============================================================================
