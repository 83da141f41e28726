---------------------------- MODULE RecordsProofs ---------------------------
(***************************************************************************)
(* Theorems about records.  The pages of a document, for any pages, order  *)
(* keys and number of requests at once: a document's pageCount is the      *)
(* number of its live pages, and no request is given two neighbours out of *)
(* order.  Tags, for any tags and documents: one request at a time leaves  *)
(* no tag dangling, and any number of changes touch their own tags only.   *)
(* Workspaces, for any users and spaces: owners belong to them.            *)
(* Views, for any documents, keys, page and batch sizes: what does not     *)
(* change is listed once and in its place.                                 *)
(* Migrations, for any runs and documents: what is recorded is in force.   *)
(* The browser, for any documents, folders, names and calls: what it shows *)
(* of the library and its sidebar is what the server has.                  *)
(***************************************************************************)
EXTENDS MCRecords, FiniteSetTheorems, SequenceTheorems, WellFoundedInduction, TLAPS

-----------------------------------------------------------------------------
\* The pages of a document.

PageRecords == [status : {"none", "live", "deleted"}, key : 0..Top, locked : BOOLEAN]
Requests == [at : {"idle", "insert", "move", "write", "remove"},
             page : PageIds \cup {None}, key : 0..Top, fault : BOOLEAN]

\* A request that has its page to write or remove is one for a page.
IInv == /\ TypeOK
        /\ KeysNeverCollide
        /\ IsFiniteSet(LivePages)
        /\ CountMatches
        /\ \A p \in Procs : req[p].at = "remove" => req[p].page # None

LEMMA TypeParts == TypeOK <=> /\ page \in [PageIds -> PageRecords]
                              /\ doc \in [there : BOOLEAN, pageCount : Int]
                              /\ req \in [Procs -> Requests]
  BY DEF TypeOK, PageRecords, Requests

-----------------------------------------------------------------------------
\* Order keys.

\* A set of naturals has a least element.
LEMMA Least == ASSUME NEW X \in SUBSET Nat, X # {} PROVE \E x \in X : \A y \in X : x <= y
<1>1. IsWellFoundedOn(OpToRel(<, Nat), Nat)
  BY NatLessThanWellFounded
<1>2. PICK x \in X : \A y \in X : ~(<<y, x>> \in OpToRel(<, Nat))
  BY <1>1, WFMin
<1>3. ASSUME NEW y \in X PROVE x <= y
  <2>1. y < x => <<y, x>> \in OpToRel(<, Nat)
    BY DEF OpToRel
  <2>2. ~(y < x)
    BY <1>2, <1>3, <2>1, Zenon
  <2> QED
    BY <1>3, <2>2
<1> QED
  BY <1>3

\* Pages have a first one in compareByOrder's order.
LEMMA FirstInSet ==
  ASSUME TypeOK, NEW X \in SUBSET PageIds, X # {}
  PROVE FirstOf(X) \in X
<1>1. \A p \in X : page[p].key \in Nat
  BY TypeParts DEF PageRecords
<1> DEFINE keys == {page[p].key : p \in X}
<1>2. keys \in SUBSET Nat /\ keys # {}
  BY <1>1
<1>3. PICK k \in keys : \A j \in keys : k <= j
  BY <1>2, Least
<1> DEFINE firsts == {p \in X : page[p].key = k}
<1>4. firsts \in SUBSET Nat /\ firsts # {}
  BY <1>3, PageAssumption
<1>5. PICK p \in firsts : \A q \in firsts : p <= q
  BY <1>4, Least
<1>6. ASSUME NEW q \in X \ {p} PROVE Precedes(p, q)
  <2>1. CASE page[q].key = k
    <3>1. p <= q /\ p # q /\ p \in Nat /\ q \in Nat
      BY <1>5, <2>1, PageAssumption
    <3> QED
      BY <2>1, <3>1 DEF Precedes
  <2>2. CASE page[q].key # k
    <3>1. k <= page[q].key /\ page[q].key \in Nat /\ k \in Nat
      BY <1>1, <1>2, <1>3
    <3> QED
      BY <2>2, <3>1 DEF Precedes
  <2> QED
    BY <2>1, <2>2
<1> QED
  BY <1>5, <1>6 DEF FirstOf

\* The neighbour on the right has a greater key than the anchor.
LEMMA NextIsGreater ==
  ASSUME TypeOK, NEW others \in SUBSET PageIds, NEW anchor \in others \cup {None},
         NextKey(others, anchor) # None, anchor # None
  PROVE page[anchor].key < NextKey(others, anchor)
<1> DEFINE right == {q \in After(others, anchor) : anchor = None \/ page[q].key > page[anchor].key}
<1>1. right # {} /\ NextKey(others, anchor) = page[FirstOf(right)].key
  BY DEF NextKey
<1>2. right \in SUBSET PageIds
  BY DEF After
<1>3. FirstOf(right) \in right
  BY <1>1, <1>2, FirstInSet
<1>4. FirstOf(right) \in PageIds /\ page[FirstOf(right)].key > page[anchor].key
  BY <1>2, <1>3
<1>5. page[FirstOf(right)] \in PageRecords /\ page[anchor] \in PageRecords
  BY <1>4, TypeParts
<1>6. page[FirstOf(right)].key \in Int /\ page[anchor].key \in Int
  BY <1>5, KeyAssumption DEF PageRecords
<1> QED
  BY <1>1, <1>4, <1>6

\* What a request that has read the pages is going to write.
LEMMA PlacedIsSound ==
  ASSUME IInv, NEW p \in Procs, NEW others \in SUBSET PageIds, NEW anchor, Placed(p, others, anchor)
  PROVE /\ req' \in [Procs -> Requests]
        /\ ~req'[p].fault /\ req'[p].at = "write"
        /\ \A q \in Procs \ {p} : req'[q] = req[q]
<1>1. req \in [Procs -> Requests]
  BY TypeParts DEF IInv
<1> DEFINE key == KeyBetween(Before(anchor), NextKey(others, anchor))
           fault == OutOfOrder(Before(anchor), NextKey(others, anchor))
<1>2. /\ anchor = None \/ anchor \in others
      /\ Room(Before(anchor), NextKey(others, anchor))
      /\ req' = [req EXCEPT ![p].at = "write", ![p].key = key, ![p].fault = fault]
  BY DEF Placed
<1>3. key \in 0..Top
  BY <1>2 DEF Room
<1>4. fault = FALSE
  <2>1. CASE Before(anchor) = None \/ NextKey(others, anchor) = None
    BY <2>1 DEF OutOfOrder
  <2>2. CASE Before(anchor) # None /\ NextKey(others, anchor) # None
    <3>1. anchor # None /\ anchor \in others /\ Before(anchor) = page[anchor].key
      BY <1>2, <2>2 DEF Before
    <3>2. page[anchor].key < NextKey(others, anchor)
      BY <2>2, <3>1, NextIsGreater DEF IInv
    <3>3. page[anchor].key \in Int
      BY <3>1, TypeParts DEF IInv, PageRecords
    <3>4. NextKey(others, anchor) \in Int
      <4> DEFINE right == {q \in After(others, anchor) : anchor = None \/ page[q].key > page[anchor].key}
      <4>1. right # {} /\ NextKey(others, anchor) = page[FirstOf(right)].key
        BY <2>2 DEF NextKey
      <4>2. right \in SUBSET PageIds
        BY DEF After
      <4>3. FirstOf(right) \in PageIds
        BY <4>1, <4>2, FirstInSet DEF IInv
      <4> QED
        BY <4>1, <4>3, TypeParts DEF IInv, PageRecords
    <3> QED
      BY <3>1, <3>2, <3>3, <3>4 DEF OutOfOrder
  <2> QED
    BY <2>1, <2>2
<1> HIDE DEF key, fault
<1>5. [req[p] EXCEPT !.at = "write", !.key = key, !.fault = fault] \in Requests
  BY <1>1, <1>3, <1>4 DEF Requests
<1>6. req' = [req EXCEPT ![p] = [req[p] EXCEPT !.at = "write", !.key = key, !.fault = fault]]
  BY <1>1, <1>2 DEF Requests
<1>7. req'[p].fault = FALSE /\ req'[p].at = "write"
  BY <1>1, <1>4, <1>6 DEF Requests
<1> QED
  BY <1>1, <1>5, <1>6, <1>7

-----------------------------------------------------------------------------
\* The steps.

LEMMA IdleType == Idle \in Requests /\ Idle.at = "idle" /\ ~Idle.fault
<1>1. 0 \in 0..Top
  BY KeyAssumption
<1> QED
  BY <1>1 DEF Idle, Requests

LEMMA InitHolds == Init => IInv
<1> SUFFICES ASSUME Init PROVE IInv
  OBVIOUS
<1>1. Top \div 2 \in 0..Top /\ 0 \in 0..Top
  BY KeyAssumption
<1>2. TypeOK
  BY <1>1, PageAssumption DEF Init, TypeOK, NoPage, Idle
<1>3. LivePages = {First}
  BY PageAssumption DEF Init, LivePages, Live, NoPage
<1>4. IsFiniteSet(LivePages) /\ Cardinality(LivePages) = 1
  BY <1>3, FS_Singleton
<1>5. doc.pageCount = 1 /\ \A p \in Procs : req[p] = Idle
  BY DEF Init
<1> QED
  BY <1>2, <1>4, <1>5 DEF IInv, KeysNeverCollide, CountMatches, Idle

\* Ending a request leaves the rest as it was.
LEMMA FinishKeeps ==
  ASSUME IInv, NEW p \in Procs, Finish(p)
  PROVE /\ req' \in [Procs -> Requests]
        /\ KeysNeverCollide'
        /\ \A q \in Procs : req'[q].at = "remove" => req'[q].page # None
<1>1. req \in [Procs -> Requests] /\ Idle \in Requests
  BY TypeParts, IdleType DEF IInv
<1>2. \A q \in Procs : req'[q] = IF q = p THEN Idle ELSE req[q]
  BY <1>1 DEF Finish
<1> QED
  BY <1>1, <1>2 DEF Finish, IInv, KeysNeverCollide, Idle

\* A step that changes only what requests are doing.
LEMMA ReqOnly ==
  ASSUME IInv, UNCHANGED <<page, doc>>, req' \in [Procs -> Requests], KeysNeverCollide',
         \A q \in Procs : req'[q].at = "remove" => req'[q].page # None
  PROVE IInv'
<1>1. TypeOK'
  BY DEF IInv, TypeOK, Requests
<1>2. LivePages' = LivePages
  BY DEF LivePages, Live
<1> QED
  BY <1>1, <1>2 DEF IInv, CountMatches

\* A step that keeps which pages are live, and the document's count.
LEMMA LiveKept ==
  ASSUME IInv, page' \in [PageIds -> PageRecords], \A q \in PageIds : page'[q].status = page[q].status,
         doc' = doc, req' \in [Procs -> Requests], KeysNeverCollide',
         \A q \in Procs : req'[q].at = "remove" => req'[q].page # None
  PROVE IInv'
<1>1. TypeOK'
  BY DEF IInv, TypeOK, Requests, PageRecords
<1>2. LivePages' = LivePages
  BY DEF LivePages, Live
<1> QED
  BY <1>1, <1>2 DEF IInv, CountMatches

LEMMA InsertHolds == ASSUME IInv, NEW p \in Procs, InsertStep(p) PROVE IInv'
<1>1. /\ page \in [PageIds -> PageRecords] /\ doc \in [there : BOOLEAN, pageCount : Int]
      /\ req \in [Procs -> Requests]
  BY TypeParts DEF IInv
<1>2. CASE InsertAuthorize(p)
  <2>1. [Idle EXCEPT !.at = "insert"] \in Requests
    BY IdleType DEF Requests
  <2>2. req' = [req EXCEPT ![p] = [Idle EXCEPT !.at = "insert"]]
    BY <1>2 DEF InsertAuthorize
  <2>3. req' \in [Procs -> Requests] /\ \A q \in Procs : req'[q].at = "remove" => req'[q].page # None
    BY <1>1, <2>1, <2>2 DEF Idle, IInv
  <2>4. KeysNeverCollide'
    BY <1>1, <2>2 DEF Idle, IInv, KeysNeverCollide
  <2> QED
    BY <1>2, <2>3, <2>4, ReqOnly DEF InsertAuthorize
<1>3. ASSUME NEW anchor \in PageIds \cup {None}, InsertRead(p, anchor) PROVE IInv'
  <2>1. LivePages \in SUBSET PageIds
    BY DEF LivePages
  <2>2. /\ req' \in [Procs -> Requests]
        /\ ~req'[p].fault /\ req'[p].at = "write"
        /\ \A q \in Procs \ {p} : req'[q] = req[q]
    BY <1>3, <2>1, PlacedIsSound DEF InsertRead
  <2> QED
    BY <1>3, <2>2, ReqOnly DEF InsertRead, IInv, KeysNeverCollide
<1>4. ASSUME NEW new \in PageIds, InsertWrite(p, new) PROVE IInv'
  <2>1. /\ req' \in [Procs -> Requests] /\ KeysNeverCollide'
        /\ \A q \in Procs : req'[q].at = "remove" => req'[q].page # None
    BY <1>4, FinishKeeps DEF InsertWrite
  <2>2. [status |-> "live", key |-> req[p].key, locked |-> FALSE] \in PageRecords
    BY <1>1 DEF Requests, PageRecords
  <2>3. page' \in [PageIds -> PageRecords]
    BY <1>1, <1>4, <2>2 DEF InsertWrite
  <2>4. doc' \in [there : BOOLEAN, pageCount : Int]
    BY <1>1, <1>4 DEF InsertWrite
  <2>5. TypeOK'
    BY <2>1, <2>3, <2>4 DEF TypeOK, PageRecords, Requests
  <2>6. LivePages' = LivePages \cup {new} /\ new \notin LivePages
    BY <1>1, <1>4 DEF InsertWrite, LivePages, Live, NoPage
  <2>7. IsFiniteSet(LivePages') /\ Cardinality(LivePages') = Cardinality(LivePages) + 1
    BY <2>6, FS_AddElement DEF IInv
  <2>8. CountMatches'
    <3>1. doc'.there => doc.there /\ doc'.pageCount = doc.pageCount + 1
      BY <1>1, <1>4 DEF InsertWrite
    <3> QED
      BY <2>7, <3>1 DEF IInv, CountMatches
  <2> QED
    BY <2>1, <2>5, <2>7, <2>8 DEF IInv
<1> QED
  BY <1>2, <1>3, <1>4 DEF InsertStep

LEMMA MoveHolds == ASSUME IInv, NEW p \in Procs, MoveStep(p) PROVE IInv'
<1>1. /\ page \in [PageIds -> PageRecords] /\ doc \in [there : BOOLEAN, pageCount : Int]
      /\ req \in [Procs -> Requests]
  BY TypeParts DEF IInv
<1>2. ASSUME NEW q \in PageIds, NEW owner \in BOOLEAN, MoveAuthorize(p, q, owner) PROVE IInv'
  <2>1. [Idle EXCEPT !.at = "move", !.page = q] \in Requests
    BY IdleType DEF Requests
  <2>2. req' = [req EXCEPT ![p] = [Idle EXCEPT !.at = "move", !.page = q]]
    BY <1>1, <1>2 DEF MoveAuthorize, Requests
  <2>3. req' \in [Procs -> Requests] /\ \A r \in Procs : req'[r].at = "remove" => req'[r].page # None
    BY <1>1, <2>1, <2>2 DEF Idle, IInv
  <2>4. KeysNeverCollide'
    BY <1>1, <2>2 DEF Idle, IInv, KeysNeverCollide
  <2> QED
    BY <1>2, <2>3, <2>4, ReqOnly DEF MoveAuthorize
<1>3. ASSUME NEW anchor \in PageIds \cup {None}, MoveRead(p, anchor) PROVE IInv'
  <2>1. LivePages \ {req[p].page} \in SUBSET PageIds
    BY DEF LivePages
  <2>2. /\ req' \in [Procs -> Requests]
        /\ ~req'[p].fault /\ req'[p].at = "write"
        /\ \A q \in Procs \ {p} : req'[q] = req[q]
    BY <1>3, <2>1, PlacedIsSound DEF MoveRead
  <2> QED
    BY <1>3, <2>2, ReqOnly DEF MoveRead, IInv, KeysNeverCollide
<1>4. CASE MoveWrite(p)
  <2>1. /\ req' \in [Procs -> Requests] /\ KeysNeverCollide'
        /\ \A q \in Procs : req'[q].at = "remove" => req'[q].page # None
    BY <1>4, FinishKeeps DEF MoveWrite
  <2>2. PICK q \in PageIds, k \in 0..Top : q = req[p].page /\ k = req[p].key
    BY <1>1, <1>4 DEF MoveWrite, Requests
  <2>3. page' = page \/ page' = [page EXCEPT ![q] = [page[q] EXCEPT !.key = k]]
    BY <1>1, <1>4, <2>2 DEF MoveWrite
  <2>4. [page[q] EXCEPT !.key = k] \in PageRecords /\ [page[q] EXCEPT !.key = k].status = page[q].status
    BY <1>1 DEF PageRecords
  <2>5. page' \in [PageIds -> PageRecords] /\ \A r \in PageIds : page'[r].status = page[r].status
    BY <1>1, <2>3, <2>4
  <2> QED
    BY <1>4, <2>1, <2>5, LiveKept DEF MoveWrite
<1> QED
  BY <1>2, <1>3, <1>4 DEF MoveStep

LEMMA RemoveHolds == ASSUME IInv, NEW p \in Procs, RemoveStep(p) PROVE IInv'
<1>1. /\ page \in [PageIds -> PageRecords] /\ doc \in [there : BOOLEAN, pageCount : Int]
      /\ req \in [Procs -> Requests]
  BY TypeParts DEF IInv
<1>2. ASSUME NEW q \in PageIds, NEW owner \in BOOLEAN, RemoveAuthorize(p, q, owner) PROVE IInv'
  <2>1. [Idle EXCEPT !.at = "remove", !.page = q] \in Requests
    BY IdleType DEF Requests
  <2>2. req' = [req EXCEPT ![p] = [Idle EXCEPT !.at = "remove", !.page = q]]
    BY <1>1, <1>2 DEF RemoveAuthorize, Requests
  <2>3. req' \in [Procs -> Requests] /\ \A r \in Procs : req'[r].at = "remove" => req'[r].page # None
    BY <1>1, <2>1, <2>2, PageAssumption DEF Idle, IInv
  <2>4. KeysNeverCollide'
    BY <1>1, <2>2 DEF Idle, IInv, KeysNeverCollide
  <2> QED
    BY <1>2, <2>3, <2>4, ReqOnly DEF RemoveAuthorize
<1>3. CASE RemoveWrite(p)
  <2>1. /\ req' \in [Procs -> Requests] /\ KeysNeverCollide'
        /\ \A q \in Procs : req'[q].at = "remove" => req'[q].page # None
    BY <1>3, FinishKeeps DEF RemoveWrite
  <2>2. PICK q \in PageIds : q = req[p].page
    BY <1>1, <1>3 DEF RemoveWrite, IInv, Requests
  <2>3. CASE ~Removable(q)
    BY <1>1, <1>3, <2>1, <2>2, <2>3, ReqOnly DEF RemoveWrite
  <2>4. CASE Removable(q)
    <3>1. page' = [page EXCEPT ![q] = [page[q] EXCEPT !.status = "deleted"]] /\ Live(q)
      BY <1>1, <1>3, <2>2, <2>4 DEF RemoveWrite, Removable
    <3>2. [page[q] EXCEPT !.status = "deleted"] \in PageRecords
      BY <1>1 DEF PageRecords
    <3>3. page' \in [PageIds -> PageRecords] /\ page'[q].status = "deleted"
          /\ \A r \in PageIds \ {q} : page'[r] = page[r]
      BY <1>1, <3>1, <3>2 DEF PageRecords
    <3>4. doc' \in [there : BOOLEAN, pageCount : Int]
          /\ (doc'.there => doc.there /\ doc'.pageCount = doc.pageCount - 1)
      BY <1>1, <1>3, <2>2, <2>4 DEF RemoveWrite
    <3>5. TypeOK'
      BY <2>1, <3>3, <3>4 DEF TypeOK, PageRecords, Requests
    <3>6. LivePages' = LivePages \ {q} /\ q \in LivePages
      BY <3>1, <3>3 DEF LivePages, Live
    <3>7. IsFiniteSet(LivePages') /\ Cardinality(LivePages') = Cardinality(LivePages) - 1
      BY <3>6, FS_RemoveElement DEF IInv
    <3>8. CountMatches'
      BY <3>4, <3>7 DEF IInv, CountMatches
    <3> QED
      BY <2>1, <3>5, <3>7, <3>8 DEF IInv
  <2> QED
    BY <2>3, <2>4
<1> QED
  BY <1>2, <1>3 DEF RemoveStep

\* Refusals and crashes, locks, and the purge.
LEMMA RestHolds ==
  ASSUME IInv, \/ \E p \in Procs : Refuse(p) \/ Crash(p)
               \/ \E q \in PageIds, locked \in BOOLEAN : SetLocked(q, locked)
               \/ Purge
  PROVE IInv'
<1>1. /\ page \in [PageIds -> PageRecords] /\ doc \in [there : BOOLEAN, pageCount : Int]
      /\ req \in [Procs -> Requests]
  BY TypeParts DEF IInv
<1>2. ASSUME NEW p \in Procs, Refuse(p) \/ Crash(p) PROVE IInv'
  <2>1. Finish(p) /\ UNCHANGED <<page, doc>>
    BY <1>2 DEF Refuse, Crash
  <2> QED
    BY <2>1, FinishKeeps, ReqOnly
<1>3. ASSUME NEW q \in PageIds, NEW locked \in BOOLEAN, SetLocked(q, locked) PROVE IInv'
  <2>1. page' = [page EXCEPT ![q] = [page[q] EXCEPT !.locked = locked]]
    BY <1>1, <1>3 DEF SetLocked
  <2>2. [page[q] EXCEPT !.locked = locked] \in PageRecords
        /\ [page[q] EXCEPT !.locked = locked].status = page[q].status
    BY <1>1 DEF PageRecords
  <2>3. page' \in [PageIds -> PageRecords] /\ \A r \in PageIds : page'[r].status = page[r].status
    BY <1>1, <2>1, <2>2
  <2>4. KeysNeverCollide' /\ \A r \in Procs : req'[r].at = "remove" => req'[r].page # None
    BY <1>3 DEF SetLocked, IInv, KeysNeverCollide
  <2> QED
    BY <1>1, <1>3, <2>3, <2>4, LiveKept DEF SetLocked
<1>4. CASE Purge
  <2>1. NoPage \in PageRecords
    BY KeyAssumption DEF NoPage, PageRecords
  <2>2. page' \in [PageIds -> PageRecords] /\ doc' \in [there : BOOLEAN, pageCount : Int]
    BY <1>4, <2>1 DEF Purge
  <2>3. TypeOK'
    BY <1>1, <1>4, <2>2 DEF Purge, TypeOK, PageRecords, Requests
  <2>4. LivePages' = {}
    BY <1>4 DEF Purge, LivePages, Live, NoPage
  <2>5. IsFiniteSet(LivePages')
    BY <2>4, FS_EmptySet
  <2>6. KeysNeverCollide' /\ \A r \in Procs : req'[r].at = "remove" => req'[r].page # None
    BY <1>4 DEF Purge, IInv, KeysNeverCollide
  <2>7. CountMatches'
    BY <1>4 DEF Purge, CountMatches
  <2> QED
    BY <2>3, <2>5, <2>6, <2>7 DEF IInv
<1> QED
  BY <1>2, <1>3, <1>4

LEMMA NextHolds == IInv /\ [Next]_vars => IInv'
<1>1. IInv /\ UNCHANGED vars => IInv'
  BY DEF IInv, TypeOK, KeysNeverCollide, CountMatches, LivePages, Live, vars
<1> QED
  BY <1>1, InsertHolds, MoveHolds, RemoveHolds, RestHolds DEF Next

\* Every variable keeps its kind: no key leaves its range.
THEOREM PagesTyped == Spec => []TypeOK
<1>1. IInv => TypeOK
  BY DEF IInv
<1> QED
  BY <1>1, InitHolds, NextHolds, PTL DEF Spec

\* pageCount is the number of live pages, however many requests overlap (pages.ts remove).
THEOREM CountKept == Spec => []CountMatches
<1>1. IInv => CountMatches
  BY DEF IInv
<1> QED
  BY <1>1, InitHolds, NextHolds, PTL DEF Spec

\* keyAfter never hands keyBetween two keys out of order, however pages came to share one.
THEOREM KeysApart == Spec => []KeysNeverCollide
<1>1. IInv => KeysNeverCollide
  BY DEF IInv
<1> QED
  BY <1>1, InitHolds, NextHolds, PTL DEF Spec

-----------------------------------------------------------------------------
\* Tags.

TagRequests == [at : {"idle", "rename", "delete", "set", "change", "add", "pull", "copy", "smart"},
                doc : Tagged \cup {None}, tag : TagIds \cup {None}, name : TagNames \cup {None},
                add : SUBSET TagIds, remove : SUBSET TagIds, seen : SUBSET TagIds]

LEMMA TagParts == T!TypeOK <=> /\ tag \in [TagIds -> TagNames \cup {None}]
                               /\ tags \in [Tagged -> SUBSET TagIds]
                               /\ smart \in (SUBSET TagIds) \cup {{None}}
                               /\ tagReq \in [Procs -> TagRequests]
  BY DEF T!TypeOK, T!NoSmart, TagRequests

\* A request that is going to write tags has seen that they exist; a new name is one.
TagsKnown(r) == /\ r.at \in {"set", "add", "copy", "smart"} => r.add \subseteq T!Exists
                /\ r.at = "rename" => r.name \in TagNames

\* The inductive invariant behind NoDanglingTag, with one request at a time.
OneTags == /\ T!NoDanglingTag
           /\ \A p \in Procs : TagsKnown(tagReq[p])
           /\ \A p \in Procs \ {p1} : tagReq[p] = T!Idle

\* A request begins, or goes on, as r.
TagGoes(p, r) == tagReq' = [tagReq EXCEPT ![p] = r]
TagBegins(p) == /\ UNCHANGED <<tag, tags, smart>>
                /\ \E r \in TagRequests : TagGoes(p, r) /\ (T!NoDanglingTag => TagsKnown(r))

LEMMA TagIdle == T!Idle \in TagRequests /\ TagsKnown(T!Idle)
  BY DEF T!Idle, TagRequests, TagsKnown

LEMMA TagFinish == ASSUME NEW p \in Procs, T!Finish(p) PROVE TagGoes(p, T!Idle)
  BY DEF T!Finish, TagGoes

LEMMA RenameBegins ==
  ASSUME NEW p \in Procs, NEW t \in TagIds, NEW n \in TagNames, T!UpdateLoad(p, t, n) PROVE TagBegins(p)
<1> DEFINE r == [T!Idle EXCEPT !.at = "rename", !.tag = t, !.name = n]
<1>1. TagGoes(p, r) /\ UNCHANGED <<tag, tags, smart>>
  BY DEF T!UpdateLoad, T!Begin, TagGoes
<1>2. r \in TagRequests /\ TagsKnown(r)
  BY DEF T!Idle, TagRequests, TagsKnown
<1> HIDE DEF r
<1> QED
  BY <1>1, <1>2 DEF TagBegins

LEMMA DeleteBegins == ASSUME NEW p \in Procs, NEW t \in TagIds, T!DeleteLoad(p, t) PROVE TagBegins(p)
<1> DEFINE r == [T!Idle EXCEPT !.at = "delete", !.tag = t]
<1>1. TagGoes(p, r) /\ UNCHANGED <<tag, tags, smart>>
  BY DEF T!DeleteLoad, T!Begin, TagGoes
<1>2. r \in TagRequests /\ TagsKnown(r)
  BY DEF T!Idle, TagRequests, TagsKnown
<1> HIDE DEF r
<1> QED
  BY <1>1, <1>2 DEF TagBegins

LEMMA SetBegins ==
  ASSUME NEW p \in Procs, NEW d \in Tagged, NEW X \in SUBSET TagIds, T!SetTagsCheck(p, d, X) PROVE TagBegins(p)
<1> DEFINE r == [T!Idle EXCEPT !.at = "set", !.doc = d, !.add = X]
<1>1. TagGoes(p, r) /\ UNCHANGED <<tag, tags, smart>> /\ X \subseteq T!Exists
  BY DEF T!SetTagsCheck, T!Begin, TagGoes
<1>2. r \in TagRequests /\ TagsKnown(r)
  BY <1>1 DEF T!Idle, TagRequests, TagsKnown
<1> HIDE DEF r
<1> QED
  BY <1>1, <1>2 DEF TagBegins

LEMMA ChangeBegins ==
  ASSUME T!TypeOK, NEW p \in Procs, NEW d \in Tagged, NEW A \in SUBSET TagIds, NEW R \in SUBSET TagIds,
         T!ChangeLoad(p, d, A, R)
  PROVE  TagBegins(p)
<1> DEFINE r == [T!Idle EXCEPT !.at = "change", !.doc = d, !.add = A, !.remove = R, !.seen = tags[d]]
<1>1. TagGoes(p, r) /\ UNCHANGED <<tag, tags, smart>>
  BY DEF T!ChangeLoad, T!Begin, TagGoes
<1>2. r \in TagRequests /\ TagsKnown(r)
  BY TagParts DEF T!Idle, TagRequests, TagsKnown
<1> HIDE DEF r
<1> QED
  BY <1>1, <1>2 DEF TagBegins

LEMMA CopyBegins == ASSUME T!TypeOK, NEW p \in Procs, NEW d \in Tagged, T!DuplicateLoad(p, d) PROVE TagBegins(p)
<1> DEFINE r == [T!Idle EXCEPT !.at = "copy", !.add = tags[d]]
<1>1. TagGoes(p, r) /\ UNCHANGED <<tag, tags, smart>>
  BY DEF T!DuplicateLoad, T!Begin, TagGoes
<1>2. r \in TagRequests /\ (T!NoDanglingTag => TagsKnown(r))
  BY TagParts DEF T!Idle, TagRequests, TagsKnown, T!NoDanglingTag
<1> HIDE DEF r
<1> QED
  BY <1>1, <1>2 DEF TagBegins

LEMMA SmartBegins == ASSUME T!TypeOK, NEW p \in Procs, T!SmartLoad(p) PROVE TagBegins(p)
<1> DEFINE r == [T!Idle EXCEPT !.at = "smart", !.add = smart]
<1>1. TagGoes(p, r) /\ UNCHANGED <<tag, tags, smart>> /\ smart # T!NoSmart
  BY DEF T!SmartLoad, T!Begin, TagGoes
<1>2. smart \in SUBSET TagIds /\ (T!NoDanglingTag => smart \subseteq T!Exists)
  BY <1>1, TagParts DEF T!NoDanglingTag, T!NoSmart
<1>3. r \in TagRequests /\ (T!NoDanglingTag => TagsKnown(r))
  BY <1>2 DEF T!Idle, TagRequests, TagsKnown
<1> HIDE DEF r
<1> QED
  BY <1>1, <1>3 DEF TagBegins

\* changeTags goes on to write what it has checked, or ends.
LEMMA CheckGoesOn == ASSUME T!TypeOK, NEW p \in Procs, T!ChangeCheck(p) PROVE TagBegins(p)
<1> DEFINE r == [tagReq[p] EXCEPT !.at = "add"]
<1>1. CASE tagReq[p].add \subseteq T!Exists /\ T!Fits(tagReq[p].seen, tagReq[p].add)
  <2>1. TagGoes(p, r) /\ UNCHANGED <<tag, tags, smart>>
    BY <1>1, TagParts DEF T!ChangeCheck, TagGoes
  <2>2. r \in TagRequests /\ TagsKnown(r)
    BY <1>1, TagParts DEF TagRequests, TagsKnown
  <2> HIDE DEF r
  <2> QED
    BY <2>1, <2>2 DEF TagBegins
<1>2. CASE ~(tagReq[p].add \subseteq T!Exists /\ T!Fits(tagReq[p].seen, tagReq[p].add))
  <2>1. T!Finish(p) /\ UNCHANGED <<tag, tags, smart>>
    BY <1>2 DEF T!ChangeCheck
  <2> QED
    BY <2>1, TagFinish, TagIdle DEF TagBegins
<1> QED
  BY <1>1, <1>2

\* A step of a request that changes no tag.
LEMMA TagBeginsKeeps ==
  ASSUME T!TypeOK, NEW p \in Procs, TagBegins(p)
  PROVE  T!TypeOK' /\ (OneTags /\ OneAtATime => OneTags')
<1>1. PICK r \in TagRequests : TagGoes(p, r) /\ (T!NoDanglingTag => TagsKnown(r))
  BY DEF TagBegins
<1>2. UNCHANGED <<tag, tags, smart>>
  BY DEF TagBegins
<1>3. T!TypeOK'
  BY <1>1, <1>2, TagParts DEF TagGoes, T!TypeOK, T!NoSmart, TagRequests
<1>4. ASSUME OneTags, OneAtATime PROVE OneTags'
  <2>1. T!NoDanglingTag' /\ T!Exists' = T!Exists
    BY <1>2, <1>4 DEF OneTags, T!NoDanglingTag, T!Exists
  <2>2. ASSUME NEW q \in Procs PROVE TagsKnown(tagReq[q])'
    BY <1>1, <1>4, <2>1, TagParts DEF OneTags, TagsKnown, TagGoes
  <2> QED
    BY <1>4, <2>1, <2>2 DEF OneTags, OneAtATime, T!Idle
<1> QED
  BY <1>3, <1>4

-----------------------------------------------------------------------------
\* Steps that change what there is.

\* More tags: a created one, or one under another name.
LEMMA TagsGrow ==
  ASSUME T!TypeOK, tag' \in [TagIds -> TagNames \cup {None}], OneTags => T!Exists \subseteq T!Exists',
         UNCHANGED <<tags, smart>>,
         tagReq' = tagReq \/ \E p \in Procs : TagGoes(p, T!Idle)
  PROVE  T!TypeOK' /\ (OneTags /\ OneAtATime => OneTags')
<1>1. T!TypeOK'
  BY TagParts, TagIdle DEF TagGoes, T!TypeOK, T!NoSmart, TagRequests
<1>2. ASSUME OneTags, OneAtATime PROVE OneTags'
  <2>1. T!NoDanglingTag'
    BY <1>2 DEF OneTags, T!NoDanglingTag
  <2>2. ASSUME NEW q \in Procs PROVE TagsKnown(tagReq[q])'
    <3>1. tagReq'[q] = tagReq[q] \/ tagReq'[q] = T!Idle
      BY TagParts DEF TagGoes
    <3> QED
      BY <1>2, <3>1, TagIdle DEF OneTags, TagsKnown, T!Idle
  <2> QED
    BY <1>2, <2>1, <2>2 DEF OneTags, OneAtATime, T!Idle
<1> QED
  BY <1>1, <1>2

LEMMA TagCreated ==
  ASSUME T!TypeOK, NEW t \in TagIds, NEW n \in TagNames, T!Create(t, n)
  PROVE  T!TypeOK' /\ (OneTags /\ OneAtATime => OneTags')
<1>1. tag' = [tag EXCEPT ![t] = n] /\ UNCHANGED <<tags, smart, tagReq>>
  BY DEF T!Create
<1>2. tag' \in [TagIds -> TagNames \cup {None}] /\ T!Exists \subseteq T!Exists'
  BY <1>1, TagParts, TagAssumption DEF T!Exists
<1> QED
  BY <1>1, <1>2, TagsGrow

LEMMA TagRenamed ==
  ASSUME T!TypeOK, NEW p \in Procs, T!UpdateWrite(p)
  PROVE  T!TypeOK' /\ (OneTags /\ OneAtATime => OneTags')
<1>1. tagReq[p] \in TagRequests /\ UNCHANGED <<tags, smart>> /\ TagGoes(p, T!Idle)
  BY TagParts, TagFinish DEF T!UpdateWrite
<1>2. tag' \in [TagIds -> TagNames \cup {None}]
  BY <1>1, TagParts DEF TagRequests, T!UpdateWrite
<1>3. ASSUME OneTags PROVE T!Exists \subseteq T!Exists'
  <2>1. tagReq[p].name \in TagNames
    BY <1>3 DEF OneTags, TagsKnown, T!UpdateWrite
  <2> QED
    BY <2>1, TagParts, TagAssumption DEF T!Exists, T!UpdateWrite
<1> QED
  BY <1>1, <1>2, <1>3, TagsGrow

\* The first request is the only one under way.
LEMMA TheOneRequest ==
  ASSUME OneTags, NEW p \in Procs, tagReq[p].at # "idle" PROVE p = p1
  BY DEF OneTags, T!Idle

\* A tag comes off the documents and the smart folders when it is deleted.
LEMMA TagDeleted ==
  ASSUME T!TypeOK, NEW p \in Procs, T!DeleteWrite(p)
  PROVE  T!TypeOK' /\ (OneTags /\ OneAtATime => OneTags')
<1>1. tagReq[p] \in TagRequests /\ TagGoes(p, T!Idle)
  BY TagParts, TagFinish DEF T!DeleteWrite
<1> DEFINE t == tagReq[p].tag
<1>2. /\ tags' = [d \in Tagged |-> tags[d] \ {t}]
      /\ smart' = smart \ {t} /\ tag' = [tag EXCEPT ![t] = None]
  BY DEF T!DeleteWrite, T!Without
<1> HIDE DEF t
<1>3. T!TypeOK'
  BY <1>1, <1>2, TagParts, TagIdle DEF T!TypeOK, T!NoSmart, TagRequests, TagGoes
<1>4. ASSUME OneTags, OneAtATime PROVE OneTags'
  <2>1. p = p1
    BY <1>4, TheOneRequest DEF T!DeleteWrite
  <2>2. \A q \in Procs : tagReq'[q] = T!Idle
    BY <1>1, <1>4, <2>1, TagParts DEF OneTags, OneAtATime, TagGoes
  <2>3. T!Exists' = T!Exists \ {t}
    BY <1>2, TagParts DEF T!Exists
  <2>4. T!NoDanglingTag'
    BY <1>2, <1>4, <2>3, TagParts DEF OneTags, T!NoDanglingTag, T!NoSmart
  <2> QED
    BY <2>2, <2>4, TagIdle DEF OneTags, TagsKnown, T!Idle
<1> QED
  BY <1>3, <1>4

\* The tags of documents change, to others that exist where the request has checked them.
LEMMA TagsWritten ==
  ASSUME T!TypeOK, NEW p \in Procs, NEW r \in TagRequests, TagGoes(p, r),
         r = T!Idle \/ r.at = "pull",
         UNCHANGED <<tag, smart>>,
         tags' \in [Tagged -> SUBSET TagIds],
         OneTags => \A d \in Tagged : tags'[d] \subseteq T!Exists
  PROVE  T!TypeOK' /\ (OneTags /\ OneAtATime => OneTags')
<1>1. T!TypeOK'
  BY TagParts DEF T!TypeOK, T!NoSmart, TagRequests, TagGoes
<1>2. ASSUME OneTags, OneAtATime PROVE OneTags'
  <2>1. T!Exists' = T!Exists
    BY DEF T!Exists
  <2>2. T!NoDanglingTag'
    BY <1>2, <2>1, TagParts DEF OneTags, T!NoDanglingTag
  <2>3. TagsKnown(r)
    BY DEF TagsKnown, T!Idle
  <2>4. ASSUME NEW q \in Procs PROVE TagsKnown(tagReq[q])'
    BY <1>2, <2>1, <2>3, TagParts DEF OneTags, TagsKnown, TagGoes
  <2> QED
    BY <1>2, <2>2, <2>4 DEF OneTags, OneAtATime, T!Idle
<1> QED
  BY <1>1, <1>2

LEMMA TagsSet ==
  ASSUME T!TypeOK, NEW p \in Procs, T!SetTagsWrite(p)
  PROVE  T!TypeOK' /\ (OneTags /\ OneAtATime => OneTags')
<1>1. tagReq[p] \in TagRequests /\ TagGoes(p, T!Idle) /\ UNCHANGED <<tag, smart>>
  BY TagParts, TagFinish DEF T!SetTagsWrite
<1>2. tagReq[p].add \in SUBSET TagIds /\ tags' = [tags EXCEPT ![tagReq[p].doc] = tagReq[p].add]
  BY <1>1 DEF T!SetTagsWrite, TagRequests
<1>3. OneTags => tagReq[p].add \subseteq T!Exists
  BY DEF OneTags, TagsKnown, T!SetTagsWrite
<1>4. tags' \in [Tagged -> SUBSET TagIds] /\ (OneTags => \A d \in Tagged : tags'[d] \subseteq T!Exists)
  BY <1>2, <1>3, TagParts DEF OneTags, T!NoDanglingTag
<1> QED
  BY <1>1, <1>4, TagIdle, TagsWritten

\* What is added is put to what the document has by then.
LEMMA TagsAdded ==
  ASSUME T!TypeOK, NEW p \in Procs, T!ChangeAdd(p)
  PROVE  T!TypeOK' /\ (OneTags /\ OneAtATime => OneTags')
<1> DEFINE r == [tagReq[p] EXCEPT !.at = "pull", !.add = {}, !.seen = {}]
<1>1. tagReq[p] \in TagRequests /\ UNCHANGED <<tag, smart>>
  BY TagParts DEF T!ChangeAdd
<1>2. TagGoes(p, r)
  BY TagParts DEF T!ChangeAdd, TagGoes
<1>3. r \in TagRequests /\ r.at = "pull"
  BY <1>1 DEF TagRequests
<1> HIDE DEF r
<1>4. tagReq[p].add \in SUBSET TagIds /\ (OneTags => tagReq[p].add \subseteq T!Exists)
  BY <1>1 DEF TagRequests, OneTags, TagsKnown, T!ChangeAdd
<1>5. tags' \in [Tagged -> SUBSET TagIds] /\ (OneTags => \A d \in Tagged : tags'[d] \subseteq T!Exists)
  BY <1>4, TagParts DEF OneTags, T!NoDanglingTag, T!ChangeAdd, T!Added
<1> QED
  BY <1>1, <1>2, <1>3, <1>5, TagsWritten

LEMMA TagsPulled ==
  ASSUME T!TypeOK, NEW p \in Procs, T!ChangeRemove(p)
  PROVE  T!TypeOK' /\ (OneTags /\ OneAtATime => OneTags')
<1>1. TagGoes(p, T!Idle) /\ UNCHANGED <<tag, smart>>
  BY TagFinish DEF T!ChangeRemove
<1>2. tags' \in [Tagged -> SUBSET TagIds] /\ (OneTags => \A d \in Tagged : tags'[d] \subseteq T!Exists)
  BY TagParts DEF OneTags, T!NoDanglingTag, T!ChangeRemove
<1> QED
  BY <1>1, <1>2, TagIdle, TagsWritten

\* A copy has the tags its source had.
LEMMA TagsCopied ==
  ASSUME T!TypeOK, NEW p \in Procs, NEW d \in Tagged, T!DuplicateWrite(p, d)
  PROVE  T!TypeOK' /\ (OneTags /\ OneAtATime => OneTags')
<1>1. tagReq[p] \in TagRequests /\ TagGoes(p, T!Idle) /\ UNCHANGED <<tag, smart>>
  BY TagParts, TagFinish DEF T!DuplicateWrite
<1>2. tagReq[p].add \in SUBSET TagIds /\ tags' = [tags EXCEPT ![d] = tagReq[p].add]
  BY <1>1 DEF T!DuplicateWrite, TagRequests
<1>3. OneTags => tagReq[p].add \subseteq T!Exists
  BY DEF OneTags, TagsKnown, T!DuplicateWrite
<1>4. tags' \in [Tagged -> SUBSET TagIds] /\ (OneTags => \A e \in Tagged : tags'[e] \subseteq T!Exists)
  BY <1>2, <1>3, TagParts DEF OneTags, T!NoDanglingTag
<1> QED
  BY <1>1, <1>4, TagIdle, TagsWritten

\* The smart folder changes, to filters that exist where they were checked or kept.
LEMMA SmartWritten ==
  ASSUME T!TypeOK, UNCHANGED <<tag, tags>>,
         tagReq' = tagReq \/ \E p \in Procs : TagGoes(p, T!Idle),
         smart' \in (SUBSET TagIds) \cup {T!NoSmart},
         OneTags /\ smart' # T!NoSmart => smart' \subseteq T!Exists
  PROVE  T!TypeOK' /\ (OneTags /\ OneAtATime => OneTags')
<1>1. T!TypeOK'
  BY TagParts, TagIdle DEF TagGoes, T!TypeOK, T!NoSmart, TagRequests
<1>2. ASSUME OneTags, OneAtATime PROVE OneTags'
  <2>1. T!Exists' = T!Exists
    BY DEF T!Exists
  <2>2. T!NoDanglingTag'
    BY <1>2, <2>1 DEF OneTags, T!NoDanglingTag, T!NoSmart
  <2>3. ASSUME NEW q \in Procs PROVE TagsKnown(tagReq[q])'
    <3>1. tagReq'[q] = tagReq[q] \/ tagReq'[q] = T!Idle
      BY TagParts DEF TagGoes
    <3> QED
      BY <1>2, <2>1, <3>1, TagIdle DEF OneTags, TagsKnown, T!Idle
  <2> QED
    BY <1>2, <2>2, <2>3 DEF OneTags, OneAtATime, T!Idle
<1> QED
  BY <1>1, <1>2

LEMMA SmartStep ==
  ASSUME T!TypeOK,
         (\E X \in SUBSET T!Exists : T!SmartCreate(X)) \/ T!SmartDelete \/ (\E p \in Procs : T!SmartWrite(p))
  PROVE  T!TypeOK' /\ (OneTags /\ OneAtATime => OneTags')
<1>1. CASE \E X \in SUBSET T!Exists : T!SmartCreate(X)
  BY <1>1, SmartWritten DEF T!SmartCreate, T!Exists
<1>2. CASE T!SmartDelete
  BY <1>2, SmartWritten DEF T!SmartDelete, T!NoSmart
<1>3. ASSUME NEW p \in Procs, T!SmartWrite(p) PROVE T!TypeOK' /\ (OneTags /\ OneAtATime => OneTags')
  <2>1. tagReq[p] \in TagRequests /\ TagGoes(p, T!Idle) /\ UNCHANGED <<tag, tags>>
    BY <1>3, TagParts, TagFinish DEF T!SmartWrite
  <2>2. OneTags => tagReq[p].add \subseteq T!Exists
    BY <1>3 DEF OneTags, TagsKnown, T!SmartWrite
  <2>3. smart' = smart \/ smart' = tagReq[p].add \/ smart' \in SUBSET T!Exists
    BY <1>3 DEF T!SmartWrite
  <2>4. smart' \in (SUBSET TagIds) \cup {T!NoSmart}
    BY <2>1, <2>3, TagParts DEF TagRequests, T!NoSmart, T!Exists
  <2>5. OneTags /\ smart' # T!NoSmart => smart' \subseteq T!Exists
    BY <2>2, <2>3 DEF OneTags, T!NoDanglingTag, T!NoSmart
  <2> QED
    BY <2>1, <2>4, <2>5, SmartWritten
<1> QED
  BY <1>1, <1>2, <1>3

LEMMA TagCrash ==
  ASSUME T!TypeOK, NEW p \in Procs, T!Crash(p)
  PROVE  T!TypeOK' /\ (OneTags /\ OneAtATime => OneTags')
<1>1. TagBegins(p)
  BY TagFinish, TagIdle DEF T!Crash, TagBegins
<1> QED
  BY <1>1, TagBeginsKeeps

LEMMA TagStep == T!TypeOK /\ T!Next => T!TypeOK' /\ (OneTags /\ OneAtATime => OneTags')
<1> SUFFICES ASSUME T!TypeOK, T!Next PROVE T!TypeOK' /\ (OneTags /\ OneAtATime => OneTags')
  OBVIOUS
<1>1. CASE \E t \in TagIds, n \in TagNames : T!Create(t, n)
  BY <1>1, TagCreated
<1>2. CASE (\E X \in SUBSET T!Exists : T!SmartCreate(X)) \/ T!SmartDelete
  BY <1>2, SmartStep
<1>3. ASSUME NEW p \in Procs, T!TagStep(p) PROVE T!TypeOK' /\ (OneTags /\ OneAtATime => OneTags')
  BY <1>3, RenameBegins, DeleteBegins, TagBeginsKeeps, TagRenamed, TagDeleted DEF T!TagStep
<1>4. ASSUME NEW p \in Procs, T!DocStep(p) PROVE T!TypeOK' /\ (OneTags /\ OneAtATime => OneTags')
  <2>1. CASE T!ChangeCheck(p) \/ T!ChangeAdd(p) \/ T!ChangeRemove(p) \/ T!SetTagsWrite(p)
    BY <2>1, CheckGoesOn, TagBeginsKeeps, TagsAdded, TagsPulled, TagsSet
  <2>2. CASE \/ \E d \in Tagged, X \in SUBSET TagIds : T!SetTagsCheck(p, d, X)
             \/ \E d \in Tagged, A, R \in SUBSET TagIds : T!ChangeLoad(p, d, A, R)
    BY <2>2, SetBegins, ChangeBegins, TagBeginsKeeps
  <2>3. CASE \E d \in Tagged : T!DuplicateLoad(p, d) \/ T!DuplicateWrite(p, d)
    BY <2>3, CopyBegins, TagBeginsKeeps, TagsCopied
  <2> QED
    BY <1>4, <2>1, <2>2, <2>3, Zenon DEF T!DocStep
<1>5. ASSUME NEW p \in Procs, T!SmartLoad(p) \/ T!SmartWrite(p) \/ T!Crash(p)
      PROVE  T!TypeOK' /\ (OneTags /\ OneAtATime => OneTags')
  BY <1>5, SmartBegins, TagBeginsKeeps, SmartStep, TagCrash
<1> QED
  BY <1>1, <1>2, <1>3, <1>4, <1>5, Zenon DEF T!Next

\* changeTags writes what it was asked to and nothing else.
LEMMA OwnTagsOnly ==
  ASSUME T!TypeOK, NEW p \in Procs, NEW d \in Tagged
  PROVE  /\ T!ChangeAdd(p) => tags'[d] \ tagReq[p].add = tags[d] \ tagReq[p].add
         /\ T!ChangeRemove(p) => tags'[d] \ tagReq[p].remove = tags[d] \ tagReq[p].remove
  BY TagParts DEF T!ChangeAdd, T!ChangeRemove, T!Added

\* Only the parts about tags touch the tags.
LEMMA TagPart ==
  ASSUME [MCNext]_allVars
  PROVE  /\ part' = part
         /\ \/ UNCHANGED tagVars
            \/ T!Next /\ (part = "tags" => OneAtATime)
  BY DEF MCNext, allVars, tagVars

TagsInv == T!TypeOK /\ (part = "tags" => OneTags)

LEMMA TagsInit == MCInit => TagsInv
  BY TagAssumption DEF MCInit, TagsInv, OneTags, T!TypeOK, T!Init, T!NoSmart, T!Idle, T!NoDanglingTag, TagsKnown

LEMMA TagsInvStep == TagsInv /\ [MCNext]_allVars => TagsInv'
<1> SUFFICES ASSUME TagsInv, [MCNext]_allVars PROVE TagsInv'
  OBVIOUS
<1>1. CASE T!Next /\ (part = "tags" => OneAtATime)
  BY <1>1, TagStep, TagPart DEF TagsInv
<1>2. CASE UNCHANGED tagVars
  BY <1>2, TagPart DEF TagsInv, tagVars, T!TypeOK, OneTags, T!NoDanglingTag, T!Exists, TagsKnown
<1> QED
  BY <1>1, <1>2, TagPart

LEMMA TagsAlways == MCSpec => []TagsInv
<1> QED
  BY TagsInit, TagsInvStep, PTL DEF MCSpec

\* With one request at a time, no document, smart folder or unfinished request names a tag that is gone,
\* whatever is created, changed, deleted and restored (tags.ts).
THEOREM NoTagDangles == MCSpec => []NoDanglingTag
<1>1. TagsInv => NoDanglingTag
  BY DEF TagsInv, NoDanglingTag, OneTags
<1> QED
  BY <1>1, TagsAlways, PTL

\* However many requests change a document's tags at once, each adds and takes off only what it was asked
\* to (documents.ts changeTags).
THEOREM ChangesTouchTheirOwn == MCSpec => ChangeTouchesItsOwn
<1>1. TagsInv => \A p \in Procs, d \in Tagged :
                   /\ T!ChangeAdd(p) => tags'[d] \ tagReq[p].add = tags[d] \ tagReq[p].add
                   /\ T!ChangeRemove(p) => tags'[d] \ tagReq[p].remove = tags[d] \ tagReq[p].remove
  BY OwnTagsOnly DEF TagsInv
<1> QED
  BY <1>1, TagsAlways, PTL DEF ChangeTouchesItsOwn, T!ChangeTouchesItsOwn

-----------------------------------------------------------------------------
\* Workspaces.

Owning == [role |-> "owner", id |-> 0]
MemberRecords == {W!NoMember, Owning} \cup [role : W!Assignable, id : 1..MaxAdds]
SpaceRecords == [owner : Users, personal : BOOLEAN] \cup {W!NoSpace}
SpaceRequests == [at : {"idle", "insert", "refetch", "join", "add", "change"},
                  user : Users \cup {None}, space : Spaces \cup {None},
                  role : W!Assignable \cup {"none"}, id : 0..MaxAdds]
PersonalOf(u) == [owner |-> u, personal |-> TRUE]

\* A request knows what it has looked up: a personal workspace is its user's, and members of a
\* personal workspace are not managed; the record it changes is not an owner's.
SpaceKnown(r) ==
  /\ r.at # "idle" => r.user \in Users
  /\ r.at = "join" => r.space \in Spaces /\ space[r.space] = PersonalOf(r.user)
  /\ r.at \in {"add", "change"} => /\ r.space \in Spaces /\ space[r.space] # W!NoSpace
                                   /\ ~space[r.space].personal
  /\ r.at = "add" => r.role \in W!Assignable
  /\ r.at = "change" => r.id \in 1..MaxAdds

SpaceTypes == /\ space \in [Spaces -> SpaceRecords]
              /\ member \in [Spaces -> [Users -> MemberRecords]]
              /\ wsReq \in [Procs -> SpaceRequests]
              /\ ensured \in SUBSET Users /\ adds \in 0..MaxAdds

RequestsKnow == \A p \in Procs : SpaceKnown(wsReq[p])
Unclaimed == \A w \in Spaces, u \in Users : space[w] = W!NoSpace => member[w][u] = W!NoMember
OnePersonal == \A v, w \in Spaces : space[v].personal /\ space[v] = space[w] => v = w
PersonalAlone == \A w \in Spaces, u \in Users :
                   space[w].personal /\ member[w][u] # W!NoMember => u = space[w].owner /\ member[w][u] = Owning
TeamsOwned == \A w \in Spaces : space[w] # W!NoSpace /\ ~space[w].personal => member[w][space[w].owner] = Owning
EnsuredHave == \A u \in ensured : \E w \in Spaces : space[w] = PersonalOf(u) /\ member[w][u] = Owning

\* The inductive invariant behind OwnersBelong.
SpacesInv == SpaceTypes /\ RequestsKnow /\ Unclaimed /\ OnePersonal /\ PersonalAlone /\ TeamsOwned /\ EnsuredHave

LEMMA OwnersBelongFromInv == SpacesInv => W!OwnersBelong
<1> SUFFICES ASSUME SpacesInv PROVE W!OwnersBelong
  OBVIOUS
<1>1. ASSUME NEW u \in ensured
      PROVE  \E w \in Spaces : /\ {v \in W!ListForActor(u) : space[v].personal} = {w}
                               /\ space[w].owner = u /\ member[w][u].role = "owner"
  <2>1. PICK w \in Spaces : space[w] = PersonalOf(u) /\ member[w][u] = Owning
    BY DEF SpacesInv, EnsuredHave
  <2>2. u \in Users /\ space[w].owner = u /\ space[w].personal /\ member[w][u].role = "owner"
    BY <2>1 DEF SpacesInv, SpaceTypes, PersonalOf, Owning
  <2>3. member[w][u] # W!NoMember
    BY <2>1 DEF Owning, W!NoMember
  <2>4. ASSUME NEW v \in Spaces, member[v][u] # W!NoMember, space[v].personal PROVE v = w
    <3>1. space[v].owner = u /\ space[v] \in SpaceRecords
      BY <2>2, <2>4 DEF SpacesInv, PersonalAlone, SpaceTypes
    <3>2. space[v] = PersonalOf(u)
      BY <2>4, <3>1 DEF SpaceRecords, PersonalOf, W!NoSpace
    <3> QED
      BY <2>1, <2>4, <3>2 DEF SpacesInv, OnePersonal
  <2>5. {v \in W!ListForActor(u) : space[v].personal} = {w}
    BY <2>2, <2>3, <2>4 DEF W!ListForActor
  <2> QED
    BY <2>2, <2>5
<1>2. ASSUME NEW w \in Spaces, space[w] # W!NoSpace, ~space[w].personal
      PROVE  member[w][space[w].owner].role = "owner"
  BY <1>2 DEF SpacesInv, TeamsOwned, Owning
<1> QED
  BY <1>1, <1>2 DEF W!OwnersBelong

LEMMA SpaceTypesFit == SpaceTypes => W!TypeOK
  BY SpaceAssumption DEF SpaceTypes, W!TypeOK, SpaceRecords, MemberRecords, SpaceRequests, W!NoMember, Owning,
     W!Assignable, W!Ranked

-----------------------------------------------------------------------------
\* Steps that look something up.

SpaceGoes(p, r) == wsReq' = [wsReq EXCEPT ![p] = r]
Looks(p) == /\ UNCHANGED <<space, member, ensured, adds>>
            /\ \E r \in SpaceRequests : SpaceGoes(p, r) /\ SpaceKnown(r)

LEMMA SpaceIdle == W!Idle \in SpaceRequests /\ W!Idle.at = "idle" /\ SpaceKnown(W!Idle)
  BY SpaceAssumption DEF W!Idle, SpaceRequests, SpaceKnown

LEMMA SpaceFinish == ASSUME NEW p \in Procs, W!Finish(p) PROVE SpaceGoes(p, W!Idle)
  BY DEF W!Finish, SpaceGoes

\* What is looked up stays true while workspaces only come into being.
LEMMA KnownStays ==
  ASSUME SpaceTypes, NEW p \in Procs, NEW r \in SpaceRequests, SpaceGoes(p, r), SpaceKnown(r)', RequestsKnow,
         \A w \in Spaces : space[w] # W!NoSpace => space'[w] = space[w]
  PROVE  wsReq' \in [Procs -> SpaceRequests] /\ RequestsKnow'
<1>1. wsReq' \in [Procs -> SpaceRequests] /\ wsReq'[p] = r /\ \A q \in Procs \ {p} : wsReq'[q] = wsReq[q]
  BY DEF SpaceTypes, SpaceGoes
<1>2. ASSUME NEW q \in Procs \ {p} PROVE SpaceKnown(wsReq[q])'
  <2>1. SpaceKnown(wsReq[q]) /\ wsReq'[q] = wsReq[q]
    BY <1>1 DEF RequestsKnow
  <2>2. \A u : PersonalOf(u) # W!NoSpace
    BY DEF PersonalOf, W!NoSpace
  <2> QED
    BY <2>1, <2>2 DEF SpaceKnown
<1> QED
  BY <1>1, <1>2 DEF RequestsKnow

LEMMA LooksKeeps == ASSUME SpacesInv, NEW p \in Procs, Looks(p) PROVE SpacesInv'
<1>1. PICK r \in SpaceRequests : SpaceGoes(p, r) /\ SpaceKnown(r)
  BY DEF Looks
<1>2. UNCHANGED <<space, member, ensured, adds>>
  BY DEF Looks
<1>3. SpaceKnown(r)'
  BY <1>1, <1>2 DEF SpaceKnown
<1>4. wsReq' \in [Procs -> SpaceRequests] /\ RequestsKnow'
  BY <1>1, <1>2, <1>3, KnownStays DEF SpacesInv
<1> QED
  BY <1>2, <1>4 DEF SpacesInv, SpaceTypes, Unclaimed, OnePersonal, PersonalAlone, TeamsOwned, EnsuredHave

LEMMA PersonalIs ==
  ASSUME SpaceTypes, NEW u \in Users, NEW w \in W!Personal(u) PROVE w \in Spaces /\ space[w] = PersonalOf(u)
<1>1. w \in Spaces /\ space[w].owner = u /\ space[w].personal /\ space[w] \in SpaceRecords
  BY DEF W!Personal, SpaceTypes
<1> QED
  BY <1>1 DEF SpaceRecords, PersonalOf, W!NoSpace

LEMMA FindLooks == ASSUME SpacesInv, NEW p \in Procs, NEW u \in Users, W!EnsureFind(p, u) PROVE Looks(p)
<1>1. UNCHANGED <<space, member, ensured, adds>>
  BY Zenon DEF W!EnsureFind
<1>2. ASSUME W!Begin(p, [W!Idle EXCEPT !.at = "insert", !.user = u]) PROVE Looks(p)
  <2> DEFINE r == [W!Idle EXCEPT !.at = "insert", !.user = u]
  <2>2. SpaceGoes(p, r)
    BY <1>2 DEF W!Begin, SpaceGoes
  <2>3. r \in SpaceRequests /\ SpaceKnown(r)
    BY SpaceIdle DEF SpaceRequests, SpaceKnown
  <2> HIDE DEF r
  <2> QED
    BY <1>1, <2>2, <2>3 DEF Looks
<1>3. ASSUME NEW w \in W!Personal(u), W!Begin(p, [W!Idle EXCEPT !.at = "join", !.user = u, !.space = w])
      PROVE  Looks(p)
  <2> DEFINE r == [W!Idle EXCEPT !.at = "join", !.user = u, !.space = w]
  <2>2. SpaceGoes(p, r)
    BY <1>3 DEF W!Begin, SpaceGoes
  <2>3. w \in Spaces /\ space[w] = PersonalOf(u)
    BY PersonalIs DEF SpacesInv
  <2>4. r \in SpaceRequests /\ SpaceKnown(r)
    BY <2>3, SpaceIdle DEF SpaceRequests, SpaceKnown
  <2> HIDE DEF r
  <2> QED
    BY <1>1, <2>2, <2>4 DEF Looks
<1> QED
  BY <1>2, <1>3, Zenon DEF W!EnsureFind

LEMMA RefetchLooks == ASSUME SpacesInv, NEW p \in Procs, W!EnsureRefetch(p) PROVE Looks(p)
<1>1. wsReq[p] \in SpaceRequests /\ wsReq[p].user \in Users
  BY DEF W!EnsureRefetch, SpacesInv, SpaceTypes, RequestsKnow, SpaceKnown
<1>2. PICK w \in W!Personal(wsReq[p].user) : wsReq' = [wsReq EXCEPT ![p].at = "join", ![p].space = w]
  BY DEF W!EnsureRefetch
<1> DEFINE r == [wsReq[p] EXCEPT !.at = "join", !.space = w]
<1>3. SpaceGoes(p, r)
  BY <1>2 DEF SpaceGoes, SpacesInv, SpaceTypes
<1>4. w \in Spaces /\ space[w] = PersonalOf(wsReq[p].user)
  BY <1>1, PersonalIs DEF SpacesInv
<1>5. r \in SpaceRequests /\ SpaceKnown(r)
  BY <1>1, <1>4 DEF SpaceRequests, SpaceKnown
<1> HIDE DEF r
<1> QED
  BY <1>3, <1>5 DEF Looks, W!EnsureRefetch

\* Members are managed in teams only.
LEMMA ManagedIsTeam ==
  ASSUME NEW u, NEW w, W!MayManage(u, w) PROVE space[w] # W!NoSpace /\ ~space[w].personal
  BY DEF W!MayManage, W!MayWorkspace

LEMMA AddLooks ==
  ASSUME SpacesInv, NEW p \in Procs, NEW u \in Users, NEW w \in Spaces, NEW v \in Users,
         NEW role \in W!Assignable, W!AddCheck(p, u, w, v, role)
  PROVE  Looks(p)
<1> DEFINE r == [W!Idle EXCEPT !.at = "add", !.user = v, !.space = w, !.role = role]
<1>2. SpaceGoes(p, r) /\ W!MayManage(u, w) /\ UNCHANGED <<space, member, ensured, adds>>
  BY DEF W!AddCheck, W!Begin, SpaceGoes
<1>3. r \in SpaceRequests /\ SpaceKnown(r)
  BY <1>2, ManagedIsTeam, SpaceIdle DEF SpaceRequests, SpaceKnown
<1> HIDE DEF r
<1> QED
  BY <1>2, <1>3 DEF Looks

LEMMA ChangeLooks ==
  ASSUME SpacesInv, NEW p \in Procs, NEW u \in Users, NEW w \in Spaces, NEW v \in Users,
         NEW role \in W!Assignable \cup {"none"}, W!ChangeCheck(p, u, w, v, role)
  PROVE  Looks(p)
<1> DEFINE n == member[w][v].id
           r == [W!Idle EXCEPT !.at = "change", !.user = v, !.space = w, !.role = role, !.id = n]
<1>2. SpaceGoes(p, r) /\ W!MayManage(u, w) /\ W!Changeable(w, v) /\ UNCHANGED <<space, member, ensured, adds>>
  BY DEF W!ChangeCheck, W!Begin, SpaceGoes
<1>3. member[w][v].id \in 1..MaxAdds
  <2>1. member[w][v] \in MemberRecords
    BY DEF SpacesInv, SpaceTypes
  <2> QED
    BY <1>2, <2>1 DEF MemberRecords, W!Changeable, Owning
<1>4. space[w] # W!NoSpace /\ ~space[w].personal
  BY <1>2, ManagedIsTeam
<1>5. n \in 1..MaxAdds /\ n \in 0..MaxAdds
  BY <1>3, SpaceAssumption
<1> HIDE DEF n
<1>6. r \in SpaceRequests
  BY <1>5, SpaceIdle DEF SpaceRequests
<1>7. r.at = "change" /\ r.user = v /\ r.space = w /\ r.id = n
  BY SpaceIdle DEF SpaceRequests
<1>8. SpaceKnown(r)
  BY <1>4, <1>5, <1>7 DEF SpaceKnown
<1> HIDE DEF r
<1> QED
  BY <1>2, <1>6, <1>8 DEF Looks

-----------------------------------------------------------------------------
\* Steps that write.

\* A workspace comes into being: a user's personal one, or a team with its owner.
LEMMA InsertWrites == ASSUME SpacesInv, NEW p \in Procs, W!EnsureInsert(p) PROVE SpacesInv'
<1>0. PICK u : u = wsReq[p].user
  OBVIOUS
<1>1. wsReq[p] \in SpaceRequests /\ u \in Users /\ UNCHANGED <<member, ensured, adds>>
  BY <1>0 DEF W!EnsureInsert, SpacesInv, SpaceTypes, RequestsKnow, SpaceKnown
<1>2. CASE W!Refused(u)
  <2> DEFINE r == [wsReq[p] EXCEPT !.at = "refetch"]
  <2>1. SpaceGoes(p, r) /\ UNCHANGED space
    BY <1>0, <1>2 DEF W!EnsureInsert, SpaceGoes, SpacesInv, SpaceTypes
  <2>2. r \in SpaceRequests /\ SpaceKnown(r)
    BY <1>0, <1>1 DEF SpaceRequests, SpaceKnown
  <2> HIDE DEF r
  <2>3. Looks(p)
    BY <1>1, <2>1, <2>2 DEF Looks
  <2> QED
    BY <2>3, LooksKeeps
<1>3. CASE ~W!Refused(u)
  <2>1. PICK w \in Spaces : /\ space[w] = W!NoSpace
                            /\ space' = [space EXCEPT ![w] = PersonalOf(u)]
                            /\ wsReq' = [wsReq EXCEPT ![p].at = "join", ![p].space = w]
    BY <1>0, <1>3 DEF W!EnsureInsert, PersonalOf
  <2> DEFINE q == [wsReq[p] EXCEPT !.at = "join", !.space = w]
  <2>2. q \in SpaceRequests /\ q.at = "join" /\ q.user = u /\ q.space = w
    BY <1>0, <1>1 DEF SpaceRequests
  <2>3. SpaceGoes(p, q)
    BY <2>1 DEF SpaceGoes, SpacesInv, SpaceTypes
  <2> HIDE DEF q
  <2>4. PICK r \in SpaceRequests : SpaceGoes(p, r) /\ r.at = "join" /\ r.user = u /\ r.space = w
    BY <2>2, <2>3
  <2>5. space'[w] = PersonalOf(u) /\ \A v \in Spaces \ {w} : space'[v] = space[v]
    BY <2>1 DEF SpacesInv, SpaceTypes
  <2>6. SpaceKnown(r)'
    BY <1>1, <2>4, <2>5 DEF SpaceKnown
  <2>7. wsReq' \in [Procs -> SpaceRequests] /\ RequestsKnow'
    BY <2>1, <2>4, <2>5, <2>6, KnownStays DEF SpacesInv
  <2>8. PersonalOf(u) \in SpaceRecords /\ PersonalOf(u).owner = u /\ PersonalOf(u).personal = TRUE /\ PersonalOf(u) # W!NoSpace
    BY <1>1 DEF PersonalOf, SpaceRecords, W!NoSpace
  <2>9. SpaceTypes'
    BY <1>1, <2>1, <2>7, <2>8 DEF SpacesInv, SpaceTypes
  <2>10. \A v \in Spaces : space[v] # PersonalOf(u)
    BY <1>3, <2>8 DEF W!Refused, W!Personal
  <2>11. OnePersonal'
    BY <2>5, <2>10 DEF SpacesInv, OnePersonal
  <2>12. Unclaimed'
    BY <1>1, <2>1, <2>5, <2>8 DEF SpacesInv, Unclaimed
  <2>13. PersonalAlone' /\ TeamsOwned'
    BY <1>1, <2>1, <2>5, <2>8 DEF SpacesInv, PersonalAlone, TeamsOwned, Unclaimed
  <2>14. \A v : PersonalOf(v) # W!NoSpace
    BY DEF PersonalOf, W!NoSpace
  <2>15. EnsuredHave'
    BY <1>1, <2>1, <2>5, <2>14 DEF SpacesInv, EnsuredHave
  <2> QED
    BY <2>7, <2>9, <2>11, <2>12, <2>13, <2>15 DEF SpacesInv
<1> QED
  BY <1>2, <1>3

LEMMA TeamWrites == ASSUME SpacesInv, NEW u \in Users, NEW w \in Spaces, W!CreateTeam(u, w) PROVE SpacesInv'
<1> DEFINE team == [owner |-> u, personal |-> FALSE]
<1>1. /\ space[w] = W!NoSpace /\ space' = [space EXCEPT ![w] = team]
      /\ member' = [member EXCEPT ![w][u] = Owning]
      /\ UNCHANGED <<wsReq, ensured, adds>>
  BY DEF W!CreateTeam, Owning
<1>2. team \in SpaceRecords /\ team.owner = u /\ team.personal = FALSE /\ team # W!NoSpace
  BY SpaceAssumption DEF SpaceRecords, W!NoSpace
<1> HIDE DEF team
<1>3. Owning \in MemberRecords /\ Owning # W!NoMember
  BY DEF MemberRecords, Owning, W!NoMember
<1>4. space'[w] = team /\ \A v \in Spaces \ {w} : space'[v] = space[v] /\ member'[v] = member[v]
  BY <1>1 DEF SpacesInv, SpaceTypes
<1>5. member'[w][u] = Owning
  BY <1>1 DEF SpacesInv, SpaceTypes
<1>6. SpaceTypes'
  BY <1>1, <1>2, <1>3 DEF SpacesInv, SpaceTypes
<1>7. \A v : PersonalOf(v) # W!NoSpace /\ PersonalOf(v) # team
  BY <1>2 DEF PersonalOf, W!NoSpace
<1>8. RequestsKnow'
  BY <1>1, <1>4, <1>7 DEF SpacesInv, RequestsKnow, SpaceKnown
<1>9. Unclaimed' /\ OnePersonal' /\ PersonalAlone'
  BY <1>1, <1>2, <1>4 DEF SpacesInv, Unclaimed, OnePersonal, PersonalAlone
<1>10. TeamsOwned'
  BY <1>1, <1>2, <1>4, <1>5 DEF SpacesInv, TeamsOwned
<1>11. EnsuredHave'
  BY <1>1, <1>4, <1>7 DEF SpacesInv, EnsuredHave
<1> QED
  BY <1>6, <1>8, <1>9, <1>10, <1>11 DEF SpacesInv

\* A member's record is written; the request ends.
LEMMA MemberWrites ==
  ASSUME SpacesInv, NEW p \in Procs, SpaceGoes(p, W!Idle), UNCHANGED space,
         member' \in [Spaces -> [Users -> MemberRecords]],
         ensured' \in SUBSET Users, adds' \in 0..MaxAdds,
         Unclaimed', PersonalAlone', TeamsOwned', EnsuredHave'
  PROVE  SpacesInv'
<1>1. SpaceKnown(W!Idle)'
  BY SpaceIdle DEF SpaceKnown
<1>2. wsReq' \in [Procs -> SpaceRequests] /\ RequestsKnow'
  BY <1>1, SpaceIdle, KnownStays DEF SpacesInv
<1> QED
  BY <1>2 DEF SpacesInv, SpaceTypes, OnePersonal

LEMMA JoinWrites == ASSUME SpacesInv, NEW p \in Procs, W!EnsureJoin(p) PROVE SpacesInv'
<1> DEFINE u == wsReq[p].user
           w == wsReq[p].space
<1>1. u \in Users /\ w \in Spaces /\ space[w] = PersonalOf(u)
  BY DEF W!EnsureJoin, SpacesInv, RequestsKnow, SpaceKnown
<1>2. /\ SpaceGoes(p, W!Idle) /\ UNCHANGED <<space, adds>> /\ ensured' = ensured \cup {u}
      /\ member' = IF member[w][u] = W!NoMember THEN [member EXCEPT ![w][u] = Owning] ELSE member
  BY SpaceFinish DEF W!EnsureJoin, W!Upserted, Owning
<1> HIDE DEF u, w
<1>3. Owning \in MemberRecords /\ Owning # W!NoMember
  BY DEF MemberRecords, Owning, W!NoMember
<1>4. PersonalOf(u).owner = u /\ PersonalOf(u).personal = TRUE /\ PersonalOf(u) # W!NoSpace
  BY DEF PersonalOf, W!NoSpace
<1>5. member \in [Spaces -> [Users -> MemberRecords]]
  BY DEF SpacesInv, SpaceTypes
<1>6. member' \in [Spaces -> [Users -> MemberRecords]]
  BY <1>1, <1>2, <1>3, <1>5
<1>7. member'[w][u] = Owning
  BY <1>1, <1>2, <1>4, <1>5 DEF SpacesInv, PersonalAlone
<1>8. \A v \in Spaces, x \in Users : v # w \/ x # u => member'[v][x] = member[v][x]
  BY <1>1, <1>2, <1>5
<1>9. Unclaimed' /\ PersonalAlone' /\ TeamsOwned'
  <2>1. Unclaimed'
    BY <1>1, <1>2, <1>4, <1>8 DEF SpacesInv, Unclaimed
  <2>2. PersonalAlone'
    BY <1>1, <1>2, <1>4, <1>7, <1>8 DEF SpacesInv, PersonalAlone
  <2>3. TeamsOwned'
    <3>1. ASSUME NEW v \in Spaces, space[v] # W!NoSpace, ~space[v].personal
          PROVE  member'[v][space[v].owner] = Owning
      <4>1. v # w /\ space[v].owner \in Users
        BY <1>1, <1>4, <3>1 DEF SpacesInv, SpaceTypes, SpaceRecords
      <4> QED
        BY <1>8, <3>1, <4>1 DEF SpacesInv, TeamsOwned
    <3> QED
      BY <1>2, <3>1 DEF TeamsOwned
  <2> QED
    BY <2>1, <2>2, <2>3
<1>10. EnsuredHave'
  BY <1>1, <1>2, <1>7, <1>8 DEF SpacesInv, SpaceTypes, EnsuredHave
<1> QED
  BY <1>1, <1>2, <1>6, <1>9, <1>10, MemberWrites DEF SpacesInv, SpaceTypes

\* A record of a team's member, not its owner's, is written: whatever it becomes, the others stay.
LEMMA TeamMemberWrites ==
  ASSUME SpacesInv, NEW p \in Procs, SpaceGoes(p, W!Idle), UNCHANGED <<space, ensured>>, adds' \in 0..MaxAdds,
         NEW w \in Spaces, NEW u \in Users, space[w] # W!NoSpace, ~space[w].personal, member[w][u] # Owning,
         NEW m \in MemberRecords, member' = [member EXCEPT ![w][u] = m]
  PROVE  SpacesInv'
<1>1. member \in [Spaces -> [Users -> MemberRecords]]
  BY DEF SpacesInv, SpaceTypes
<1>2. /\ member' \in [Spaces -> [Users -> MemberRecords]]
      /\ \A v \in Spaces, x \in Users : v # w \/ x # u => member'[v][x] = member[v][x]
  BY <1>1
<1>3. Unclaimed' /\ PersonalAlone'
  BY <1>2 DEF SpacesInv, Unclaimed, PersonalAlone
<1>4. TeamsOwned'
  <2>1. ASSUME NEW v \in Spaces, space[v] # W!NoSpace, ~space[v].personal
        PROVE  member'[v][space[v].owner] = Owning
    <3>1. space[v].owner \in Users /\ member[v][space[v].owner] = Owning
      BY <2>1 DEF SpacesInv, SpaceTypes, SpaceRecords, TeamsOwned
    <3> QED
      BY <1>2, <3>1
  <2> QED
    BY <2>1 DEF TeamsOwned
<1>5. EnsuredHave'
  <2>1. ASSUME NEW x \in ensured PROVE \E v \in Spaces : space[v] = PersonalOf(x) /\ member'[v][x] = Owning
    <3>1. PICK v \in Spaces : space[v] = PersonalOf(x) /\ member[v][x] = Owning
      BY <2>1 DEF SpacesInv, EnsuredHave
    <3>2. space[v].personal /\ x \in Users
      BY <3>1 DEF SpacesInv, SpaceTypes, PersonalOf
    <3> QED
      BY <1>2, <3>1, <3>2
  <2> QED
    BY <2>1 DEF EnsuredHave
<1> QED
  BY <1>2, <1>3, <1>4, <1>5, MemberWrites DEF SpacesInv, SpaceTypes

LEMMA SpaceEnds ==
  ASSUME SpacesInv, NEW p \in Procs, W!Finish(p), UNCHANGED <<space, member, ensured, adds>> PROVE SpacesInv'
<1>1. Looks(p)
  BY SpaceFinish, SpaceIdle DEF Looks
<1> QED
  BY <1>1, LooksKeeps

LEMMA AddWrites == ASSUME SpacesInv, NEW p \in Procs, W!AddWrite(p) PROVE SpacesInv'
<1> DEFINE u == wsReq[p].user
           w == wsReq[p].space
           m == [role |-> wsReq[p].role, id |-> adds + 1]
<1>1. /\ u \in Users /\ w \in Spaces /\ space[w] # W!NoSpace /\ ~space[w].personal
      /\ wsReq[p].role \in W!Assignable
  BY DEF W!AddWrite, SpacesInv, RequestsKnow, SpaceKnown
<1>2. W!Finish(p) /\ UNCHANGED <<space, ensured>>
  BY DEF W!AddWrite
<1>3. CASE member[w][u] = W!NoMember
  <2>1. adds < MaxAdds /\ adds' = adds + 1 /\ member' = [member EXCEPT ![w][u] = m]
    BY <1>3 DEF W!AddWrite
  <2>2. adds \in Nat /\ adds + 1 \in 1..MaxAdds /\ adds + 1 \in 0..MaxAdds
    BY <2>1, SpaceAssumption DEF SpacesInv, SpaceTypes
  <2>3. m \in MemberRecords
    BY <1>1, <2>2 DEF MemberRecords
  <2>4. member[w][u] # Owning
    BY <1>3 DEF Owning, W!NoMember
  <2> HIDE DEF u, w, m
  <2> QED
    BY <1>1, <1>2, <2>1, <2>2, <2>3, <2>4, SpaceFinish, TeamMemberWrites
<1>4. CASE member[w][u] # W!NoMember
  <2>1. UNCHANGED <<member, adds>>
    BY <1>4 DEF W!AddWrite
  <2> QED
    BY <1>2, <2>1, SpaceEnds
<1> QED
  BY <1>3, <1>4

LEMMA ChangeWrites == ASSUME SpacesInv, NEW p \in Procs, W!ChangeWrite(p) PROVE SpacesInv'
<1> DEFINE u == wsReq[p].user
           w == wsReq[p].space
           m == member[w][u]
           n == IF wsReq[p].role = "none" THEN W!NoMember ELSE [m EXCEPT !.role = wsReq[p].role]
<1>1. /\ u \in Users /\ w \in Spaces /\ space[w] # W!NoSpace /\ ~space[w].personal
      /\ wsReq[p] \in SpaceRequests /\ wsReq[p].id \in 1..MaxAdds
  BY DEF W!ChangeWrite, SpacesInv, SpaceTypes, RequestsKnow, SpaceKnown
<1>2. W!Finish(p) /\ UNCHANGED <<space, ensured, adds>>
  BY DEF W!ChangeWrite
<1>3. CASE m = W!NoMember \/ m.id # wsReq[p].id
  <2>1. UNCHANGED member
    BY <1>3 DEF W!ChangeWrite
  <2> QED
    BY <1>2, <2>1, SpaceEnds
<1>4. CASE m # W!NoMember /\ m.id = wsReq[p].id
  <2>1. member' = [member EXCEPT ![w][u] = n]
    BY <1>4 DEF W!ChangeWrite
  <2>2. m \in MemberRecords
    BY <1>1 DEF SpacesInv, SpaceTypes
  <2>3. m \in [role : W!Assignable, id : 1..MaxAdds] /\ m # Owning
    BY <1>1, <1>4, <2>2 DEF MemberRecords, Owning
  <2>4. wsReq[p].role \in W!Assignable \cup {"none"}
    BY <1>1 DEF SpaceRequests
  <2> HIDE DEF m
  <2>5. n \in MemberRecords
    BY <2>3, <2>4 DEF MemberRecords
  <2>6. member[w][u] # Owning
    BY <2>3 DEF m
  <2>7. adds' \in 0..MaxAdds
    BY <1>2 DEF SpacesInv, SpaceTypes
  <2> HIDE DEF u, w, n
  <2> QED
    BY <1>1, <1>2, <2>1, <2>5, <2>6, <2>7, SpaceFinish, TeamMemberWrites
<1> QED
  BY <1>3, <1>4

LEMMA SpaceStep == SpacesInv /\ W!Next => SpacesInv'
<1> SUFFICES ASSUME SpacesInv, W!Next PROVE SpacesInv'
  OBVIOUS
<1>1. ASSUME NEW p \in Procs, W!Ensure(p) PROVE SpacesInv'
  BY <1>1, FindLooks, LooksKeeps, InsertWrites, RefetchLooks, JoinWrites, Zenon DEF W!Ensure
<1>2. ASSUME NEW p \in Procs, W!Members(p) PROVE SpacesInv'
  BY <1>2, AddLooks, ChangeLooks, LooksKeeps, AddWrites, ChangeWrites, Zenon DEF W!Members
<1>3. ASSUME NEW p \in Procs, W!Crash(p) PROVE SpacesInv'
  BY <1>3, SpaceEnds DEF W!Crash
<1>4. ASSUME NEW u \in Users, NEW w \in Spaces, W!CreateTeam(u, w) PROVE SpacesInv'
  BY <1>4, TeamWrites
<1> QED
  BY <1>1, <1>2, <1>3, <1>4, Zenon DEF W!Next

LEMMA SpacePart == ASSUME [MCNext]_allVars PROVE part' = part /\ (UNCHANGED spaceVars \/ W!Next)
  BY DEF MCNext, allVars, spaceVars

LEMMA SpacesInit == MCInit => SpacesInv
<1>1. ASSUME W!Init PROVE SpacesInv
  <2>1. W!NoSpace \in SpaceRecords /\ W!NoSpace.personal = FALSE
    BY DEF SpaceRecords, W!NoSpace
  <2>2. W!NoMember \in MemberRecords
    BY DEF MemberRecords
  <2>3. SpaceTypes
    BY <1>1, <2>1, <2>2, SpaceIdle, SpaceAssumption DEF W!Init, SpaceTypes
  <2>4. RequestsKnow
    BY <1>1, SpaceIdle DEF W!Init, RequestsKnow
  <2> QED
    BY <1>1, <2>1, <2>3, <2>4 DEF W!Init, SpacesInv, Unclaimed, OnePersonal, PersonalAlone, TeamsOwned, EnsuredHave
<1> QED
  BY <1>1 DEF MCInit

LEMMA SpacesAlways == MCSpec => []SpacesInv
<1>1. SpacesInv /\ [MCNext]_allVars => SpacesInv'
  <2> SUFFICES ASSUME SpacesInv, [MCNext]_allVars PROVE SpacesInv'
    OBVIOUS
  <2>1. CASE UNCHANGED spaceVars
    BY <2>1 DEF spaceVars, SpacesInv, SpaceTypes, RequestsKnow, SpaceKnown, Unclaimed, OnePersonal,
                PersonalAlone, TeamsOwned, EnsuredHave
  <2> QED
    BY <2>1, SpacePart, SpaceStep
<1> QED
  BY <1>1, SpacesInit, PTL DEF MCSpec

\* However many sign-ins of a user overlap, the personal workspace they end with is one and is its owner's,
\* and a team keeps its owner (workspaces.ts ensurePersonalWorkspace).
THEOREM OwnersAlwaysBelong == MCSpec => []OwnersBelong
<1>1. SpacesInv => OwnersBelong
  BY OwnersBelongFromInv DEF OwnersBelong
<1> QED
  BY <1>1, SpacesAlways, PTL

-----------------------------------------------------------------------------
\* The migrations of the database.

RunRecords == [at : {"idle", "run"}, applied : SUBSET M!Migrations, m : 1..6, s : 1..5]

MigrationTypes ==
  /\ log \in SUBSET M!Migrations /\ validator \in [M!Collections -> 0..5] /\ app \in 0..5
  /\ filled \in [Filed -> (SUBSET M!Filled) \cup {None}]
  /\ run \in [Runs -> RunRecords]
  /\ \A r \in Runs : run[r].at = "idle" => run[r] = M!NotRunning
  /\ slipped \in SUBSET Filed /\ spoiled \in BOOLEAN

\* What is recorded has no gaps, and a run knows of no gaps, applies nothing that it was told is applied,
\* and has recorded what it is past.
Gapless(X) == \A m \in X : 1..m \subseteq X
LogKnown == /\ Gapless(log)
            /\ \A r \in Runs : run[r].at = "run" => /\ Gapless(run[r].applied) /\ run[r].applied \subseteq log
                                                    /\ 1..(run[r].m - 1) \subseteq log

\* Run r did the write j of migration n, or will do it.
Passed(r, n, j) == /\ run[r].at = "run" /\ n \notin run[r].applied
                   /\ run[r].m > n \/ (run[r].m = n /\ run[r].s > j)
Comes(r, n, j) == /\ run[r].at = "run" /\ n \notin run[r].applied
                  /\ run[r].m < n \/ (run[r].m = n /\ run[r].s <= j)

\* A write that was done, and what it did while nobody undoes it.
Due(n, j) == n \in log \/ \E r \in Runs : Passed(r, n, j)
Done(n, j) == LET step == M!Steps[n][j] IN
  /\ step.do = "validate" => validator[step.on] >= n
  /\ step.do = "index" => (step.on \in M!IndexesOf(M!Migrations) => step.on \in index)
  /\ step.do = "drop" => step.on \notin index
  /\ step.do = "fill" => \A d \in Filed \ slipped : filled[d] # None => n \in filled[d]

\* What an earlier migration undid when it was applied again, the run that did so will do once more.
DoneOrComes == ~spoiled => \A n \in M!Migrations : \A j \in DOMAIN M!Steps[n] :
                             Due(n, j) => Done(n, j) \/ \E r \in Runs : Comes(r, n, j)

\* The inductive invariant behind DoneUnlessDied.
MigrationsInv == MigrationTypes /\ LogKnown /\ DoneOrComes

LEMMA MigrationTypesFit == ASSUME MigrationTypes PROVE M!TypeOK
  BY DEF MigrationTypes, M!TypeOK, RunRecords, M!Migrations

-----------------------------------------------------------------------------
\* What the migrations write.

StepKnown(n, j) ==
  LET step == M!Steps[n][j] IN
    /\ step = [do |-> step.do, on |-> step.on]
    /\ step.do \in {"validate", "index", "drop", "fill"}
    /\ step.do = "validate" => step.on \in M!Collections
    /\ step.do = "fill" => /\ n \in M!Filled /\ step = M!Fill
                           /\ \E k \in DOMAIN M!Steps[n] : k > j /\ M!Steps[n][k] = M!Validate("documents")

LEMMA StepsKnown == ASSUME NEW n \in M!Migrations
                    PROVE /\ Len(M!Steps[n]) \in 1..4 /\ DOMAIN M!Steps[n] = 1..Len(M!Steps[n])
                          /\ \A j \in DOMAIN M!Steps[n] : StepKnown(n, j)
<1> USE DEF StepKnown, M!Steps, M!AuthIndexes, M!CoreCollections, M!Uploads, M!Library, M!NewDocuments, M!Validate,
            M!Index, M!Drop, M!Fill, M!Collections, M!Filled
<1>1. CASE n = 1
  BY <1>1
<1>2. CASE n = 2
  BY <1>2
<1>3. CASE n = 3
  BY <1>3
<1>4. CASE n = 4
  BY <1>4
<1>5. CASE n = 5
  BY <1>5
<1> QED
  BY <1>1, <1>2, <1>3, <1>4, <1>5 DEF M!Migrations

\* An index is dropped by a later migration than the one that creates it.
LEMMA DroppedLater ==
  ASSUME NEW n \in M!Migrations, NEW j \in DOMAIN M!Steps[n], M!Steps[n][j].do = "drop",
         NEW m \in M!Migrations, NEW s \in DOMAIN M!Steps[m], M!Steps[m][s].do = "index",
         M!Steps[m][s].on = M!Steps[n][j].on
  PROVE m < n
<1> USE DEF M!Steps, M!AuthIndexes, M!CoreCollections, M!Uploads, M!Library, M!NewDocuments, M!Validate,
            M!Index, M!Drop, M!Fill
<1>1. (n = 3 /\ j = 2) \/ (n = 4 /\ j = 3)
  <2>1. CASE n \in {1, 2}
    BY <2>1
  <2>2. CASE n = 3
    BY <2>2
  <2>3. CASE n = 4
    BY <2>3
  <2>4. CASE n = 5
    BY <2>4
  <2> QED
    BY <2>1, <2>2, <2>3, <2>4 DEF M!Migrations
<1>2. CASE m \in {1, 2}
  BY <1>1, <1>2
<1>3. CASE m = 3
  BY <1>1, <1>3
<1>4. CASE m = 4
  BY <1>1, <1>4
<1>5. CASE m = 5
  BY <1>1, <1>5
<1> QED
  BY <1>2, <1>3, <1>4, <1>5 DEF M!Migrations

LEMMA NewestIsTop == ASSUME NEW X \in SUBSET (0..5), X # {}
                     PROVE M!Newest(X) \in X /\ \A n \in X : n <= M!Newest(X)
<1>1. \E m \in X : \A n \in X : n <= m
  <2>1. CASE 5 \in X
    BY <2>1
  <2>2. CASE 5 \notin X /\ 4 \in X
    BY <2>2
  <2>3. CASE 5 \notin X /\ 4 \notin X /\ 3 \in X
    BY <2>3
  <2>4. CASE 5 \notin X /\ 4 \notin X /\ 3 \notin X /\ 2 \in X
    BY <2>4
  <2>5. CASE 5 \notin X /\ 4 \notin X /\ 3 \notin X /\ 2 \notin X /\ 1 \in X
    BY <2>5
  <2>6. CASE 5 \notin X /\ 4 \notin X /\ 3 \notin X /\ 2 \notin X /\ 1 \notin X
    <3>1. \A n \in X : n = 0
      BY <2>6
    <3>2. PICK m \in X : TRUE
      OBVIOUS
    <3> QED
      BY <3>1, <3>2
  <2> QED
    BY <2>1, <2>2, <2>3, <2>4, <2>5, <2>6
<1> QED
  BY <1>1 DEF M!Newest

LEMMA VersionsFit == ASSUME NEW cl, NEW X \in SUBSET M!Migrations
                     PROVE M!Versions(cl, X) \in SUBSET (0..5) /\ M!Versions(cl, X) # {}
<1> DEFINE Of == {m \in X : M!Does(m, M!Validate(cl))}
<1>1. \A m \in Of : m \in 0..5
  BY DEF M!Migrations
<1>2. M!Versions(cl, X) = {0} \cup Of /\ 0 \in 0..5
  BY DEF M!Versions
<1> QED
  BY <1>1, <1>2

-----------------------------------------------------------------------------
\* The invariant says what DoneUnlessDied asks for.

LEMMA RecordedFromInv == ASSUME MigrationsInv PROVE M!DoneUnlessDied
<1> SUFFICES ASSUME M!Idle, ~spoiled
             PROVE /\ \A cl \in M!Collections : validator[cl] >= M!Newest(M!Versions(cl, log))
                   /\ \A i \in M!IndexesOf(M!Migrations), m \in log : M!Does(m, M!Index(i)) => i \in index
                   /\ \A i \in index, m \in log : ~M!Does(m, M!Drop(i))
                   /\ \A d \in Filed \ slipped :
                        filled[d] # None => M!Upto(M!Newest({0} \cup log)) \subseteq filled[d]
  BY DEF M!DoneUnlessDied, M!Done
<1>1. \A r \in Runs : run[r].at = "idle"
  BY DEF M!Idle, M!NotRunning
<1>2. \A n \in log : \A j \in DOMAIN M!Steps[n] : Done(n, j)
  BY <1>1 DEF MigrationsInv, MigrationTypes, DoneOrComes, Due, Comes
<1>3. log \in SUBSET M!Migrations
  BY DEF MigrationsInv, MigrationTypes
<1>4. ASSUME NEW cl \in M!Collections PROVE validator[cl] >= M!Newest(M!Versions(cl, log))
  <2>1. M!Newest(M!Versions(cl, log)) \in M!Versions(cl, log)
    BY <1>3, VersionsFit, NewestIsTop
  <2>2. validator[cl] \in 0..5
    BY DEF MigrationsInv, MigrationTypes
  <2>3. ASSUME NEW n \in log, M!Does(n, M!Validate(cl)) PROVE validator[cl] >= n
    BY <1>2, <2>3 DEF M!Does, Done, M!Validate
  <2> QED
    BY <2>1, <2>2, <2>3 DEF M!Versions
<1>5. ASSUME NEW i \in M!IndexesOf(M!Migrations), NEW m \in log, M!Does(m, M!Index(i)) PROVE i \in index
  BY <1>2, <1>5 DEF M!Does, Done, M!Index
<1>6. ASSUME NEW i \in index, NEW m \in log, M!Does(m, M!Drop(i)) PROVE FALSE
  BY <1>2, <1>6 DEF M!Does, Done, M!Drop
<1>7. ASSUME NEW d \in Filed \ slipped, filled[d] # None, NEW n \in M!Upto(M!Newest({0} \cup log))
      PROVE n \in filled[d]
  <2>1. M!Newest({0} \cup log) \in {0} \cup log
    <3>1. {0} \cup log \in SUBSET (0..5) /\ {0} \cup log # {}
      BY <1>3 DEF M!Migrations
    <3> QED
      BY <3>1, NewestIsTop
  <2>2. n \in {4, 5} /\ n <= M!Newest({0} \cup log)
    BY <1>7 DEF M!Upto, M!Filled
  <2>3. n \in log
    <3>1. PICK m : m = M!Newest({0} \cup log)
      OBVIOUS
    <3>2. m \in log /\ m \in 1..5 /\ n \in 1..m
      <4>1. m \in {0} \cup log /\ n \in {4, 5} /\ n <= m
        BY <2>1, <2>2, <3>1, Zenon
      <4>2. \A e \in log : e \in 1..5
        BY <1>3 DEF M!Migrations
      <4> QED
        BY <4>1, <4>2
    <3> QED
      BY <3>2 DEF MigrationsInv, LogKnown, Gapless
  <2>4. PICK j \in DOMAIN M!Steps[n] : M!Steps[n][j] = M!Fill
    BY <2>2 DEF M!Steps, M!Library, M!NewDocuments
  <2> QED
    BY <1>2, <1>7, <2>3, <2>4 DEF Done, M!Fill
<1> QED
  BY <1>4, <1>5, <1>6, <1>7

LEMMA MigrationsStart == ASSUME M!Init PROVE MigrationsInv
<1>1. app \in 0..5 /\ log = 1..app /\ log \in SUBSET M!Migrations
  BY DEF M!Init, M!Migrations
<1>2. run = [r \in Runs |-> M!NotRunning] /\ M!NotRunning \in RunRecords /\ M!NotRunning.at = "idle"
  BY DEF M!Init, M!NotRunning, RunRecords
<1>3. \A cl \in M!Collections : /\ validator[cl] = M!Newest(M!Versions(cl, log)) /\ validator[cl] \in 0..5
                                /\ \A n \in M!Versions(cl, log) : n <= validator[cl]
  <2>1. validator = [cl \in M!Collections |-> M!Newest(M!Versions(cl, log))]
    BY DEF M!Init, M!ValidatorsOf
  <2>2. ASSUME NEW cl \in M!Collections
        PROVE /\ M!Newest(M!Versions(cl, log)) \in 0..5
              /\ \A n \in M!Versions(cl, log) : n <= M!Newest(M!Versions(cl, log))
    <3>1. M!Versions(cl, log) \in SUBSET (0..5) /\ M!Versions(cl, log) # {}
      BY <1>1, VersionsFit
    <3> QED
      BY <3>1, NewestIsTop
  <2> QED
    BY <2>1, <2>2
<1>4. validator \in [M!Collections -> 0..5]
  BY <1>3 DEF M!Init, M!ValidatorsOf
<1>5. filled \in [Filed -> (SUBSET M!Filled) \cup {None}]
  BY DEF M!Init, M!Upto
<1>6. MigrationTypes
  BY <1>1, <1>2, <1>4, <1>5 DEF M!Init, MigrationTypes
<1>7. LogKnown
  BY <1>1, <1>2 DEF LogKnown, Gapless
<1>8. ASSUME NEW n \in log, NEW j \in DOMAIN M!Steps[n] PROVE Done(n, j)
  <2>1. StepKnown(n, j) /\ n \in M!Migrations
    BY <1>1, StepsKnown
  <2>2. CASE M!Steps[n][j].do = "validate"
    <3>1. M!Steps[n][j].on \in M!Collections /\ n \in M!Versions(M!Steps[n][j].on, log)
      BY <2>1, <2>2 DEF StepKnown, M!Versions, M!Does, M!Validate
    <3>2. n <= validator[M!Steps[n][j].on]
      BY <1>3, <3>1
    <3>3. validator[M!Steps[n][j].on] >= n
      BY <1>3, <2>1, <3>1, <3>2 DEF M!Migrations
    <3> QED
      BY <2>2, <3>3 DEF Done
  <2>3. CASE M!Steps[n][j].do = "index"
    <3>1. M!Does(n, M!Index(M!Steps[n][j].on))
      BY <2>1, <2>3 DEF StepKnown, M!Does, M!Index
    <3>2. M!Steps[n][j].on \in M!IndexesOf(M!Migrations) => M!Steps[n][j].on \in M!IndexesOf(log)
      BY <1>1, <3>1 DEF M!IndexesOf
    <3> QED
      BY <2>3, <3>2 DEF Done, M!Init
  <2>4. CASE M!Steps[n][j].do = "drop"
    <3>1. M!Does(n, M!Drop(M!Steps[n][j].on))
      BY <2>1, <2>4 DEF StepKnown, M!Does, M!Drop
    <3>2. M!Steps[n][j].on \notin M!IndexesOf(log)
      BY <3>1 DEF M!IndexesOf
    <3> QED
      BY <2>4, <3>2 DEF Done, M!Init
  <2>5. CASE M!Steps[n][j].do = "fill"
    <3>1. n \in M!Filled /\ n <= app /\ n \in M!Upto(app)
      BY <1>1, <2>1, <2>5 DEF StepKnown, M!Upto
    <3>2. \A d \in Filed : filled[d] # None => filled[d] = M!Upto(app)
      BY DEF M!Init
    <3> QED
      BY <2>5, <3>1, <3>2 DEF Done
  <2> QED
    BY <2>1, <2>2, <2>3, <2>4, <2>5 DEF StepKnown
<1>9. DoneOrComes
  BY <1>2, <1>8 DEF DoneOrComes, Due, Passed
<1> QED
  BY <1>6, <1>7, <1>9 DEF MigrationsInv

-----------------------------------------------------------------------------
\* A run.

\* Where run r is, and what the invariant knows of it.
LEMMA RunKnown == ASSUME MigrationsInv, NEW r \in Runs
                  PROVE /\ run[r] \in RunRecords /\ run[r].applied \in SUBSET M!Migrations
                        /\ run[r].m \in 1..6 /\ run[r].s \in 1..5
  BY DEF MigrationsInv, MigrationTypes, RunRecords

LEMMA RunMoved == ASSUME NEW r \in Runs, NEW w \in RunRecords, w = run[r], w.m \in 1..5
                  PROVE /\ M!NextMigration(r) \in RunRecords
                        /\ M!NextMigration(r).at = w.at /\ M!NextMigration(r).applied = w.applied
                        /\ M!NextMigration(r).m = w.m + 1 /\ M!NextMigration(r).s = 1
<1>1. PICK m \in 1..6 : m = w.m + 1
  OBVIOUS
<1>2. PICK s \in 1..5 : s = 1
  OBVIOUS
<1>3. M!NextMigration(r) = [w EXCEPT !.m = m, !.s = s]
  BY <1>1, <1>2, Zenon DEF M!NextMigration
<1>4. LET x == [w EXCEPT !.m = m, !.s = s] IN
        x \in RunRecords /\ x.at = w.at /\ x.applied = w.applied /\ x.m = m /\ x.s = s
  BY DEF RunRecords
<1> QED
  BY <1>1, <1>2, <1>3, <1>4, Zenon

\* The other runs stay where they are.
LEMMA OthersStay == ASSUME NEW r \in Runs, NEW x, run' = [run EXCEPT ![r] = x], NEW q \in Runs \ {r}, NEW n, NEW j
                    PROVE /\ run'[q] = run[q]
                          /\ Passed(q, n, j)' <=> Passed(q, n, j)
                          /\ Comes(q, n, j)' <=> Comes(q, n, j)
<1>1. run'[q] = run[q]
  OBVIOUS
<1> QED
  BY <1>1 DEF Passed, Comes

\* A run moves and the database stays: what it has passed was passed or is recorded, and what it
\* was to do it still will.
LEMMA MovesOn ==
  ASSUME MigrationsInv, NEW r \in Runs, NEW x \in RunRecords, run' = [run EXCEPT ![r] = x],
         x.at = "idle" => x = M!NotRunning,
         UNCHANGED <<validator, index, filled, app, slipped, spoiled>>,
         log' \in SUBSET M!Migrations, LogKnown',
         \A n \in M!Migrations : \A j \in DOMAIN M!Steps[n] : n \in log' \/ Passed(r, n, j)' => Due(n, j),
         \A n \in M!Migrations : \A j \in DOMAIN M!Steps[n] : Comes(r, n, j) => Comes(r, n, j)'
  PROVE MigrationsInv'
<1>1. MigrationTypes'
  BY DEF MigrationsInv, MigrationTypes
<1>2. ASSUME ~spoiled', NEW n \in M!Migrations, NEW j \in DOMAIN M!Steps[n], Due(n, j)'
      PROVE Done(n, j)' \/ \E q \in Runs : Comes(q, n, j)'
  <2>1. Due(n, j)
    BY <1>2, OthersStay DEF Due
  <2>2. Done(n, j) \/ \E q \in Runs : Comes(q, n, j)
    BY <1>2, <2>1 DEF MigrationsInv, DoneOrComes
  <2>3. Done(n, j) => Done(n, j)'
    BY DEF Done
  <2>4. ASSUME NEW q \in Runs, Comes(q, n, j) PROVE Comes(q, n, j)'
    BY <2>4, OthersStay
  <2> QED
    BY <2>2, <2>3, <2>4
<1> QED
  BY <1>1, <1>2 DEF MigrationsInv, DoneOrComes

LEMMA RunStarts == ASSUME MigrationsInv, NEW r \in Runs, M!Start(r) PROVE MigrationsInv'
<1> DEFINE x == [at |-> "run", applied |-> log, m |-> 1, s |-> 1]
<1>1. /\ run' = [run EXCEPT ![r] = x] /\ run[r].at = "idle"
      /\ UNCHANGED <<log, validator, index, filled, app, slipped, spoiled>>
  BY DEF M!Start, M!NotRunning
<1>2. x \in RunRecords /\ x.at = "run" /\ x.applied = log /\ x.m = 1 /\ x.s = 1
  BY DEF MigrationsInv, MigrationTypes, RunRecords
<1>3. run'[r] = x
  BY <1>1 DEF MigrationsInv, MigrationTypes
<1> HIDE DEF x
<1>4. LogKnown'
  <2>1. run'[r].applied = log /\ run'[r].m = 1
    BY <1>2, <1>3
  <2>2. \A q \in Runs \ {r} : run'[q] = run[q]
    BY <1>1
  <2>3. 1..(1 - 1) = {}
    OBVIOUS
  <2> QED
    BY <1>1, <2>1, <2>2, <2>3 DEF MigrationsInv, LogKnown, Gapless
<1>5. ASSUME NEW n \in M!Migrations, NEW j \in DOMAIN M!Steps[n], Passed(r, n, j)' PROVE FALSE
  <2>1. j \in Nat /\ j >= 1
    BY StepsKnown
  <2> QED
    BY <1>2, <1>3, <1>5, <2>1 DEF Passed, M!Migrations
<1>6. \A n, j : ~Comes(r, n, j)
  BY <1>1 DEF Comes
<1> QED
  BY <1>1, <1>2, <1>4, <1>5, <1>6, MovesOn DEF Due, MigrationsInv, MigrationTypes

\* On to the next migration, because this one was applied or is now recorded.
LEMMA RunGoesOn ==
  ASSUME MigrationsInv, NEW r \in Runs, M!Working(r), run' = [run EXCEPT ![r] = M!NextMigration(r)],
         UNCHANGED <<validator, index, filled, app, slipped, spoiled>>,
         \/ run[r].m \in run[r].applied /\ log' = log
         \/ run[r].m \notin run[r].applied /\ M!UpDone(r) /\ log' = log \cup {run[r].m}
  PROVE MigrationsInv'
<1>1. /\ run[r] \in RunRecords /\ run[r].applied \in SUBSET M!Migrations /\ run[r].m \in 1..5 /\ run[r].s \in 1..5
      /\ run[r].at = "run"
  BY RunKnown DEF M!Working, M!Migrations
<1> DEFINE x == M!NextMigration(r)
<1>2. /\ x \in RunRecords /\ x.at = "run" /\ x.applied = run[r].applied /\ x.m = run[r].m + 1 /\ x.s = 1
  BY <1>1, RunMoved
<1>3. run'[r] = x /\ run' = [run EXCEPT ![r] = x]
  BY DEF MigrationsInv, MigrationTypes
<1> HIDE DEF x
<1>4. log' \in SUBSET M!Migrations /\ log \subseteq log' /\ run[r].m \in log'
  BY <1>1 DEF MigrationsInv, MigrationTypes, LogKnown, M!Migrations
<1>5. 1..run[r].m \subseteq log'
  <2>1. 1..(run[r].m - 1) \subseteq log
    BY <1>1 DEF MigrationsInv, LogKnown
  <2> QED
    BY <1>1, <1>4, <2>1
<1>6. LogKnown'
  <2>1. Gapless(log')
    BY <1>5 DEF MigrationsInv, LogKnown, Gapless
  <2>2. Gapless(run[r].applied) /\ run[r].applied \subseteq log'
    BY <1>1, <1>4 DEF MigrationsInv, LogKnown
  <2>3. 1..(x.m - 1) \subseteq log'
    BY <1>1, <1>2, <1>5
  <2>4. ASSUME NEW q \in Runs \ {r}, run'[q].at = "run"
        PROVE Gapless(run'[q].applied) /\ run'[q].applied \subseteq log' /\ 1..(run'[q].m - 1) \subseteq log'
    <3>1. run'[q] = run[q]
      BY <1>3
    <3> QED
      BY <1>4, <2>4, <3>1 DEF MigrationsInv, LogKnown
  <2>5. Gapless(run'[r].applied) /\ run'[r].applied \subseteq log' /\ 1..(run'[r].m - 1) \subseteq log'
    BY <1>2, <1>3, <2>2, <2>3
  <2> QED
    BY <2>1, <2>4, <2>5 DEF LogKnown, Gapless
<1>7. ASSUME NEW n \in M!Migrations, NEW j \in DOMAIN M!Steps[n], n \in log' \/ Passed(r, n, j)' PROVE Due(n, j)
  <2>1. j \in Nat /\ 1 <= j /\ j <= Len(M!Steps[n]) /\ Len(M!Steps[n]) \in 1..4 /\ n \in 1..5
    BY StepsKnown DEF M!Migrations
  <2>2. CASE n = run[r].m /\ n \notin run[r].applied
    BY <1>1, <2>1, <2>2 DEF Due, Passed, M!UpDone
  <2>3. CASE n = run[r].m /\ n \in run[r].applied
    BY <1>1, <2>3 DEF Due, MigrationsInv, LogKnown
  <2>4. CASE n # run[r].m
    BY <1>1, <1>2, <1>3, <1>7, <2>1, <2>4 DEF Due, Passed
  <2> QED
    BY <2>2, <2>3, <2>4
<1>8. ASSUME NEW n \in M!Migrations, NEW j \in DOMAIN M!Steps[n], Comes(r, n, j) PROVE Comes(r, n, j)'
  <2>1. j \in Nat /\ 1 <= j /\ j <= Len(M!Steps[n]) /\ Len(M!Steps[n]) \in 1..4 /\ n \in 1..5
    BY StepsKnown DEF M!Migrations
  <2>2. run[r].m < n
    BY <1>1, <1>8, <2>1 DEF Comes, M!UpDone
  <2> QED
    BY <1>1, <1>2, <1>3, <1>8, <2>1, <2>2 DEF Comes
<1> QED
  BY <1>2, <1>3, <1>4, <1>6, <1>7, <1>8, MovesOn

LEMMA RunSkips == ASSUME MigrationsInv, NEW r \in Runs, M!Skip(r) PROVE MigrationsInv'
  BY RunGoesOn DEF M!Skip

LEMMA RunRecordsOne == ASSUME MigrationsInv, NEW r \in Runs, M!Record(r) PROVE MigrationsInv'
  BY RunGoesOn DEF M!Record

LEMMA LogStays == ASSUME LogKnown, NEW r \in Runs, run' = [run EXCEPT ![r] = M!NotRunning], r \in DOMAIN run, log' = log
                  PROVE LogKnown' /\ run'[r] = M!NotRunning
<1>1. run'[r] = M!NotRunning /\ M!NotRunning.at = "idle" /\ \A q \in Runs \ {r} : run'[q] = run[q]
  BY DEF M!NotRunning
<1> QED
  BY <1>1 DEF LogKnown, Gapless

LEMMA RunFinishes == ASSUME MigrationsInv, NEW r \in Runs, M!Finish(r) PROVE MigrationsInv'
<1>1. /\ run[r].at = "run" /\ run[r].m = 6 /\ run' = [run EXCEPT ![r] = M!NotRunning]
      /\ UNCHANGED <<log, validator, index, filled, app, slipped, spoiled>>
  BY RunKnown DEF M!Finish, M!Migrations
<1>2. M!NotRunning \in RunRecords /\ M!NotRunning.at = "idle"
  BY DEF M!NotRunning, RunRecords
<1>3. LogKnown' /\ run'[r] = M!NotRunning
  BY <1>1, LogStays DEF MigrationsInv, MigrationTypes
<1>4. \A n, j : ~Passed(r, n, j)'
  BY <1>2, <1>3 DEF Passed
<1>5. \A n \in M!Migrations : \A j : ~Comes(r, n, j)
  BY <1>1 DEF Comes, M!Migrations
<1>6. log' \in SUBSET M!Migrations
  BY <1>1 DEF MigrationsInv, MigrationTypes
<1> QED
  BY <1>1, <1>2, <1>3, <1>4, <1>5, <1>6, MovesOn DEF Due

\* A process that dies alone, with nothing to do over that is recorded, leaves nothing undone.
LEMMA RunDies == ASSUME MigrationsInv, NEW r \in Runs, M!Die(r) PROVE MigrationsInv'
<1>1. /\ run' = [run EXCEPT ![r] = M!NotRunning] /\ spoiled' = (spoiled \/ M!Overlaps(r))
      /\ UNCHANGED <<log, validator, index, filled, app, slipped>>
  BY DEF M!Die
<1>2. M!NotRunning \in RunRecords /\ M!NotRunning.at = "idle"
  BY DEF M!NotRunning, RunRecords
<1>3. LogKnown' /\ run'[r] = M!NotRunning
  BY <1>1, LogStays DEF MigrationsInv, MigrationTypes
<1>4. MigrationTypes'
  BY <1>1, <1>2, <1>3, Zenon DEF MigrationsInv, MigrationTypes
<1>5. ASSUME ~spoiled', NEW n \in M!Migrations, NEW j \in DOMAIN M!Steps[n], Due(n, j)' PROVE Done(n, j)'
  <2>1. ~spoiled /\ ~M!Overlaps(r)
    BY <1>1, <1>5
  <2>2. \A q \in Runs \ {r} : run[q].at = "idle" /\ run'[q].at = "idle"
    BY <1>1, <1>2, <2>1 DEF M!Overlaps
  <2>3. \A q \in Runs : ~Passed(q, n, j)'
    BY <1>2, <1>3, <2>2 DEF Passed
  <2>4. n \in log
    BY <1>1, <1>5, <2>3 DEF Due
  <2>5. ~Comes(r, n, j)
    <3>1. ~(n >= run[r].m /\ n \notin run[r].applied)
      BY <2>1, <2>4 DEF M!Overlaps
    <3> QED
      BY <3>1, RunKnown DEF Comes, M!Migrations
  <2>6. Done(n, j)
    BY <2>1, <2>2, <2>4, <2>5 DEF MigrationsInv, DoneOrComes, Due, Comes
  <2> QED
    BY <1>1, <2>6 DEF Done
<1> QED
  BY <1>3, <1>4, <1>5 DEF MigrationsInv, DoneOrComes

\* A write of migration m does what it is for, and undoes only what a later migration did.
LEMMA UpWrites ==
  ASSUME MigrationsInv, NEW r \in Runs, M!Up(r), NEW n \in M!Migrations, NEW j \in DOMAIN M!Steps[n],
         \/ n = run[r].m /\ j = run[r].s
         \/ Done(n, j) /\ n <= run[r].m
  PROVE Done(n, j)'
<1> DEFINE m == run[r].m  s == run[r].s  step == M!Steps[m][s]
<1>1. m \in M!Migrations /\ s \in DOMAIN M!Steps[m] /\ StepKnown(m, s) /\ StepKnown(n, j) /\ slipped' = slipped
  <2>1. m \in M!Migrations /\ s \in 1..5 /\ ~(s > Len(M!Steps[m])) /\ slipped' = slipped
    BY RunKnown DEF M!Up, M!Working, M!UpDone
  <2>2. Len(M!Steps[m]) \in 1..4 /\ DOMAIN M!Steps[m] = 1..Len(M!Steps[m])
    BY <2>1, StepsKnown
  <2>3. s \in DOMAIN M!Steps[m]
    BY <2>1, <2>2
  <2> QED
    BY <2>1, <2>3, StepsKnown
<1>2. /\ validator' = IF step.do = "validate" THEN [validator EXCEPT ![step.on] = m] ELSE validator
      /\ index' = CASE step.do = "index" -> index \cup {step.on}
                    [] step.do = "drop" -> index \ {step.on}
                    [] OTHER -> index
      /\ filled' = IF step.do # "fill" THEN filled
                   ELSE [d \in Filed |-> IF filled[d] = None THEN None ELSE filled[d] \cup {m}]
  BY DEF M!Up
<1>3. n = m /\ j = s => M!Steps[n][j] = step
  OBVIOUS
<1> HIDE DEF step
<1> DEFINE t == M!Steps[n][j]
<1>4. ASSUME t.do = "validate" PROVE validator'[t.on] >= n
  <2>1. validator \in [M!Collections -> 0..5] /\ t.on \in M!Collections /\ m \in 1..5 /\ n \in 1..5
    BY <1>1, <1>4 DEF MigrationsInv, MigrationTypes, StepKnown, M!Migrations
  <2>2. CASE step.do = "validate" /\ step.on = t.on
    BY <1>2, <2>1, <2>2
  <2>3. CASE ~(step.do = "validate" /\ step.on = t.on)
    <3>1. validator'[t.on] = validator[t.on]
      BY <1>2, <2>1, <2>3
    <3>2. Done(n, j)
      BY <1>3, <1>4, <2>3
    <3> QED
      BY <1>4, <3>1, <3>2 DEF Done
  <2> QED
    BY <2>2, <2>3
<1>5. ASSUME t.do = "index", t.on \in M!IndexesOf(M!Migrations) PROVE t.on \in index'
  <2>1. CASE n = m /\ j = s
    BY <1>2, <1>3, <1>5, <2>1
  <2>2. CASE ~(n = m /\ j = s)
    <3>1. t.on \in index
      BY <1>5, <2>2 DEF Done
    <3>2. ~(step.do = "drop" /\ step.on = t.on)
      <4>1. step.do = "drop" /\ step.on = t.on => M!Does(m, M!Drop(t.on))
        BY <1>1 DEF StepKnown, M!Does, M!Drop, step
      <4> QED
        BY <1>1, <1>5, <4>1 DEF M!IndexesOf
    <3> QED
      BY <1>2, <3>1, <3>2
  <2> QED
    BY <2>1, <2>2
<1>6. ASSUME t.do = "drop" PROVE t.on \notin index'
  <2>1. CASE n = m /\ j = s
    BY <1>2, <1>3, <1>6, <2>1
  <2>2. CASE ~(n = m /\ j = s)
    <3>1. t.on \notin index /\ n <= m
      BY <1>6, <2>2 DEF Done
    <3>2. ~(step.do = "index" /\ step.on = t.on)
      <4>1. step.do = "index" /\ step.on = t.on => m < n
        BY <1>1, <1>6, DroppedLater DEF step
      <4> QED
        BY <1>1, <3>1, <4>1 DEF M!Migrations
    <3> QED
      BY <1>2, <3>1, <3>2
  <2> QED
    BY <2>1, <2>2
<1>7. ASSUME t.do = "fill", NEW d \in Filed \ slipped, filled'[d] # None PROVE n \in filled'[d]
  <2>1. CASE step.do = "fill"
    <3>1. filled'[d] = IF filled[d] = None THEN None ELSE filled[d] \cup {m}
      BY <1>2, <2>1
    <3>2. n = m \/ (filled[d] # None => n \in filled[d])
      BY <1>7 DEF Done
    <3> QED
      BY <1>7, <3>1, <3>2
  <2>2. CASE step.do # "fill"
    <3>1. Done(n, j) /\ filled' = filled
      BY <1>2, <1>3, <1>7, <2>2
    <3> QED
      BY <1>7, <3>1 DEF Done
  <2> QED
    BY <2>1, <2>2
<1> QED
  BY <1>1, <1>4, <1>5, <1>6, <1>7 DEF Done

LEMMA RunWrites == ASSUME MigrationsInv, NEW r \in Runs, M!Up(r) PROVE MigrationsInv'
<1>1. /\ run[r] \in RunRecords /\ run[r].applied \in SUBSET M!Migrations /\ run[r].m \in 1..5
      /\ run[r].s \in DOMAIN M!Steps[run[r].m] /\ run[r].s \in 1..4 /\ run[r].at = "run" /\ run[r].m \notin run[r].applied
      /\ UNCHANGED <<log, app, slipped, spoiled>>
  BY RunKnown, StepsKnown DEF M!Up, M!Working, M!UpDone, M!Migrations
<1> DEFINE x == [run[r] EXCEPT !.s = run[r].s + 1]
<1>2. run' = [run EXCEPT ![r] = x]
  BY DEF M!Up
<1>3. /\ x \in RunRecords /\ x.at = "run" /\ x.applied = run[r].applied /\ x.m = run[r].m /\ x.s = run[r].s + 1
  BY <1>1 DEF RunRecords
<1>4. run'[r] = x
  BY <1>2 DEF MigrationsInv, MigrationTypes
<1> HIDE DEF x
<1>5. run' \in [Runs -> RunRecords] /\ \A q \in Runs : run'[q].at = "idle" => run'[q] = M!NotRunning
  BY <1>2, <1>3, <1>4 DEF MigrationsInv, MigrationTypes
<1>6. validator' \in [M!Collections -> 0..5] /\ filled' \in [Filed -> (SUBSET M!Filled) \cup {None}]
  <2> DEFINE m == run[r].m  step == M!Steps[m][run[r].s]
  <2>1. m \in M!Migrations /\ StepKnown(m, run[r].s)
    BY <1>1, StepsKnown DEF M!Migrations
  <2>2. /\ validator' = IF step.do = "validate" THEN [validator EXCEPT ![step.on] = m] ELSE validator
        /\ filled' = IF step.do # "fill" THEN filled
                     ELSE [d \in Filed |-> IF filled[d] = None THEN None ELSE filled[d] \cup {m}]
    BY DEF M!Up
  <2>3. step.do = "fill" => m \in M!Filled
    BY <2>1 DEF StepKnown
  <2> HIDE DEF step
  <2>4. validator \in [M!Collections -> 0..5] /\ filled \in [Filed -> (SUBSET M!Filled) \cup {None}] /\ m \in 0..5
    BY <1>1 DEF MigrationsInv, MigrationTypes
  <2>5. validator' \in [M!Collections -> 0..5]
    BY <2>2, <2>4
  <2>6. CASE step.do = "fill"
    <3>1. \A d \in Filed : (IF filled[d] = None THEN None ELSE filled[d] \cup {m}) \in (SUBSET M!Filled) \cup {None}
      BY <2>3, <2>4, <2>6
    <3> QED
      BY <2>2, <2>5, <2>6, <3>1
  <2> QED
    BY <2>2, <2>4, <2>5, <2>6
<1>7. MigrationTypes'
  BY <1>1, <1>5, <1>6 DEF MigrationsInv, MigrationTypes
<1>8. LogKnown'
  <2>1. \A q \in Runs : run'[q].at = run[q].at /\ run'[q].applied = run[q].applied /\ run'[q].m = run[q].m
    BY <1>1, <1>2, <1>3, <1>4
  <2> QED
    BY <1>1, <2>1 DEF MigrationsInv, LogKnown, Gapless
<1>9. ASSUME ~spoiled', NEW n \in M!Migrations, NEW j \in DOMAIN M!Steps[n], Due(n, j)'
      PROVE Done(n, j)' \/ \E q \in Runs : Comes(q, n, j)'
  <2>1. j \in Nat /\ n \in 1..5
    BY StepsKnown DEF M!Migrations
  <2>2. CASE n = run[r].m /\ j = run[r].s
    BY <2>2, UpWrites
  <2>3. CASE ~(n = run[r].m /\ j = run[r].s)
    <3>1. Passed(r, n, j)' => Passed(r, n, j)
      BY <1>1, <1>3, <1>4, <2>1, <2>3 DEF Passed
    <3>2. Due(n, j)
      BY <1>1, <1>2, <1>9, <3>1, OthersStay DEF Due
    <3>3. Done(n, j) \/ \E q \in Runs : Comes(q, n, j)
      BY <1>1, <1>9, <3>2 DEF MigrationsInv, DoneOrComes
    <3>4. Comes(r, n, j) => Comes(r, n, j)'
      BY <1>1, <1>3, <1>4, <2>1, <2>3 DEF Comes
    <3>5. ASSUME NEW q \in Runs, Comes(q, n, j) PROVE Comes(q, n, j)'
      BY <1>2, <3>4, <3>5, OthersStay
    <3>6. CASE Done(n, j) /\ n <= run[r].m
      BY <3>6, UpWrites
    <3>7. CASE Done(n, j) /\ ~(n <= run[r].m)
      <4>1. n \notin run[r].applied
        BY <1>1, <2>1, <3>7 DEF MigrationsInv, LogKnown, Gapless
      <4>2. Comes(r, n, j)'
        BY <1>1, <1>3, <1>4, <2>1, <3>7, <4>1 DEF Comes
      <4> QED
        BY <4>2
    <3> QED
      BY <3>3, <3>5, <3>6, <3>7
  <2> QED
    BY <2>2, <2>3
<1> QED
  BY <1>7, <1>8, <1>9 DEF MigrationsInv, DoneOrComes

-----------------------------------------------------------------------------
\* The web app.

\* A document inserted after a backfill has its fields, unless the validator was not there yet.
LEMMA AppInserts == ASSUME MigrationsInv, NEW d \in Filed, M!Insert(d) PROVE MigrationsInv'
<1>1. /\ M!Upto(validator["documents"]) \subseteq M!Upto(app)
      /\ filled' = [filled EXCEPT ![d] = M!Upto(app)]
      /\ UNCHANGED <<log, validator, index, app, run, spoiled>>
  BY DEF M!Insert
<1>2. slipped' = IF \E r \in Runs, m \in M!Filled \ M!Upto(app) : M!InWindow(r, m) THEN slipped \cup {d} ELSE slipped
  BY DEF M!Insert
<1>3. MigrationTypes'
  BY <1>1, <1>2 DEF MigrationsInv, MigrationTypes, M!Upto
<1>4. LogKnown'
  BY <1>1 DEF MigrationsInv, LogKnown, Gapless
<1>5. ASSUME ~spoiled', NEW n \in M!Migrations, NEW j \in DOMAIN M!Steps[n], Due(n, j)', \A r \in Runs : ~Comes(r, n, j)'
      PROVE Done(n, j)'
  <2>1. Due(n, j) /\ (\A r \in Runs : ~Comes(r, n, j)) /\ ~spoiled
    BY <1>1, <1>5 DEF Due, Passed, Comes
  <2>2. Done(n, j)
    BY <2>1 DEF MigrationsInv, DoneOrComes
  <2>3. CASE M!Steps[n][j].do # "fill"
    BY <1>1, <2>2, <2>3 DEF Done
  <2>4. CASE M!Steps[n][j].do = "fill"
    <3>1. ASSUME d \notin slipped' PROVE n \in M!Upto(app)
      <4>1. StepKnown(n, j) /\ n \in 1..5 /\ DOMAIN M!Steps[n] \in SUBSET Nat
        BY StepsKnown DEF M!Migrations
      <4>2. n \in M!Filled /\ M!Steps[n][j] = M!Fill
        BY <2>4, <4>1 DEF StepKnown
      <4>3. PICK k \in DOMAIN M!Steps[n] : k > j /\ M!Steps[n][k] = M!Validate("documents")
        BY <2>4, <4>1 DEF StepKnown
      <4> SUFFICES ASSUME n \notin M!Upto(app) PROVE FALSE
        OBVIOUS
      <4>4. ASSUME NEW r \in Runs, run[r].at = "run", run[r].m = n, n \notin run[r].applied,
                   j < run[r].s, run[r].s <= k
            PROVE FALSE
        <5>1. M!InWindow(r, n)
          BY <4>2, <4>3, <4>4 DEF M!InWindow, M!Working
        <5> QED
          BY <1>2, <3>1, <4>2, <5>1
      <4>5. Due(n, k)
        <5>1. ASSUME NEW r \in Runs, Passed(r, n, j) PROVE Passed(r, n, k)
          <6>1. run[r].m \in Nat /\ run[r].s \in Nat /\ j \in Nat /\ k \in Nat
            BY <4>1, RunKnown
          <6> QED
            BY <4>3, <4>4, <5>1, <6>1 DEF Passed
        <5> QED
          BY <2>1, <5>1 DEF Due
      <4>6. ASSUME NEW r \in Runs, Comes(r, n, k) PROVE FALSE
        <5>1. run[r].m \in Nat /\ run[r].s \in Nat /\ j \in Nat /\ k \in Nat
          BY <4>1, RunKnown
        <5> QED
          BY <2>1, <4>3, <4>4, <4>6, <5>1 DEF Comes
      <4>7. Done(n, k)
        BY <2>1, <4>5, <4>6 DEF MigrationsInv, DoneOrComes
      <4>8. validator["documents"] >= n /\ validator["documents"] \in 0..5
        BY <4>3, <4>7 DEF Done, M!Validate, MigrationsInv, MigrationTypes, M!Collections
      <4>9. n \in M!Upto(validator["documents"])
        BY <4>1, <4>2, <4>8 DEF M!Upto
      <4> QED
        BY <1>1, <4>9
    <3>2. ASSUME NEW e \in Filed \ slipped', filled'[e] # None PROVE n \in filled'[e]
      <4>1. e \in Filed \ slipped
        BY <1>2, <3>2
      <4>2. CASE e = d
        <5>1. filled'[e] = M!Upto(app)
          BY <1>1, <4>2 DEF MigrationsInv, MigrationTypes
        <5> QED
          BY <3>1, <3>2, <4>2, <5>1
      <4>3. CASE e # d
        <5>1. filled'[e] = filled[e]
          BY <1>1, <4>3 DEF MigrationsInv, MigrationTypes
        <5> QED
          BY <2>2, <2>4, <3>2, <4>1, <5>1 DEF Done
      <4> QED
        BY <4>2, <4>3
    <3> QED
      BY <2>4, <3>2 DEF Done
  <2> QED
    BY <2>3, <2>4
<1> QED
  BY <1>3, <1>4, <1>5 DEF MigrationsInv, DoneOrComes

LEMMA AppDeploys == ASSUME MigrationsInv, M!Deploy PROVE MigrationsInv'
  BY DEF M!Deploy, MigrationsInv, MigrationTypes, LogKnown, Gapless, DoneOrComes, Due, Done, Passed, Comes

LEMMA MigrationsStep == ASSUME MigrationsInv, [MCNext]_allVars PROVE MigrationsInv'
<1>1. UNCHANGED dbVars \/ M!Next
  BY DEF MCNext, allVars
<1>2. CASE UNCHANGED dbVars
  BY <1>2 DEF dbVars, MigrationsInv, MigrationTypes, LogKnown, Gapless, DoneOrComes, Due, Done, Passed, Comes
<1> QED
  BY <1>1, <1>2, RunStarts, RunSkips, RunWrites, RunRecordsOne, RunFinishes, RunDies, AppInserts,
     AppDeploys DEF M!Next

LEMMA MigrationsAlways == MCSpec => []MigrationsInv
<1>1. MCInit => MigrationsInv
  BY MigrationsStart DEF MCInit
<1> QED
  BY <1>1, MigrationsStep, PTL DEF MCSpec

\* However many runs of the migrations overlapped or were repeated, and whatever the old web app inserted
\* meanwhile, once no run is under way a migration that is recorded is in force, provided that every run
\* that died was alone and had nothing to do that another had recorded meanwhile (migrations/index.ts).
\* Without the proviso this is false: MigrationsDied.
THEOREM RecordedStaysDone == MCSpec => []DoneUnlessDied
<1>1. MigrationsInv => DoneUnlessDied
  BY RecordedFromInv DEF DoneUnlessDied
<1> QED
  BY <1>1, MigrationsAlways, PTL

-----------------------------------------------------------------------------
\* The library in the browser.

Records == [status : {"live", "trashed", "gone"}, folder : Folders, favourite : BOOLEAN]
Item(r) == [folder |-> r.folder, favourite |-> r.favourite]
Belongs(v, r) ==
  CASE v = "home" -> r.status = "live"
    [] v = "folder" -> r.status = "live" /\ r.folder = Shown
    [] v = "favourites" -> r.status = "live" /\ r.favourite
    [] v = "trash" -> r.status = "trashed"
Changes == B!Moves \cup B!Favourites \cup B!Others
Pictures == [Views -> [Listed -> B!Items \cup {None}]]

\* What a view lists of a document belongs there, and is as the server's record is.
Right(v, r, item) == item # None => Belongs(v, r) /\ item = Item(r)

Applied(v, item, change) == IF item = None THEN None ELSE B!ApplyChange(v, item, change)

ActFits(x) ==
  /\ x = [ids |-> x.ids, todo |-> x.todo, done |-> x.done, failed |-> x.failed, change |-> x.change, before |-> x.before]
  /\ x.ids \subseteq Listed /\ x.todo \cup x.done \cup x.failed = x.ids
  /\ x.todo \cap (x.done \cup x.failed) = {} /\ x.done \cap x.failed = {}
  /\ x # B!NoAct => x.ids # {} /\ x.change \in Changes /\ x.before \in Pictures

CacheTypes ==
  /\ server \in [Listed -> Records]
  /\ view \in Pictures
  /\ doubt \in [Views -> SUBSET Listed] /\ torn \in [Views -> SUBSET Listed] /\ beside \in [Procs -> SUBSET Listed]
  /\ fetch # B!NoFetch => /\ fetch = [view |-> fetch.view, items |-> fetch.items, doubt |-> fetch.doubt]
                          /\ fetch.view \in Views /\ fetch.items \in [Listed -> B!Items \cup {None}]
                          /\ fetch.doubt \subseteq Listed
  /\ act = [p \in Procs |-> act[p]] /\ \A p \in Procs : ActFits(act[p])

\* What is on its way is right, except where it may be from before an action.
FetchedRight ==
  fetch # B!NoFetch => /\ \A p \in Procs : act[p].ids \subseteq fetch.doubt
                       /\ \A d \in Listed \ fetch.doubt : Right(fetch.view, server[d], fetch.items[d])

\* Actions that run know of each other.
OverlapKnown ==
  \A p, q \in Procs : p # q /\ act[p] # B!NoAct /\ act[q] # B!NoAct => act[p].ids \subseteq beside[q]

\* A view lists item where the server has r: if the action x is on d and no other, item is what its change makes of
\* what was listed before; where it worked, that is right, and elsewhere what was listed before is, also for
\* documents of no action that ran beside it.
Backed(x, near, v, d, item, r) ==
  /\ d \in x.ids => /\ d \notin near
                    /\ item = Applied(v, x.before[v][d], x.change)
                    /\ d \in x.done => Right(v, r, item)
                    /\ d \notin x.done => Right(v, r, x.before[v][d])
  /\ d \notin x.ids /\ d \notin near => Right(v, r, x.before[v][d])

\* What is shown is right where no action is on it.
ShownRight ==
  \A v \in Views : \A d \in Listed : d \notin doubt[v] /\ d \notin torn[v] =>
    /\ (\A p \in Procs : d \notin act[p].ids) => Right(v, server[d], view[v][d])
    /\ \A p \in Procs : act[p] # B!NoAct => Backed(act[p], beside[p], v, d, view[v][d], server[d])

\* The inductive invariant behind ListedIsCurrent.
CacheInv == CacheTypes /\ FetchedRight /\ OverlapKnown /\ ShownRight

LEMMA CacheTypesFit == ASSUME CacheTypes PROVE B!TypeOK
<1>1. server \in [Listed -> [status : {"live", "trashed", "gone"}, folder : Folders, favourite : BOOLEAN]]
  BY DEF CacheTypes, Records
<1>2. /\ view \in [Views -> [Listed -> B!Items \cup {None}]]
      /\ doubt \in [Views -> SUBSET Listed] /\ torn \in [Views -> SUBSET Listed] /\ beside \in [Procs -> SUBSET Listed]
  BY DEF CacheTypes, Pictures
<1>3. \A p \in Procs : act[p].done \cup act[p].failed \cup act[p].todo = act[p].ids /\ act[p].done \cap act[p].failed = {}
  BY DEF CacheTypes, ActFits
<1> QED
  BY <1>1, <1>2, <1>3 DEF B!TypeOK

\* Where nothing runs, no document has an action on it.
LEMMA NoActIs == /\ B!NoAct.ids = {} /\ B!NoAct.todo = {} /\ B!NoAct.done = {} /\ B!NoAct.failed = {}
                 /\ ActFits(B!NoAct)
  BY DEF B!NoAct, ActFits

LEMMA BusyIs == \A d : d \in B!Busy <=> \E p \in Procs : d \in act[p].ids
  BY DEF B!Busy

LEMMA ScopeIs == \A v, d : (B!InScope(v, d) <=> Belongs(v, server[d])) /\ B!Item(d) = Item(server[d])
  BY DEF B!InScope, Belongs, B!Item, Item

LEMMA ListedFromInv == ASSUME CacheInv PROVE B!ListedIsCurrent
<1> SUFFICES ASSUME ~ B!Running, NEW v \in Views, NEW d \in Listed \ (doubt[v] \cup torn[v])
             PROVE B!Current(v, d)
  BY DEF B!ListedIsCurrent
<1>1. \A p \in Procs : act[p].ids = {}
  BY NoActIs DEF B!Running, B!UnderWay
<1>2. Right(v, server[d], view[v][d])
  BY <1>1 DEF CacheInv, ShownRight
<1> QED
  BY <1>2, ScopeIs DEF Right, B!Current

-----------------------------------------------------------------------------
\* Views.

LEMMA ListingRight == ASSUME server \in [Listed -> Records], NEW v \in Views
                      PROVE /\ B!Listing(v) \in [Listed -> B!Items \cup {None}]
                            /\ \A d \in Listed : Right(v, server[d], B!Listing(v)[d])
<1>1. \A d \in Listed : Item(server[d]) \in B!Items
  BY DEF Records, Item, B!Items
<1> QED
  BY <1>1, ScopeIs DEF B!Listing, Right

LEMMA AppliedFits == ASSUME NEW v \in Views, NEW item \in B!Items \cup {None}, NEW change \in Changes
                     PROVE Applied(v, item, change) \in B!Items \cup {None}
<1>1. CASE item = None
  BY <1>1 DEF Applied
<1>2. CASE item # None
  <2>1. item \in B!Items
    BY <1>2
  <2>2. CASE change \in B!Moves
    <3>1. change.kind = "move" /\ change.to \in Folders
      BY <2>2 DEF B!Moves
    <3>2. [item EXCEPT !.folder = change.to] \in B!Items
      BY <2>1, <3>1 DEF B!Items
    <3> QED
      BY <1>2, <3>1, <3>2 DEF Applied, B!ApplyChange
  <2>3. CASE change \in B!Favourites
    <3>1. change.kind = "favourite" /\ change.on \in BOOLEAN
      BY <2>3 DEF B!Favourites
    <3>2. [item EXCEPT !.favourite = change.on] \in B!Items
      BY <2>1, <3>1 DEF B!Items
    <3> QED
      BY <1>2, <3>1, <3>2 DEF Applied, B!ApplyChange
  <2>4. CASE change \in B!Others
    <3>1. change.kind \in {"trash", "restore", "purge"}
      BY <2>4 DEF B!Others
    <3> QED
      BY <1>2, <2>1, <3>1 DEF Applied, B!ApplyChange
  <2> QED
    BY <2>2, <2>3, <2>4 DEF Changes
<1> QED
  BY <1>1, <1>2

LEMMA ChangedIs ==
  ASSUME NEW picture \in Pictures, NEW ids \in SUBSET Listed, NEW change \in Changes
  PROVE /\ B!Changed(picture, ids, change) \in Pictures
        /\ \A v \in Views : \A d \in Listed :
             B!Changed(picture, ids, change)[v][d] =
               IF d \in ids THEN Applied(v, picture[v][d], change) ELSE picture[v][d]
<1>1. \A v \in Views : \A d \in Listed :
        /\ picture[v][d] \in B!Items \cup {None}
        /\ (IF d \in ids /\ picture[v][d] # None THEN B!ApplyChange(v, picture[v][d], change)
            ELSE picture[v][d]) = IF d \in ids THEN Applied(v, picture[v][d], change) ELSE picture[v][d]
  BY DEF Pictures, Applied
<1>2. \A v \in Views : \A d \in Listed : Applied(v, picture[v][d], change) \in B!Items \cup {None}
  BY <1>1, AppliedFits
<1>3. \A v \in Views : \A d \in Listed :
        B!Changed(picture, ids, change)[v][d] =
          IF d \in ids THEN Applied(v, picture[v][d], change) ELSE picture[v][d]
  BY <1>1 DEF B!Changed
<1>4. B!Changed(picture, ids, change) \in Pictures
  BY <1>1, <1>2 DEF B!Changed, Pictures
<1> QED
  BY <1>3, <1>4

\* What is right becomes what the change makes of it where the server carries it out.
LEMMA RightApplied ==
  ASSUME NEW v \in Views, NEW d \in Listed, NEW item, NEW change \in Changes,
         server \in [Listed -> Records], Right(v, server[d], item), B!Allowed(d, change),
         server'[d] = B!RunOne(d, change)
  PROVE Right(v, server'[d], Applied(v, item, change))
<1> USE ViewAssumption
<1>1. CASE item = None
  BY <1>1 DEF Applied, Right
<1>2. CASE item # None
  <2>1. Belongs(v, server[d]) /\ item = Item(server[d])
    BY <1>2 DEF Right
  <2>2. item = [folder |-> server[d].folder, favourite |-> server[d].favourite] /\ server[d] \in Records
    BY <2>1 DEF Item
  <2>3. Applied(v, item, change) = B!ApplyChange(v, item, change)
    BY <1>2 DEF Applied
  <2>4. v \in {"home", "folder", "favourites", "trash"}
    OBVIOUS
  <2>5. CASE change \in B!Moves
    <3>1. change.kind = "move" /\ change.to \in Folders
      BY <2>5 DEF B!Moves
    <3>2. server'[d] = [server[d] EXCEPT !.folder = change.to] /\ server[d].status = "live"
      BY <3>1 DEF B!RunOne, B!Allowed
    <3>3. /\ server'[d].status = "live" /\ server'[d].folder = change.to
          /\ server'[d].favourite = server[d].favourite
      BY <2>2, <3>2 DEF Records
    <3>4. Item(server'[d]) = [item EXCEPT !.folder = change.to]
      BY <2>2, <3>3 DEF Item
    <3>5. B!ApplyChange(v, item, change) # None =>
            /\ B!ApplyChange(v, item, change) = [item EXCEPT !.folder = change.to]
            /\ v = "folder" => change.to = Shown
      BY <3>1 DEF B!ApplyChange
    <3>6. (v = "folder" => change.to = Shown) => Belongs(v, server'[d])
      BY <2>1, <2>4, <3>2, <3>3 DEF Belongs
    <3> QED
      BY <2>3, <3>4, <3>5, <3>6 DEF Right
  <2>6. CASE change \in B!Favourites
    <3>1. change.kind = "favourite" /\ change.on \in BOOLEAN
      BY <2>6 DEF B!Favourites
    <3>2. server'[d] = [server[d] EXCEPT !.favourite = change.on] /\ server[d].status = "live"
      BY <3>1 DEF B!RunOne, B!Allowed
    <3>3. /\ server'[d].status = "live" /\ server'[d].folder = server[d].folder
          /\ server'[d].favourite = change.on
      BY <2>2, <3>2 DEF Records
    <3>4. Item(server'[d]) = [item EXCEPT !.favourite = change.on]
      BY <2>2, <3>3 DEF Item
    <3>5. B!ApplyChange(v, item, change) # None =>
            /\ B!ApplyChange(v, item, change) = [item EXCEPT !.favourite = change.on]
            /\ v = "favourites" => change.on
      BY <3>1 DEF B!ApplyChange
    <3>6. (v = "favourites" => change.on) => Belongs(v, server'[d])
      BY <2>1, <2>4, <3>2, <3>3 DEF Belongs
    <3> QED
      BY <2>3, <3>4, <3>5, <3>6 DEF Right
  <2>7. CASE change \in B!Others
    <3>1. change.kind \in {"trash", "restore", "purge"}
      BY <2>7 DEF B!Others
    <3>2. change.kind = "trash" => v # "trash"
      BY <2>1 DEF B!Allowed, Belongs
    <3>3. change.kind \in {"restore", "purge"} => v = "trash"
      BY <2>1, <2>4 DEF B!Allowed, Belongs
    <3>4. B!ApplyChange(v, item, change) = None
      BY <3>1, <3>2, <3>3 DEF B!ApplyChange
    <3> QED
      BY <2>3, <3>4 DEF Right
  <2> QED
    BY <2>5, <2>6, <2>7 DEF Changes
<1> QED
  BY <1>1, <1>2

-----------------------------------------------------------------------------
\* Fetches.

LEMMA CacheStarts == ASSUME B!Init PROVE CacheInv
<1>1. server \in [Listed -> Records]
  BY DEF B!Init, Records
<1>2. /\ view = [v \in Views |-> B!Listing(v)] /\ fetch = B!NoFetch /\ doubt = [v \in Views |-> {}] /\ torn = doubt
      /\ act = [p \in Procs |-> B!NoAct] /\ beside = [p \in Procs |-> {}]
  BY DEF B!Init
<1>3. act = [p \in Procs |-> act[p]] /\ \A p \in Procs : ActFits(act[p]) /\ act[p] = B!NoAct
  BY <1>2, NoActIs
<1>4. view \in Pictures /\ \A v \in Views : \A d \in Listed : Right(v, server[d], view[v][d])
  BY <1>1, <1>2, ListingRight DEF Pictures
<1>5. CacheTypes
  BY <1>1, <1>2, <1>3, <1>4 DEF CacheTypes
<1>6. FetchedRight /\ OverlapKnown /\ ShownRight
  BY <1>2, <1>3, <1>4 DEF FetchedRight, OverlapKnown, ShownRight
<1> QED
  BY <1>5, <1>6 DEF CacheInv

LEMMA FetchStarts == ASSUME CacheInv, NEW v \in Views, B!FetchStart(v) PROVE CacheInv'
<1>1. fetch' = [view |-> v, items |-> B!Listing(v), doubt |-> B!Busy]
      /\ UNCHANGED <<server, view, act, doubt, beside, torn>>
  BY DEF B!FetchStart
<1>2. server \in [Listed -> Records] /\ B!Busy \subseteq Listed /\ \A p \in Procs : act[p].ids \subseteq B!Busy
  BY BusyIs DEF CacheInv, CacheTypes, ActFits
<1>3. /\ B!Listing(v) \in [Listed -> B!Items \cup {None}]
      /\ \A d \in Listed : Right(v, server[d], B!Listing(v)[d])
  BY <1>2, ListingRight
<1>4. PICK items, busy : items = B!Listing(v) /\ busy = B!Busy
  OBVIOUS
<1>5. /\ fetch' = [view |-> fetch'.view, items |-> fetch'.items, doubt |-> fetch'.doubt]
      /\ fetch'.view = v /\ fetch'.items = items /\ fetch'.doubt = busy
  BY <1>1, <1>4
<1>7. CacheTypes'
  <2>1. fetch'.view \in Views /\ fetch'.items \in [Listed -> B!Items \cup {None}] /\ fetch'.doubt \subseteq Listed
    BY <1>2, <1>3, <1>4, <1>5
  <2> QED
    BY <1>1, <1>5, <2>1 DEF CacheInv, CacheTypes
<1>8. FetchedRight'
  BY <1>1, <1>2, <1>3, <1>4, <1>5 DEF FetchedRight
<1>9. OverlapKnown' /\ ShownRight'
  BY <1>1 DEF CacheInv, OverlapKnown, ShownRight
<1> QED
  BY <1>7, <1>8, <1>9 DEF CacheInv

LEMMA FetchComes == ASSUME CacheInv, B!FetchArrives PROVE CacheInv'
<1>1. /\ fetch # B!NoFetch /\ fetch' = B!NoFetch
      /\ view' = [view EXCEPT ![fetch.view] = fetch.items]
      /\ doubt' = [doubt EXCEPT ![fetch.view] = fetch.doubt \cup IF B!Running THEN @ ELSE {}]
      /\ torn' = [torn EXCEPT ![fetch.view] = IF B!Running THEN @ ELSE {}]
      /\ UNCHANGED <<server, act, beside>>
  BY DEF B!FetchArrives
<1>2. /\ view \in Pictures /\ doubt \in [Views -> SUBSET Listed] /\ torn \in [Views -> SUBSET Listed]
      /\ fetch.view \in Views /\ fetch.items \in [Listed -> B!Items \cup {None}] /\ fetch.doubt \subseteq Listed
  BY <1>1 DEF CacheInv, CacheTypes
<1>3. /\ \A v \in Views : v # fetch.view => view'[v] = view[v] /\ doubt'[v] = doubt[v] /\ torn'[v] = torn[v]
      /\ view'[fetch.view] = fetch.items /\ fetch.doubt \subseteq doubt'[fetch.view]
      /\ B!Running => doubt[fetch.view] \subseteq doubt'[fetch.view] /\ torn'[fetch.view] = torn[fetch.view]
  BY <1>1, <1>2 DEF Pictures
<1>5. CacheTypes'
  <2>1. view' \in Pictures /\ doubt' \in [Views -> SUBSET Listed]
    BY <1>1, <1>2 DEF Pictures
  <2>2. torn' \in [Views -> SUBSET Listed]
    BY <1>1, <1>2
  <2> QED
    BY <1>1, <2>1, <2>2 DEF CacheInv, CacheTypes, B!NoFetch
<1>6. FetchedRight' /\ OverlapKnown'
  BY <1>1 DEF CacheInv, FetchedRight, OverlapKnown, B!NoFetch
<1>7. ShownRight'
  <2> SUFFICES ASSUME NEW v \in Views, NEW d \in Listed, d \notin doubt'[v], d \notin torn'[v]
               PROVE /\ (\A p \in Procs : d \notin act[p].ids) => Right(v, server[d], view'[v][d])
                     /\ \A p \in Procs : act[p] # B!NoAct => Backed(act[p], beside[p], v, d, view'[v][d], server[d])
    BY <1>1 DEF ShownRight
  <2>1. CASE v # fetch.view
    BY <1>3, <2>1 DEF CacheInv, ShownRight
  <2>2. CASE v = fetch.view
    <3>1. Right(v, server[d], view'[v][d]) /\ \A p \in Procs : d \notin act[p].ids
      BY <1>1, <1>3, <2>2 DEF CacheInv, FetchedRight
    <3>2. ASSUME NEW p \in Procs, act[p] # B!NoAct
          PROVE Backed(act[p], beside[p], v, d, view'[v][d], server[d])
      <4>1. d \notin doubt[v] /\ d \notin torn[v]
        BY <1>3, <2>2, <3>2 DEF B!Running, B!UnderWay
      <4>2. Backed(act[p], beside[p], v, d, view[v][d], server[d])
        BY <3>2, <4>1 DEF CacheInv, ShownRight
      <4> QED
        BY <3>1, <4>2 DEF Backed
    <3> QED
      BY <3>1, <3>2
  <2> QED
    BY <2>1, <2>2
<1> QED
  BY <1>5, <1>6, <1>7 DEF CacheInv

LEMMA FetchLost == ASSUME CacheInv, B!FetchFails PROVE CacheInv'
<1>1. fetch' = B!NoFetch /\ UNCHANGED <<server, view, act, doubt, beside, torn>>
  BY DEF B!FetchFails
<1>3. CacheTypes'
  BY <1>1 DEF CacheInv, CacheTypes, B!NoFetch
<1>4. FetchedRight' /\ OverlapKnown' /\ ShownRight'
  BY <1>1 DEF CacheInv, FetchedRight, OverlapKnown, ShownRight, B!NoFetch
<1> QED
  BY <1>3, <1>4 DEF CacheInv

-----------------------------------------------------------------------------
\* Actions.

LEMMA ActionBegins ==
  ASSUME CacheInv, NEW p \in Procs, NEW v \in Views, NEW ids \in SUBSET Listed, NEW change \in Changes,
         B!Begin(p, v, ids, change)
  PROVE CacheInv'
<1> DEFINE x == [ids |-> ids, todo |-> ids, done |-> {}, failed |-> {}, change |-> change, before |-> view]
<1>1. /\ act[p] = B!NoAct /\ ids # {} /\ fetch' = B!NoFetch /\ UNCHANGED <<server, doubt>>
      /\ act' = [act EXCEPT ![p] = [B!NoAct EXCEPT !.ids = ids, !.todo = ids, !.change = change, !.before = view]]
      /\ view' = B!Changed(view, ids, change)
      /\ beside' = [q \in Procs |-> IF q = p THEN B!Busy ELSE IF act[q] # B!NoAct THEN beside[q] \cup ids ELSE {}]
      /\ torn' = [w \in Views |-> torn[w] \cup (ids \cap B!Busy)]
  BY DEF B!Begin, B!UnderWay, B!Torn
<1>2. /\ view \in Pictures /\ act = [q \in Procs |-> act[q]] /\ torn \in [Views -> SUBSET Listed]
      /\ beside \in [Procs -> SUBSET Listed] /\ \A q \in Procs : ActFits(act[q]) /\ act[q].ids \subseteq Listed
  BY DEF CacheInv, CacheTypes, ActFits
<1>3. /\ x.ids = ids /\ x.todo = ids /\ x.done = {} /\ x.failed = {} /\ x.change = change /\ x.before = view
      /\ x # B!NoAct /\ ActFits(x)
  BY <1>1, <1>2 DEF ActFits, B!NoAct
<1>4. act' = [act EXCEPT ![p] = x]
  <2>1. PICK z : z = [B!NoAct EXCEPT !.ids = ids, !.todo = ids, !.change = change, !.before = view]
    OBVIOUS
  <2>2. z = x
    BY <2>1 DEF B!NoAct
  <2> HIDE DEF x
  <2> QED
    BY <1>1, <2>1, <2>2
<1>5. /\ act'[p] = x /\ \A q \in Procs : q # p => act'[q] = act[q]
      /\ act' = [q \in Procs |-> act'[q]]
  <2> HIDE DEF x
  <2> QED
    BY <1>2, <1>4
<1> HIDE DEF x
<1>6. /\ view' \in Pictures
      /\ \A u \in Views : \A d \in Listed :
           view'[u][d] = IF d \in ids THEN Applied(u, view[u][d], change) ELSE view[u][d]
  BY <1>1, <1>2, ChangedIs
<1>7. /\ B!Busy \subseteq Listed /\ \A d \in Listed : d \in B!Busy <=> \E q \in Procs : d \in act[q].ids
  BY <1>2, BusyIs
<1>8. CacheTypes'
  <2>1. \A q \in Procs : ActFits(act'[q])
    BY <1>2, <1>3, <1>5
  <2>2. torn' \in [Views -> SUBSET Listed] /\ beside' \in [Procs -> SUBSET Listed]
    BY <1>1, <1>2, <1>7
  <2> QED
    BY <1>1, <1>5, <1>6, <2>1, <2>2 DEF CacheInv, CacheTypes, B!NoFetch
<1>9. FetchedRight'
  BY <1>1 DEF FetchedRight, B!NoFetch
<1>10. OverlapKnown'
  <2> SUFFICES ASSUME NEW q \in Procs, NEW o \in Procs, q # o, act'[q] # B!NoAct, act'[o] # B!NoAct
               PROVE act'[q].ids \subseteq beside'[o]
    BY DEF OverlapKnown
  <2>1. CASE q = p
    BY <1>1, <1>3, <1>5, <2>1
  <2>2. CASE o = p
    BY <1>1, <1>2, <1>5, <1>7, <2>2
  <2>3. CASE q # p /\ o # p
    <3>1. act[q].ids \subseteq beside[o]
      BY <1>5, <2>3 DEF CacheInv, OverlapKnown
    <3> QED
      BY <1>1, <1>5, <2>3, <3>1
  <2> QED
    BY <2>1, <2>2, <2>3
<1>11. ShownRight'
  <2> SUFFICES ASSUME NEW u \in Views, NEW d \in Listed, d \notin doubt[u], d \notin torn'[u]
               PROVE /\ (\A q \in Procs : d \notin act'[q].ids) => Right(u, server[d], view'[u][d])
                     /\ \A q \in Procs : act'[q] # B!NoAct => Backed(act'[q], beside'[q], u, d, view'[u][d], server[d])
    BY <1>1 DEF ShownRight
  <2>1. d \notin torn[u] /\ ~(d \in ids /\ d \in B!Busy)
    BY <1>1
  <2>2. /\ d \notin B!Busy => Right(u, server[d], view[u][d])
        /\ \A q \in Procs : act[q] # B!NoAct => Backed(act[q], beside[q], u, d, view[u][d], server[d])
    BY <1>7, <2>1 DEF CacheInv, ShownRight
  <2>3. ASSUME \A q \in Procs : d \notin act'[q].ids PROVE Right(u, server[d], view'[u][d])
    <3>1. d \notin ids /\ d \notin B!Busy
      BY <1>1, <1>3, <1>5, <1>7, <2>3, NoActIs
    <3> QED
      BY <1>6, <2>2, <3>1
  <2>4. Backed(x, beside'[p], u, d, view'[u][d], server[d])
    <3>1. beside'[p] = B!Busy
      BY <1>1
    <3> QED
      BY <1>3, <1>6, <2>1, <2>2, <3>1 DEF Backed
  <2>5. ASSUME NEW q \in Procs, q # p, act[q] # B!NoAct
        PROVE Backed(act[q], beside'[q], u, d, view'[u][d], server[d])
    <3>1. beside'[q] = beside[q] \cup ids
      BY <1>1, <2>5
    <3>2. d \in act[q].ids => d \notin ids /\ view'[u][d] = view[u][d]
      BY <1>6, <1>7, <2>1
    <3>3. Backed(act[q], beside[q], u, d, view[u][d], server[d])
      BY <2>2, <2>5
    <3> QED
      BY <3>1, <3>2, <3>3 DEF Backed
  <2> QED
    BY <1>5, <2>3, <2>4, <2>5
<1> QED
  BY <1>8, <1>9, <1>10, <1>11 DEF CacheInv

\* A chunk that the server carried out in part.
LEMMA ChunkServed ==
  ASSUME CacheInv, NEW change \in Changes, NEW S1 \in SUBSET Listed, NEW ok \in SUBSET Listed,
         ok \subseteq {d \in S1 : B!Allowed(d, change)}, B!Served(ok, change)
  PROVE /\ server' \in [Listed -> Records]
        /\ \A d \in Listed \ ok : server'[d] = server[d]
        /\ \A d \in ok : server'[d] = B!RunOne(d, change) /\ B!Allowed(d, change)
<1>1. server \in [Listed -> Records]
  BY DEF CacheInv, CacheTypes
<1>2. /\ \A d \in Listed \ ok : server'[d] = server[d]
      /\ \A d \in ok : server'[d] = B!RunOne(d, change) /\ B!Allowed(d, change)
  BY DEF B!Served
<1>3. \A d \in Listed : B!RunOne(d, change) \in Records
  <2> SUFFICES ASSUME NEW d \in Listed PROVE B!RunOne(d, change) \in Records
    OBVIOUS
  <2>1. server[d] \in Records
    BY <1>1
  <2>2. \A f \in Folders, on \in BOOLEAN, s \in {"live", "trashed", "gone"} :
          /\ [server[d] EXCEPT !.folder = f] \in Records
          /\ [server[d] EXCEPT !.favourite = on] \in Records
          /\ [server[d] EXCEPT !.status = s] \in Records
    BY <2>1 DEF Records
  <2>3. \/ change.kind = "move" /\ change.to \in Folders
        \/ change.kind = "favourite" /\ change.on \in BOOLEAN
        \/ change.kind = "trash" \/ change.kind = "restore" \/ change.kind = "purge"
    BY DEF Changes, B!Moves, B!Favourites, B!Others
  <2>4. CASE change.kind = "move" /\ change.to \in Folders
    BY <2>2, <2>4 DEF B!RunOne
  <2>5. CASE change.kind = "favourite" /\ change.on \in BOOLEAN
    <3>1. B!RunOne(d, change) = [server[d] EXCEPT !.favourite = change.on]
      BY <2>5 DEF B!RunOne
    <3> QED
      BY <2>1, <2>5, <3>1 DEF Records
  <2>6. CASE change.kind = "trash"
    <3>1. B!RunOne(d, change) = [server[d] EXCEPT !.status = "trashed"]
      BY <2>6 DEF B!RunOne
    <3> QED
      BY <2>1, <2>6, <3>1 DEF Records
  <2>7. CASE change.kind = "restore"
    <3>1. B!RunOne(d, change) = [server[d] EXCEPT !.status = "live"]
      BY <2>7 DEF B!RunOne
    <3> QED
      BY <2>1, <2>7, <3>1 DEF Records
  <2>8. CASE change.kind = "purge"
    <3>1. B!RunOne(d, change) = [server[d] EXCEPT !.status = "gone"]
      BY <2>8 DEF B!RunOne
    <3> QED
      BY <2>1, <2>8, <3>1 DEF Records
  <2> QED
    BY <2>3, <2>4, <2>5, <2>6, <2>7, <2>8
<1>4. server' \in [Listed -> Records]
  BY <1>1, <1>3 DEF B!Served
<1> QED
  BY <1>2, <1>4

\* The action that runs when a chunk is asked for.
LEMMA ActionKnown ==
  ASSUME CacheInv, NEW p \in Procs, act[p] # B!NoAct
  PROVE /\ act[p] = [ids |-> act[p].ids, todo |-> act[p].todo, done |-> act[p].done, failed |-> act[p].failed,
                     change |-> act[p].change, before |-> act[p].before]
        /\ act[p].ids \subseteq Listed /\ act[p].todo \cup act[p].done \cup act[p].failed = act[p].ids
        /\ act[p].todo \cap (act[p].done \cup act[p].failed) = {} /\ act[p].done \cap act[p].failed = {}
        /\ act[p].ids # {} /\ act[p].change \in Changes /\ act[p].before \in Pictures
        /\ \A q \in Procs : q # p /\ act[q] # B!NoAct => act[p].ids \subseteq beside[q] /\ act[q].ids \subseteq beside[p]
        /\ act = [q \in Procs |-> act[q]] /\ beside \in [Procs -> SUBSET Listed] /\ \A q \in Procs : ActFits(act[q])
<1>1. ActFits(act[p])
  BY DEF CacheInv, CacheTypes
<1>2. \A q \in Procs : q # p /\ act[q] # B!NoAct => act[p].ids \subseteq beside[q] /\ act[q].ids \subseteq beside[p]
  BY DEF CacheInv, OverlapKnown
<1>3. act = [q \in Procs |-> act[q]] /\ beside \in [Procs -> SUBSET Listed] /\ \A q \in Procs : ActFits(act[q])
  BY DEF CacheInv, CacheTypes
<1> QED
  BY <1>1, <1>2, <1>3 DEF ActFits

LEMMA ChunkIs == ASSUME NEW p \in Procs, NEW S1, B!Chunk(p, S1)
                 PROVE act[p].todo # {} /\ S1 \subseteq act[p].todo /\ act[p] # B!NoAct
  BY NoActIs DEF B!Chunk

LEMMA AnswerNoted ==
  ASSUME NEW y, NEW S1, NEW ok, NEW z,
         z = [y EXCEPT !.todo = @ \ S1, !.done = @ \cup ok, !.failed = @ \cup (S1 \ ok)],
         y = [ids |-> y.ids, todo |-> y.todo, done |-> y.done, failed |-> y.failed, change |-> y.change, before |-> y.before]
  PROVE z = [ids |-> y.ids, todo |-> y.todo \ S1, done |-> y.done \cup ok, failed |-> y.failed \cup (S1 \ ok),
             change |-> y.change, before |-> y.before]
  OBVIOUS

LEMMA ChunkAnswered ==
  ASSUME CacheInv, NEW p \in Procs, NEW S1 \in SUBSET Listed, NEW ok \in SUBSET Listed, B!BulkAnswers(p, S1, ok)
  PROVE CacheInv'
<1> DEFINE x == [ids |-> act[p].ids, todo |-> act[p].todo \ S1, done |-> act[p].done \cup ok,
                 failed |-> act[p].failed \cup (S1 \ ok), change |-> act[p].change, before |-> act[p].before]
<1>1. /\ B!Chunk(p, S1) /\ ok \subseteq {d \in S1 : B!Allowed(d, act[p].change)} /\ B!Served(ok, act[p].change)
      /\ UNCHANGED <<view, fetch, doubt, beside, torn>>
  BY DEF B!BulkAnswers
<1>2. /\ S1 \subseteq act[p].todo /\ act[p] # B!NoAct /\ ok \subseteq act[p].todo /\ ok \subseteq S1
  BY <1>1, ChunkIs
<1>3. /\ act[p] = [ids |-> act[p].ids, todo |-> act[p].todo, done |-> act[p].done, failed |-> act[p].failed,
                   change |-> act[p].change, before |-> act[p].before]
      /\ act[p].ids \subseteq Listed /\ act[p].todo \cup act[p].done \cup act[p].failed = act[p].ids
      /\ act[p].todo \cap (act[p].done \cup act[p].failed) = {} /\ act[p].done \cap act[p].failed = {}
      /\ act[p].ids # {} /\ act[p].change \in Changes /\ act[p].before \in Pictures
      /\ \A q \in Procs : q # p /\ act[q] # B!NoAct => act[p].ids \subseteq beside[q]
      /\ act = [q \in Procs |-> act[q]] /\ \A q \in Procs : ActFits(act[q])
  BY <1>2, ActionKnown
<1>4. /\ server' \in [Listed -> Records]
      /\ \A d \in Listed \ ok : server'[d] = server[d]
      /\ \A d \in ok : server'[d] = B!RunOne(d, act[p].change) /\ B!Allowed(d, act[p].change)
  BY <1>1, <1>3, ChunkServed
<1>5. /\ x.ids = act[p].ids /\ x.todo = act[p].todo \ S1 /\ x.done = act[p].done \cup ok
      /\ x.failed = act[p].failed \cup (S1 \ ok) /\ x.change = act[p].change /\ x.before = act[p].before
      /\ x = [ids |-> x.ids, todo |-> x.todo, done |-> x.done, failed |-> x.failed, change |-> x.change, before |-> x.before]
  OBVIOUS
<1>6. act' = [act EXCEPT ![p] = x]
  <2> DEFINE r == [act[p] EXCEPT !.todo = @ \ S1, !.done = @ \cup ok, !.failed = @ \cup (S1 \ ok)]
  <2>1. act' = [act EXCEPT ![p] = r]
    BY DEF B!BulkAnswers
  <2>2. PICK y : y = act[p]
    OBVIOUS
  <2>3. r = [y EXCEPT !.todo = @ \ S1, !.done = @ \cup ok, !.failed = @ \cup (S1 \ ok)]
    BY <2>2
  <2> HIDE DEF r
  <2>4. r = x
    BY <1>3, <2>2, <2>3, AnswerNoted
  <2> HIDE DEF x
  <2> QED
    BY <2>1, <2>4
<1> HIDE DEF x
<1>7. /\ act'[p] = x /\ \A q \in Procs : q # p => act'[q] = act[q]
      /\ act' = [q \in Procs |-> act'[q]]
  BY <1>3, <1>6
<1>8. ActFits(x) /\ x # B!NoAct
  <2>1. /\ x.todo \cup x.done \cup x.failed = x.ids
        /\ x.todo \cap (x.done \cup x.failed) = {} /\ x.done \cap x.failed = {}
    <3>1. PICK todo, done, failed : todo = act[p].todo /\ done = act[p].done /\ failed = act[p].failed
      OBVIOUS
    <3>2. /\ (todo \ S1) \cup (done \cup ok) \cup (failed \cup (S1 \ ok)) = todo \cup done \cup failed
          /\ (todo \ S1) \cap ((done \cup ok) \cup (failed \cup (S1 \ ok))) = {}
          /\ (done \cup ok) \cap (failed \cup (S1 \ ok)) = {}
      BY <1>2, <1>3, <3>1
    <3> QED
      BY <1>3, <1>5, <3>1, <3>2
  <2>2. x # B!NoAct
    BY <1>3, <1>5, NoActIs
  <2> QED
    BY <1>3, <1>5, <2>1, <2>2 DEF ActFits
<1>9. \A q \in Procs : act'[q].ids = act[q].ids /\ (act'[q] # B!NoAct <=> act[q] # B!NoAct)
  BY <1>2, <1>5, <1>7, <1>8
<1>10. CacheTypes'
  <2>1. \A q \in Procs : ActFits(act'[q])
    BY <1>3, <1>7, <1>8
  <2> QED
    BY <1>1, <1>4, <1>7, <2>1 DEF CacheInv, CacheTypes, B!NoFetch
<1>11. FetchedRight'
  <2>1. CASE fetch = B!NoFetch
    BY <1>1, <2>1 DEF FetchedRight, B!NoFetch
  <2>2. CASE fetch # B!NoFetch
    <3>1. /\ \A q \in Procs : act[q].ids \subseteq fetch.doubt
          /\ \A d \in Listed \ fetch.doubt : Right(fetch.view, server[d], fetch.items[d])
      BY <2>2 DEF CacheInv, FetchedRight
    <3>2. \A d \in Listed \ fetch.doubt : Right(fetch.view, server'[d], fetch.items[d])
      BY <1>2, <1>3, <1>4, <3>1
    <3> QED
      BY <1>1, <1>9, <3>1, <3>2 DEF FetchedRight
  <2> QED
    BY <2>1, <2>2
<1>12. OverlapKnown'
  BY <1>1, <1>9 DEF CacheInv, OverlapKnown
<1>13. ShownRight'
  <2> SUFFICES ASSUME NEW v \in Views, NEW d \in Listed, d \notin doubt[v], d \notin torn[v]
               PROVE /\ (\A q \in Procs : d \notin act[q].ids) => Right(v, server'[d], view[v][d])
                     /\ \A q \in Procs : act[q] # B!NoAct => Backed(act'[q], beside[q], v, d, view[v][d], server'[d])
    BY <1>1, <1>9 DEF ShownRight
  <2>1. /\ (\A q \in Procs : d \notin act[q].ids) => Right(v, server[d], view[v][d])
        /\ \A q \in Procs : act[q] # B!NoAct => Backed(act[q], beside[q], v, d, view[v][d], server[d])
    BY DEF CacheInv, ShownRight
  <2>2. CASE d \in ok
    <3>1. d \in act[p].ids /\ d \notin act[p].done
      BY <1>2, <1>3, <2>2
    <3>2. /\ d \notin beside[p] /\ view[v][d] = Applied(v, act[p].before[v][d], act[p].change)
          /\ Right(v, server[d], act[p].before[v][d])
      BY <1>2, <2>1, <3>1 DEF Backed
    <3>3. act[p].before[v][d] \in B!Items \cup {None}
      BY <1>3 DEF Pictures
    <3>4. Right(v, server'[d], view[v][d])
      <4>1. server \in [Listed -> Records]
        BY DEF CacheInv, CacheTypes
      <4> QED
        BY <1>3, <1>4, <2>2, <3>2, <3>3, <4>1, RightApplied
    <3>5. Backed(x, beside[p], v, d, view[v][d], server'[d])
      BY <1>5, <2>2, <3>1, <3>2, <3>4 DEF Backed
    <3>6. ASSUME NEW q \in Procs, q # p, act[q] # B!NoAct
          PROVE Backed(act[q], beside[q], v, d, view[v][d], server'[d])
      <4>1. d \in beside[q] /\ Backed(act[q], beside[q], v, d, view[v][d], server[d])
        BY <1>3, <2>1, <3>1, <3>6
      <4> QED
        BY <4>1 DEF Backed
    <3> QED
      BY <1>7, <3>1, <3>5, <3>6
  <2>3. CASE d \notin ok
    <3>1. server'[d] = server[d]
      BY <1>4, <2>3
    <3>2. Backed(x, beside[p], v, d, view[v][d], server[d])
      <4>1. Backed(act[p], beside[p], v, d, view[v][d], server[d])
        BY <1>2, <2>1
      <4> QED
        BY <1>5, <2>3, <4>1 DEF Backed
    <3> QED
      BY <1>7, <2>1, <3>1, <3>2
  <2> QED
    BY <2>2, <2>3
<1> QED
  BY <1>10, <1>11, <1>12, <1>13 DEF CacheInv

\* An action is over; the others go on.
LEMMA ActionOver ==
  ASSUME CacheInv, NEW p \in Procs, act[p] # B!NoAct, B!Ends(p)
  PROVE /\ act'[p] = B!NoAct /\ act' = [q \in Procs |-> act'[q]]
        /\ \A q \in Procs : q # p => act'[q] = act[q] /\ beside'[q] = beside[q]
        /\ \A q \in Procs : ActFits(act'[q]) /\ act'[q].ids \subseteq act[q].ids
        /\ beside' \in [Procs -> SUBSET Listed] /\ OverlapKnown'
<1>1. act' = [act EXCEPT ![p] = B!NoAct] /\ beside' = [beside EXCEPT ![p] = {}]
  BY DEF B!Ends
<1>2. act = [q \in Procs |-> act[q]] /\ beside \in [Procs -> SUBSET Listed] /\ \A q \in Procs : ActFits(act[q])
  BY ActionKnown
<1>3. /\ act'[p] = B!NoAct /\ act' = [q \in Procs |-> act'[q]]
      /\ \A q \in Procs : q # p => act'[q] = act[q] /\ beside'[q] = beside[q]
      /\ beside' \in [Procs -> SUBSET Listed]
  BY <1>1, <1>2
<1>4. \A q \in Procs : ActFits(act'[q]) /\ act'[q].ids \subseteq act[q].ids
  BY <1>2, <1>3, NoActIs
<1>5. OverlapKnown'
  BY <1>3 DEF CacheInv, OverlapKnown
<1> QED
  BY <1>3, <1>4, <1>5

LEMMA ChunkThrown ==
  ASSUME CacheInv, NEW p \in Procs, NEW S1 \in SUBSET Listed, NEW ok \in SUBSET Listed, B!BulkThrows(p, S1, ok)
  PROVE CacheInv'
<1>1. /\ B!Chunk(p, S1) /\ ok \subseteq {d \in S1 : B!Allowed(d, act[p].change)} /\ B!Served(ok, act[p].change)
      /\ view' = act[p].before /\ doubt' = [v \in Views |-> doubt[v] \cup S1]
      /\ torn' = [v \in Views |-> torn[v] \cup (act[p].done \cup beside[p])] /\ B!Ends(p)
      /\ UNCHANGED fetch
  BY DEF B!BulkThrows, B!Torn
<1>2. /\ S1 \subseteq act[p].todo /\ act[p] # B!NoAct /\ ok \subseteq S1
  BY <1>1, ChunkIs
<1>3. /\ act[p].ids \subseteq Listed /\ act[p].todo \cup act[p].done \cup act[p].failed = act[p].ids
      /\ act[p].change \in Changes /\ act[p].before \in Pictures /\ beside \in [Procs -> SUBSET Listed]
      /\ \A q \in Procs : q # p /\ act[q] # B!NoAct => act[q].ids \subseteq beside[p]
  BY <1>2, ActionKnown
<1>4. server' \in [Listed -> Records] /\ \A d \in Listed \ ok : server'[d] = server[d]
  BY <1>1, <1>3, ChunkServed
<1>5. /\ act'[p] = B!NoAct /\ act' = [q \in Procs |-> act'[q]]
      /\ \A q \in Procs : q # p => act'[q] = act[q] /\ beside'[q] = beside[q]
      /\ \A q \in Procs : ActFits(act'[q]) /\ act'[q].ids \subseteq act[q].ids
      /\ beside' \in [Procs -> SUBSET Listed] /\ OverlapKnown'
  BY <1>1, <1>2, ActionOver
<1>6. CacheTypes'
  <2>1. doubt' \in [Views -> SUBSET Listed] /\ torn' \in [Views -> SUBSET Listed]
    <3>1. /\ doubt \in [Views -> SUBSET Listed] /\ torn \in [Views -> SUBSET Listed]
          /\ act[p].done \subseteq Listed /\ beside[p] \subseteq Listed
      BY <1>3 DEF CacheInv, CacheTypes
    <3> QED
      BY <1>1, <3>1
  <2> QED
    BY <1>1, <1>3, <1>4, <1>5, <2>1 DEF CacheInv, CacheTypes, B!NoFetch
<1>7. FetchedRight'
  <2>1. CASE fetch = B!NoFetch
    BY <1>1, <2>1 DEF FetchedRight, B!NoFetch
  <2>2. CASE fetch # B!NoFetch
    <3>1. /\ \A q \in Procs : act[q].ids \subseteq fetch.doubt
          /\ \A d \in Listed \ fetch.doubt : Right(fetch.view, server[d], fetch.items[d])
      BY <2>2 DEF CacheInv, FetchedRight
    <3>2. \A d \in Listed \ fetch.doubt : Right(fetch.view, server'[d], fetch.items[d])
      BY <1>2, <1>3, <1>4, <3>1
    <3>3. \A q \in Procs : act'[q].ids \subseteq fetch.doubt
      BY <1>5, <3>1
    <3> QED
      BY <1>1, <3>2, <3>3 DEF FetchedRight
  <2> QED
    BY <2>1, <2>2
<1>8. ShownRight'
  <2> SUFFICES ASSUME NEW v \in Views, NEW d \in Listed, d \notin doubt'[v], d \notin torn'[v]
               PROVE /\ Right(v, server'[d], view'[v][d])
                     /\ \A q \in Procs : act'[q] # B!NoAct => Backed(act'[q], beside'[q], v, d, view'[v][d], server'[d])
    BY DEF ShownRight
  <2>1. /\ d \notin doubt[v] /\ d \notin torn[v] /\ d \notin S1 /\ d \notin act[p].done /\ d \notin beside[p]
        /\ view'[v][d] = act[p].before[v][d]
    BY <1>1
  <2>2. server'[d] = server[d]
    BY <1>2, <1>4, <2>1
  <2>3. \A q \in Procs : act[q] # B!NoAct => Backed(act[q], beside[q], v, d, view[v][d], server[d])
    BY <2>1 DEF CacheInv, ShownRight
  <2>4. Right(v, server[d], act[p].before[v][d])
    BY <1>2, <2>1, <2>3 DEF Backed
  <2>5. ASSUME NEW q \in Procs, q # p, act[q] # B!NoAct
        PROVE Backed(act[q], beside[q], v, d, view'[v][d], server[d])
    <3>1. d \notin act[q].ids /\ Backed(act[q], beside[q], v, d, view[v][d], server[d])
      BY <1>3, <2>1, <2>3, <2>5
    <3> QED
      BY <3>1 DEF Backed
  <2> QED
    BY <1>5, <2>1, <2>2, <2>4, <2>5
<1> QED
  BY <1>5, <1>6, <1>7, <1>8 DEF CacheInv

LEMMA ActionEnds == ASSUME CacheInv, NEW p \in Procs, B!Finish(p) PROVE CacheInv'
<1>1. /\ act[p] # B!NoAct /\ act[p].todo = {} /\ view' = B!Kept(p) /\ B!Ends(p)
      /\ torn' = [v \in Views |-> torn[v] \cup IF act[p].failed = {} THEN {} ELSE beside[p]]
      /\ UNCHANGED <<server, fetch, doubt>>
  BY DEF B!Finish, B!UnderWay, B!Torn
<1>2. /\ act[p].ids \subseteq Listed /\ act[p].done \cup act[p].failed = act[p].ids
      /\ act[p].change \in Changes /\ act[p].before \in Pictures /\ beside \in [Procs -> SUBSET Listed]
      /\ \A q \in Procs : q # p /\ act[q] # B!NoAct => act[q].ids \subseteq beside[p]
  BY <1>1, ActionKnown
<1>3. /\ act'[p] = B!NoAct /\ act' = [q \in Procs |-> act'[q]]
      /\ \A q \in Procs : q # p => act'[q] = act[q] /\ beside'[q] = beside[q]
      /\ \A q \in Procs : ActFits(act'[q]) /\ act'[q].ids \subseteq act[q].ids
      /\ beside' \in [Procs -> SUBSET Listed] /\ OverlapKnown'
  BY <1>1, ActionOver
<1>4. /\ view' \in Pictures
      /\ act[p].failed = {} => view' = view /\ act[p].done = act[p].ids
      /\ act[p].failed # {} =>
           \A v \in Views : \A d \in Listed :
             view'[v][d] = IF d \in act[p].done THEN Applied(v, act[p].before[v][d], act[p].change)
                           ELSE act[p].before[v][d]
  <2>1. CASE act[p].failed = {}
    <3>1. view' = view /\ act[p].done = act[p].ids /\ view \in Pictures
      BY <1>1, <1>2, <2>1 DEF B!Kept, CacheInv, CacheTypes
    <3> QED
      BY <2>1, <3>1
  <2>2. CASE act[p].failed # {}
    <3>1. view' = B!Changed(act[p].before, act[p].done, act[p].change) /\ act[p].done \in SUBSET Listed
      BY <1>1, <1>2, <2>2 DEF B!Kept
    <3>2. PICK before, done, change : before = act[p].before /\ done = act[p].done /\ change = act[p].change
      OBVIOUS
    <3>3. /\ B!Changed(before, done, change) \in Pictures
          /\ \A v \in Views : \A d \in Listed :
               B!Changed(before, done, change)[v][d] =
                 IF d \in done THEN Applied(v, before[v][d], change) ELSE before[v][d]
      BY <1>2, <3>1, <3>2, ChangedIs
    <3> QED
      BY <2>2, <3>1, <3>2, <3>3
  <2> QED
    BY <2>1, <2>2
<1>5. CacheTypes'
  <2>1. torn' \in [Views -> SUBSET Listed]
    <3>1. torn \in [Views -> SUBSET Listed] /\ beside[p] \subseteq Listed
      BY <1>2 DEF CacheInv, CacheTypes
    <3> QED
      BY <1>1, <3>1
  <2> QED
    BY <1>1, <1>3, <1>4, <2>1 DEF CacheInv, CacheTypes, B!NoFetch
<1>6. FetchedRight'
  BY <1>1, <1>3 DEF CacheInv, FetchedRight, B!NoFetch
<1>7. ShownRight'
  <2> SUFFICES ASSUME NEW v \in Views, NEW d \in Listed, d \notin doubt[v], d \notin torn'[v]
               PROVE /\ (\A q \in Procs : d \notin act'[q].ids) => Right(v, server[d], view'[v][d])
                     /\ \A q \in Procs : act'[q] # B!NoAct => Backed(act'[q], beside'[q], v, d, view'[v][d], server[d])
    BY <1>1 DEF ShownRight
  <2>1. d \notin torn[v] /\ (act[p].failed # {} => d \notin beside[p])
    BY <1>1
  <2>2. /\ (\A q \in Procs : d \notin act[q].ids) => Right(v, server[d], view[v][d])
        /\ \A q \in Procs : act[q] # B!NoAct => Backed(act[q], beside[q], v, d, view[v][d], server[d])
    BY <2>1 DEF CacheInv, ShownRight
  <2>3. Backed(act[p], beside[p], v, d, view[v][d], server[d])
    BY <1>1, <2>2
  <2>4. CASE act[p].failed = {}
    <3>1. view' = view /\ act[p].done = act[p].ids
      BY <1>4, <2>4
    <3>2. d \in act[p].ids => Right(v, server[d], view[v][d])
      BY <2>3, <3>1 DEF Backed
    <3>3. (\A q \in Procs : d \notin act'[q].ids) => Right(v, server[d], view[v][d])
      BY <1>3, <2>2, <3>2
    <3> QED
      BY <1>3, <2>2, <3>1, <3>3
  <2>5. CASE act[p].failed # {}
    <3>1. view'[v][d] = IF d \in act[p].done THEN Applied(v, act[p].before[v][d], act[p].change)
                        ELSE act[p].before[v][d]
      BY <1>4, <2>5
    <3>2. Right(v, server[d], view'[v][d])
      BY <1>2, <2>1, <2>3, <2>5, <3>1 DEF Backed
    <3>3. ASSUME NEW q \in Procs, q # p, act[q] # B!NoAct
          PROVE Backed(act[q], beside[q], v, d, view'[v][d], server[d])
      <4>1. d \notin act[q].ids /\ Backed(act[q], beside[q], v, d, view[v][d], server[d])
        BY <1>2, <2>1, <2>2, <2>5, <3>3
      <4> QED
        BY <4>1 DEF Backed
    <3> QED
      BY <1>3, <3>2, <3>3
  <2> QED
    BY <2>4, <2>5
<1> QED
  BY <1>3, <1>5, <1>6, <1>7 DEF CacheInv

LEMMA ChangedElsewhere ==
  ASSUME CacheInv, NEW d \in Listed, NEW new \in Records, B!Elsewhere(d, new)
  PROVE CacheInv'
<1>1. /\ server' = [server EXCEPT ![d] = new] /\ doubt' = [v \in Views |-> doubt[v] \cup {d}]
      /\ fetch' = IF fetch = B!NoFetch THEN B!NoFetch ELSE [fetch EXCEPT !.doubt = @ \cup {d}]
      /\ UNCHANGED <<view, act, beside, torn>>
  BY DEF B!Elsewhere
<1>2. server \in [Listed -> Records] /\ doubt \in [Views -> SUBSET Listed]
  BY DEF CacheInv, CacheTypes
<1>3. server' \in [Listed -> Records] /\ \A e \in Listed \ {d} : server'[e] = server[e]
  BY <1>1, <1>2
<1>5. fetch # B!NoFetch =>
        /\ fetch' = [view |-> fetch.view, items |-> fetch.items, doubt |-> fetch.doubt \cup {d}]
        /\ fetch'.view = fetch.view /\ fetch'.items = fetch.items /\ fetch'.doubt = fetch.doubt \cup {d}
  <2>1. fetch # B!NoFetch => fetch = [view |-> fetch.view, items |-> fetch.items, doubt |-> fetch.doubt]
    BY DEF CacheInv, CacheTypes
  <2> QED
    BY <1>1, <2>1
<1>6. fetch = B!NoFetch => fetch' = B!NoFetch'
  BY <1>1 DEF B!NoFetch
<1>7. CacheTypes'
  <2>1. fetch' # B!NoFetch' => /\ fetch' = [view |-> fetch'.view, items |-> fetch'.items, doubt |-> fetch'.doubt]
                              /\ fetch'.view \in Views /\ fetch'.items \in [Listed -> B!Items \cup {None}]
                              /\ fetch'.doubt \subseteq Listed
    BY <1>5, <1>6 DEF CacheInv, CacheTypes
  <2>2. doubt' \in [Views -> SUBSET Listed]
    BY <1>1, <1>2
  <2> QED
    BY <1>1, <1>3, <2>1, <2>2 DEF CacheInv, CacheTypes
<1>8. FetchedRight'
  <2>1. CASE fetch = B!NoFetch
    BY <1>6, <2>1 DEF FetchedRight
  <2>2. CASE fetch # B!NoFetch
    <3>1. /\ \A p \in Procs : act[p].ids \subseteq fetch.doubt
          /\ \A e \in Listed \ fetch.doubt : Right(fetch.view, server[e], fetch.items[e])
          /\ fetch.view \in Views
      BY <2>2 DEF CacheInv, CacheTypes, FetchedRight
    <3>2. \A e \in Listed \ (fetch.doubt \cup {d}) : Right(fetch.view, server'[e], fetch.items[e])
      BY <1>3, <3>1
    <3>3. \A e \in Listed \ fetch'.doubt : Right(fetch.view, server'[e], fetch.items[e])
      BY <1>5, <2>2, <3>2
    <3> QED
      BY <1>1, <1>5, <2>2, <3>1, <3>3 DEF FetchedRight
  <2> QED
    BY <2>1, <2>2
<1>9. ShownRight'
  <2> SUFFICES ASSUME NEW v \in Views, NEW e \in Listed, e \notin doubt[v], e # d, e \notin torn[v]
               PROVE /\ (\A p \in Procs : e \notin act[p].ids) => Right(v, server'[e], view[v][e])
                     /\ \A p \in Procs : act[p] # B!NoAct => Backed(act[p], beside[p], v, e, view[v][e], server'[e])
    BY <1>1 DEF ShownRight
  <2>1. /\ (\A p \in Procs : e \notin act[p].ids) => Right(v, server[e], view[v][e])
        /\ \A p \in Procs : act[p] # B!NoAct => Backed(act[p], beside[p], v, e, view[v][e], server[e])
    BY DEF CacheInv, ShownRight
  <2>2. server'[e] = server[e]
    BY <1>3
  <2> QED
    BY <2>1, <2>2
<1>10. OverlapKnown'
  BY <1>1 DEF CacheInv, OverlapKnown
<1> QED
  BY <1>7, <1>8, <1>9, <1>10 DEF CacheInv

LEMMA CacheStep == ASSUME CacheInv, [MCNext]_allVars PROVE CacheInv'
<1>1. CASE B!Next
  <2>1. ASSUME NEW d \in Listed, NEW s \in {"live", "trashed", "gone"}, NEW f \in Folders,
               B!Elsewhere(d, [server[d] EXCEPT !.status = s, !.folder = f])
        PROVE CacheInv'
    <3>1. [server[d] EXCEPT !.status = s, !.folder = f] \in Records
      BY DEF CacheInv, CacheTypes, Records
    <3> QED
      BY <2>1, <3>1, ChangedElsewhere
  <2>2. ASSUME NEW p \in Procs, NEW v \in Views, NEW ids \in SUBSET Listed,
               NEW change \in B!Moves \cup B!Favourites \cup B!Others, B!Begin(p, v, ids, change)
        PROVE CacheInv'
    BY <2>2, ActionBegins DEF Changes
  <2> QED
    BY <1>1, <2>1, <2>2, FetchStarts, FetchComes, FetchLost, ChunkAnswered, ChunkThrown, ActionEnds DEF B!Next
<1>2. CASE UNCHANGED cacheVars
  <2>1. UNCHANGED <<server, view, fetch, act, doubt, beside, torn, events>>
    BY <1>2 DEF cacheVars
  <2>3. CacheTypes'
    BY <2>1 DEF CacheInv, CacheTypes, B!NoFetch
  <2>4. FetchedRight' /\ OverlapKnown' /\ ShownRight'
    BY <2>1 DEF CacheInv, FetchedRight, OverlapKnown, ShownRight, B!NoFetch
  <2> QED
    BY <2>3, <2>4 DEF CacheInv
<1>3. B!Next \/ UNCHANGED cacheVars
  BY Zenon DEF MCNext, allVars
<1> QED
  BY <1>1, <1>2, <1>3

LEMMA CacheAlways == MCSpec => []CacheInv
<1>1. MCInit => CacheInv
  BY CacheStarts DEF MCInit
<1> QED
  BY <1>1, CacheStep, PTL DEF MCSpec

-----------------------------------------------------------------------------
\* The sidebar in the browser.

AllChanges == S!Creations \cup S!Updates \cup S!Moves \cup S!Deletions

SidebarTypes ==
  /\ bar \in S!Trees /\ shown \in S!Trees /\ stale \in BOOLEAN
  /\ \/ reading = S!NoFetch \/ reading = S!Asked
     \/ /\ reading = [at |-> "read", items |-> reading.items, doubt |-> reading.doubt]
        /\ reading.items \in S!Trees /\ reading.doubt \subseteq S!Rows
  /\ DOMAIN call = Procs
  /\ \A p \in Procs : \/ call[p] = S!NoCall
                      \/ /\ call[p] = [at |-> call[p].at, change |-> call[p].change, before |-> call[p].before]
                         /\ call[p].at \in {"sent", "ok", "failed"}
                         /\ call[p].change \in AllChanges /\ call[p].before \in S!Trees
  /\ chosen = [folder |-> chosen.folder, to |-> chosen.to]
  /\ chosen.folder \in Folders \cup {None} /\ chosen.to \in S!Places
  /\ late \subseteq AllChanges /\ unsure \subseteq S!Rows

\* The browser shows a guess, or waits to hear of a creation that was carried out.
Guessing == \E p \in Procs : call[p] # S!NoCall /\ call[p].change.kind # "create"
Expected(e) == \E p \in Procs : call[p].at = "ok" /\ call[p].change.kind = "create" /\ call[p].change.id = e

\* Where nothing is guessed and nobody else has changed it, an entry is as the server has it.
Agrees(tree, D) == \A e \in S!Rows \ D : Expected(e) \/ tree[e] = bar[e]

SidebarAgrees ==
  ~ Guessing => /\ reading = S!NoFetch /\ ~ stale => Agrees(shown, unsure)
                /\ reading.at = "read" => Agrees(reading.items, reading.doubt)

\* The inductive invariant behind SidebarIsCurrent.
SidebarInv == SidebarTypes /\ SidebarAgrees

LEMMA SidebarTypesFit == ASSUME SidebarTypes PROVE S!TypeOK
<1>1. reading.at \in {"none", "asked", "read"} /\ reading.doubt \subseteq S!Rows
  BY DEF SidebarTypes, S!NoFetch, S!Asked
<1>2. \A p \in Procs : call[p].at \in {"idle", "sent", "ok", "failed"}
  BY DEF SidebarTypes, S!NoCall
<1>3. late \subseteq S!Creations \cup S!Updates \cup S!Moves \cup S!Deletions
  BY DEF SidebarTypes, AllChanges
<1> QED
  BY <1>1, <1>2, <1>3 DEF SidebarTypes, S!TypeOK

LEMMA CurrentFromInv == ASSUME SidebarInv PROVE S!SidebarIsCurrent
<1> SUFFICES ASSUME reading = S!NoFetch, ~ stale, \A p \in Procs : call[p] = S!NoCall
             PROVE \A e \in S!Rows \ unsure : shown[e] = bar[e]
  BY DEF S!SidebarIsCurrent
<1>1. ~ Guessing /\ \A e : ~ Expected(e)
  BY DEF Guessing, Expected, S!NoCall
<1> QED
  BY <1>1 DEF SidebarInv, SidebarAgrees, Agrees

-----------------------------------------------------------------------------
\* Changes and readings.

LEMMA ChangedFits ==
  ASSUME NEW tree \in S!Trees, NEW change \in AllChanges
  PROVE /\ S!Changed(tree, change) \in S!Trees
        /\ change.kind = "create" => \A e \in S!Rows \ {change.id} : S!Changed(tree, change)[e] = tree[e]
<1>1. change.id \in S!Rows /\ change.name \in FolderNames /\ change.to \in S!Places
  <2>1. S!Given \in FolderNames
    BY ViewAssumption DEF S!Given
  <2> QED
    BY <2>1 DEF AllChanges, S!Creations, S!Updates, S!Moves, S!Deletions, S!Rows, S!Places
<1>2. change.kind \in {"create", "update", "move", "delete"}
  BY DEF AllChanges, S!Creations, S!Updates, S!Moves, S!Deletions
<1>3. CASE change.kind = "create"
  <2>1. S!Changed(tree, change) = [tree EXCEPT ![change.id] = [name |-> change.name, parent |-> change.to]]
    BY <1>3 DEF S!Changed
  <2> QED
    BY <1>1, <2>1 DEF S!Trees
<1>4. CASE change.kind = "update" /\ tree[change.id] # None
  <2>1. S!Changed(tree, change) = [tree EXCEPT ![change.id].name = change.name]
    BY <1>4 DEF S!Changed
  <2>2. tree[change.id] \in [name : FolderNames, parent : S!Places]
    BY <1>1, <1>4 DEF S!Trees
  <2>3. [tree[change.id] EXCEPT !.name = change.name] \in [name : FolderNames, parent : S!Places]
    BY <1>1, <2>2
  <2> QED
    BY <1>1, <1>4, <2>1, <2>3 DEF S!Trees
<1>5. CASE change.kind = "move" /\ tree[change.id] # None
  <2>1. S!Changed(tree, change) = [tree EXCEPT ![change.id].parent = change.to]
    BY <1>5 DEF S!Changed
  <2>2. tree[change.id] \in [name : FolderNames, parent : S!Places]
    BY <1>1, <1>5 DEF S!Trees
  <2>3. [tree[change.id] EXCEPT !.parent = change.to] \in [name : FolderNames, parent : S!Places]
    BY <1>1, <2>2
  <2> QED
    BY <1>1, <1>5, <2>1, <2>3 DEF S!Trees
<1>6. CASE change.kind = "delete"
  <2>1. S!Changed(tree, change) = [e \in S!Rows |-> IF e \in S!Gone(tree, change.id) THEN None ELSE tree[e]]
    BY <1>6 DEF S!Changed
  <2> QED
    BY <1>6, <2>1 DEF S!Trees
<1>7. CASE change.kind \in {"update", "move"} /\ tree[change.id] = None
  <2>1. S!Changed(tree, change) = tree
    BY <1>7 DEF S!Changed
  <2> QED
    BY <1>7, <2>1
<1> QED
  BY <1>2, <1>3, <1>4, <1>5, <1>6, <1>7

LEMMA ReadingKinds ==
  /\ S!NoFetch.at = "none" /\ S!Asked.at = "asked" /\ S!Asked # S!NoFetch
  /\ S!NoCall.at = "idle"
  BY DEF S!NoFetch, S!Asked, S!NoCall

LEMMA SidebarStarts == ASSUME S!Init PROVE SidebarInv
<1>1. /\ bar \in S!Trees /\ shown = bar /\ stale = FALSE /\ reading = S!NoFetch
      /\ call = [p \in Procs |-> S!NoCall] /\ chosen = S!NoChoice /\ late = {} /\ unsure = {}
  BY DEF S!Init
<1>2. chosen = [folder |-> None, to |-> "top"]
  BY <1>1 DEF S!NoChoice
<1>3. SidebarTypes
  <2>1. chosen.folder = None /\ chosen.to \in S!Places
    BY <1>2 DEF S!Places
  <2>2. DOMAIN call = Procs /\ \A p \in Procs : call[p] = S!NoCall
    BY <1>1
  <2> QED
    BY <1>1, <1>2, <2>1, <2>2 DEF SidebarTypes
<1>4. SidebarAgrees
  BY <1>1, ReadingKinds DEF SidebarAgrees, Agrees
<1> QED
  BY <1>3, <1>4 DEF SidebarInv

\* A reading that is asked for promises nothing yet.
LEMMA AskedAgrees == ASSUME reading' = S!Asked PROVE SidebarAgrees'
  BY ReadingKinds DEF SidebarAgrees, S!NoFetch

LEMMA RefetchKeeps == ASSUME SidebarInv, S!Refetch PROVE SidebarInv'
<1>1. reading' = S!Asked /\ UNCHANGED <<bar, shown, stale, call, chosen, late, unsure>>
  BY DEF S!Refetch
<1>2. SidebarTypes'
  BY <1>1 DEF SidebarInv, SidebarTypes, S!Asked, S!NoFetch
<1> QED
  BY <1>1, <1>2, AskedAgrees DEF SidebarInv

LEMMA ReadKeeps == ASSUME SidebarInv, S!FetchRead PROVE SidebarInv'
<1>1. reading' = [at |-> "read", items |-> bar, doubt |-> {}] /\ UNCHANGED <<bar, shown, stale, call, chosen, late, unsure>>
  BY DEF S!FetchRead
<1>2. reading'.at = "read" /\ reading'.items = bar /\ reading'.doubt = {} /\ reading' # S!NoFetch'
  BY <1>1, ReadingKinds DEF S!NoFetch
<1>3. SidebarTypes'
  BY <1>1, <1>2 DEF SidebarInv, SidebarTypes
<1>4. SidebarAgrees'
  BY <1>1, <1>2 DEF SidebarAgrees, Agrees
<1> QED
  BY <1>3, <1>4 DEF SidebarInv

LEMMA ArrivesKeeps == ASSUME SidebarInv, S!FetchArrives PROVE SidebarInv'
<1>1. /\ reading.at = "read" /\ shown' = reading.items /\ stale' = FALSE /\ unsure' = reading.doubt
      /\ reading' = S!NoFetch /\ UNCHANGED <<bar, call, chosen, late>>
  BY DEF S!FetchArrives
<1>2. reading.items \in S!Trees /\ reading.doubt \subseteq S!Rows
  BY <1>1, ReadingKinds DEF SidebarInv, SidebarTypes
<1>3. SidebarTypes'
  BY <1>1, <1>2 DEF SidebarInv, SidebarTypes, S!NoFetch
<1>4. Guessing' <=> Guessing
  BY <1>1 DEF Guessing, S!NoCall
<1>5. ~ Guessing => Agrees(shown, unsure)'
  BY <1>1 DEF SidebarInv, SidebarAgrees, Agrees, Expected
<1>6. SidebarAgrees'
  BY <1>1, <1>4, <1>5, ReadingKinds DEF SidebarAgrees
<1> QED
  BY <1>3, <1>6 DEF SidebarInv

LEMMA FailsKeeps == ASSUME SidebarInv, S!FetchFails PROVE SidebarInv'
<1>1. reading' = S!NoFetch /\ stale' = TRUE /\ UNCHANGED <<bar, shown, call, chosen, late, unsure>>
  BY DEF S!FetchFails
<1>2. SidebarTypes'
  BY <1>1 DEF SidebarInv, SidebarTypes, S!NoFetch
<1>3. SidebarAgrees'
  BY <1>1, ReadingKinds DEF SidebarAgrees
<1> QED
  BY <1>2, <1>3 DEF SidebarInv

\* The dialog changes what it would send only.
LEMMA DialogKeeps ==
  ASSUME SidebarInv, UNCHANGED <<bar, shown, stale, reading, call, late, unsure>>,
         chosen' = [folder |-> chosen'.folder, to |-> chosen'.to],
         chosen'.folder \in Folders \cup {None}, chosen'.to \in S!Places
  PROVE SidebarInv'
<1>1. SidebarTypes'
  BY DEF SidebarInv, SidebarTypes, S!NoFetch, S!Asked, S!NoCall
<1>2. SidebarAgrees'
  BY DEF SidebarInv, SidebarAgrees, Agrees, Guessing, Expected, S!NoFetch, S!NoCall
<1> QED
  BY <1>1, <1>2 DEF SidebarInv

LEMMA MoveDialogKeeps ==
  ASSUME SidebarInv, \/ \E f \in Folders : S!OpenMoveDialog(f)
                     \/ \E to \in S!Places : S!ChooseParent(to)
                     \/ S!CloseMoveDialog
  PROVE SidebarInv'
<1>1. ASSUME NEW f \in Folders, S!OpenMoveDialog(f) PROVE SidebarInv'
  <2>1. chosen' = [folder |-> f, to |-> shown[f].parent] /\ shown[f] # None /\ f \in S!Rows
        /\ UNCHANGED <<bar, shown, stale, reading, call, late, unsure>>
    BY <1>1 DEF S!OpenMoveDialog, S!In
  <2>2. shown[f].parent \in S!Places
    BY <2>1 DEF SidebarInv, SidebarTypes, S!Trees
  <2> QED
    BY <2>1, <2>2, DialogKeeps
<1>2. ASSUME NEW to \in S!Places, S!ChooseParent(to) PROVE SidebarInv'
  <2>1. chosen' = [chosen EXCEPT !.to = to] /\ UNCHANGED <<bar, shown, stale, reading, call, late, unsure>>
    BY <1>2 DEF S!ChooseParent
  <2>2. chosen' = [folder |-> chosen.folder, to |-> to] /\ chosen.folder \in Folders \cup {None}
    BY <2>1 DEF SidebarInv, SidebarTypes
  <2> QED
    BY <2>1, <2>2, DialogKeeps
<1>3. ASSUME S!CloseMoveDialog PROVE SidebarInv'
  <2>1. chosen' = [folder |-> None, to |-> "top"] /\ UNCHANGED <<bar, shown, stale, reading, call, late, unsure>>
    BY <1>3 DEF S!CloseMoveDialog, S!NoChoice
  <2>2. chosen'.folder = None /\ chosen'.to = "top" /\ "top" \in S!Places
    BY <2>1 DEF S!Places
  <2> QED
    BY <2>1, <2>2, DialogKeeps
<1> QED
  BY <1>1, <1>2, <1>3

-----------------------------------------------------------------------------
\* Calls.

LEMMA CallBegins ==
  ASSUME SidebarInv, NEW p \in Procs, NEW change \in AllChanges, S!Begin(p, change),
         chosen' = chosen \/ chosen' = S!NoChoice
  PROVE SidebarInv'
<1>1. /\ call[p] = S!NoCall /\ call' = [call EXCEPT ![p] = [at |-> "sent", change |-> change, before |-> shown]]
      /\ UNCHANGED <<bar, late, unsure>>
  BY DEF S!Begin
<1>2. \/ change.kind = "create" /\ UNCHANGED <<shown, stale, reading>>
      \/ /\ change.kind # "create"
         /\ shown' = S!Changed(shown, change) /\ stale' = FALSE /\ reading' = S!NoFetch
  BY DEF S!Begin
<1>3. /\ call'[p] = [at |-> "sent", change |-> change, before |-> shown]
      /\ \A q \in Procs : q # p => call'[q] = call[q]
      /\ DOMAIN call' = Procs
  BY <1>1 DEF SidebarInv, SidebarTypes
<1>4. call'[p].at = "sent" /\ call'[p].change = change /\ call'[p].before = shown /\ call'[p] # S!NoCall
  BY <1>3, ReadingKinds
<1>5. shown \in S!Trees /\ shown' \in S!Trees
  BY <1>2, ChangedFits DEF SidebarInv, SidebarTypes
<1>6. SidebarTypes'
  <2>1. \A q \in Procs : \/ call'[q] = S!NoCall
                         \/ /\ call'[q] = [at |-> call'[q].at, change |-> call'[q].change, before |-> call'[q].before]
                            /\ call'[q].at \in {"sent", "ok", "failed"}
                            /\ call'[q].change \in AllChanges /\ call'[q].before \in S!Trees
    BY <1>3, <1>4, <1>5 DEF SidebarInv, SidebarTypes
  <2>2. chosen' = [folder |-> chosen'.folder, to |-> chosen'.to]
        /\ chosen'.folder \in Folders \cup {None} /\ chosen'.to \in S!Places
    BY DEF SidebarInv, SidebarTypes, S!NoChoice, S!Places
  <2>3. \/ reading' = S!NoFetch \/ reading' = S!Asked
        \/ /\ reading' = [at |-> "read", items |-> reading'.items, doubt |-> reading'.doubt]
           /\ reading'.items \in S!Trees /\ reading'.doubt \subseteq S!Rows
    BY <1>2 DEF SidebarInv, SidebarTypes
  <2>4. stale' \in BOOLEAN
    BY <1>2 DEF SidebarInv, SidebarTypes
  <2> QED
    BY <1>1, <1>3, <1>5, <2>1, <2>2, <2>3, <2>4 DEF SidebarInv, SidebarTypes, S!NoCall, S!NoFetch, S!Asked
<1>7. CASE change.kind = "create"
  <2>1. UNCHANGED <<bar, shown, stale, reading, unsure>>
    BY <1>1, <1>2, <1>7
  <2>2. Guessing' => Guessing
    <3>1. ASSUME NEW q \in Procs, call'[q] # S!NoCall, call'[q].change.kind # "create" PROVE Guessing
      BY <1>3, <1>4, <1>7, <3>1 DEF Guessing
    <3> QED
      BY <3>1 DEF Guessing, S!NoCall
  <2>3. Guessing => Guessing'
    BY <1>1, <1>3 DEF Guessing, S!NoCall
  <2>4. \A e : Expected(e) => Expected(e)'
    BY <1>1, <1>3, ReadingKinds DEF Expected
  <2>5. SidebarAgrees'
    BY <2>1, <2>3, <2>4 DEF SidebarInv, SidebarAgrees, Agrees, S!NoFetch
  <2> QED
    BY <1>6, <2>5 DEF SidebarInv
<1>8. CASE change.kind # "create"
  <2>1. Guessing'
    BY <1>4, <1>8 DEF Guessing, S!NoCall
  <2> QED
    BY <1>6, <2>1 DEF SidebarInv, SidebarAgrees
<1> QED
  BY <1>7, <1>8

\* A call that goes on, or gets its answer.
LEMMA CallGoesOn ==
  ASSUME SidebarTypes, NEW p \in Procs, NEW at \in {"sent", "ok", "failed"},
         call[p] # S!NoCall, call' = [call EXCEPT ![p].at = at]
  PROVE /\ call'[p].at = at /\ call'[p].change = call[p].change /\ call'[p].before = call[p].before
        /\ \A q \in Procs : q # p => call'[q] = call[q]
        /\ DOMAIN call' = Procs
        /\ \A q \in Procs : \/ call'[q] = S!NoCall
                            \/ /\ call'[q] = [at |-> call'[q].at, change |-> call'[q].change, before |-> call'[q].before]
                               /\ call'[q].at \in {"sent", "ok", "failed"}
                               /\ call'[q].change \in AllChanges /\ call'[q].before \in S!Trees
        /\ Guessing' <=> Guessing
<1>1. /\ call[p] = [at |-> call[p].at, change |-> call[p].change, before |-> call[p].before]
      /\ call[p].change \in AllChanges /\ call[p].before \in S!Trees /\ DOMAIN call = Procs
  BY DEF SidebarTypes
<1>2. /\ call'[p] = [call[p] EXCEPT !.at = at] /\ DOMAIN call' = Procs
      /\ \A q \in Procs : q # p => call'[q] = call[q]
  BY <1>1
<1>3. call'[p] = [at |-> at, change |-> call[p].change, before |-> call[p].before]
  BY <1>1, <1>2
<1>4. call'[p].at = at /\ call'[p].change = call[p].change /\ call'[p].before = call[p].before
  BY <1>3
<1>5. call'[p] # S!NoCall
  BY <1>4, ReadingKinds
<1>6. \A q \in Procs : \/ call'[q] = S!NoCall
                       \/ /\ call'[q] = [at |-> call'[q].at, change |-> call'[q].change, before |-> call'[q].before]
                          /\ call'[q].at \in {"sent", "ok", "failed"}
                          /\ call'[q].change \in AllChanges /\ call'[q].before \in S!Trees
  BY <1>1, <1>2, <1>3, <1>4 DEF SidebarTypes
<1>7. \A q \in Procs : /\ call'[q] # S!NoCall <=> call[q] # S!NoCall
                       /\ call'[q].change = call[q].change
  BY <1>2, <1>4, <1>5
<1>8. Guessing' <=> Guessing
  BY <1>7 DEF Guessing, S!NoCall
<1> QED
  BY <1>2, <1>4, <1>6, <1>8

LEMMA CallServed == ASSUME SidebarInv, NEW p \in Procs, S!Serve(p) PROVE SidebarInv'
<1>1. /\ call[p].at = "sent" /\ UNCHANGED <<shown, stale, reading, chosen, late, unsure>>
      /\ \/ /\ bar' = S!Changed(bar, call[p].change) /\ call' = [call EXCEPT ![p].at = "ok"]
         \/ /\ bar' = bar /\ call' = [call EXCEPT ![p].at = "failed"]
  BY DEF S!Serve
<1>2. call[p] # S!NoCall /\ call[p].change \in AllChanges
  BY <1>1, ReadingKinds DEF SidebarInv, SidebarTypes
<1>3. bar' \in S!Trees
  BY <1>1, <1>2, ChangedFits DEF SidebarInv, SidebarTypes
<1>4. PICK at \in {"ok", "failed"} : /\ call' = [call EXCEPT ![p].at = at]
                                     /\ bar' = IF at = "ok" THEN S!Changed(bar, call[p].change) ELSE bar
  BY <1>1
<1>5. /\ call'[p].at = at /\ call'[p].change = call[p].change
      /\ \A q \in Procs : q # p => call'[q] = call[q]
      /\ Guessing' <=> Guessing
  BY <1>2, <1>4, CallGoesOn DEF SidebarInv
<1>6. SidebarTypes'
  <2>1. /\ DOMAIN call' = Procs
        /\ \A q \in Procs : \/ call'[q] = S!NoCall
                            \/ /\ call'[q] = [at |-> call'[q].at, change |-> call'[q].change, before |-> call'[q].before]
                               /\ call'[q].at \in {"sent", "ok", "failed"}
                               /\ call'[q].change \in AllChanges /\ call'[q].before \in S!Trees
    BY <1>2, <1>4, CallGoesOn DEF SidebarInv
  <2> QED
    BY <1>1, <1>3, <2>1 DEF SidebarInv, SidebarTypes, S!NoCall, S!NoFetch, S!Asked
<1>7. SidebarAgrees'
  <2> SUFFICES ASSUME ~ Guessing PROVE SidebarAgrees'
    BY <1>5 DEF SidebarAgrees
  <2>1. call[p].change.kind = "create"
    BY <1>2 DEF Guessing
  <2>2. \A e \in S!Rows : Expected(e)' \/ bar'[e] = bar[e]
    <3>1. CASE at = "ok"
      <4>1. PICK id : id = call[p].change.id
        OBVIOUS
      <4>2. \A e \in S!Rows \ {id} : bar'[e] = bar[e]
        BY <1>2, <1>4, <2>1, <3>1, <4>1, ChangedFits DEF SidebarInv, SidebarTypes
      <4>3. Expected(id)'
        BY <1>5, <2>1, <3>1, <4>1 DEF Expected
      <4> QED
        BY <4>2, <4>3
    <3>2. CASE at # "ok"
      BY <1>4, <3>2
    <3> QED
      BY <3>1, <3>2
  <2>3. \A e : Expected(e) => Expected(e)'
    BY <1>1, <1>5 DEF Expected
  <2>4. \A tree, D : Agrees(tree, D) => \A e \in S!Rows \ D : Expected(e)' \/ tree[e] = bar'[e]
    BY <2>2, <2>3 DEF Agrees
  <2>5. /\ shown' = shown /\ unsure' = unsure /\ reading' = reading
        /\ reading = S!NoFetch /\ ~ stale => Agrees(shown, unsure)
        /\ reading.at = "read" => Agrees(reading.items, reading.doubt)
    BY <1>1 DEF SidebarInv, SidebarAgrees
  <2>6. /\ reading = S!NoFetch /\ ~ stale => Agrees(shown, unsure)'
        /\ reading.at = "read" => Agrees(reading.items, reading.doubt)'
    <3>1. /\ Agrees(shown, unsure)' <=> \A e \in S!Rows \ unsure : Expected(e)' \/ shown[e] = bar'[e]
          /\ Agrees(reading.items, reading.doubt)'
               <=> \A e \in S!Rows \ reading.doubt : Expected(e)' \/ reading.items[e] = bar'[e]
      BY <2>5 DEF Agrees
    <3> QED
      BY <2>4, <2>5, <3>1
  <2> QED
    BY <1>1, <2>5, <2>6 DEF SidebarAgrees, S!NoFetch
<1> QED
  BY <1>6, <1>7 DEF SidebarInv

\* What others change is not certain, in the sidebar and in what is being read.
LEMMA UnknownIs ==
  ASSUME SidebarTypes, NEW D \in SUBSET S!Rows, S!Unknown(D)
  PROVE /\ unsure' = unsure \cup D
        /\ reading.at = "read" => /\ reading'.at = "read" /\ reading'.items = reading.items
                                  /\ reading'.doubt = reading.doubt \cup D
        /\ reading.at # "read" => reading' = reading
        /\ reading' = S!NoFetch => reading = S!NoFetch
        /\ \/ reading' = S!NoFetch \/ reading' = S!Asked
           \/ /\ reading' = [at |-> "read", items |-> reading'.items, doubt |-> reading'.doubt]
              /\ reading'.items \in S!Trees /\ reading'.doubt \subseteq S!Rows
<1>1. unsure' = unsure \cup D
  BY DEF S!Unknown
<1>2. CASE reading.at = "read"
  <2>1. /\ reading = [at |-> "read", items |-> reading.items, doubt |-> reading.doubt]
        /\ reading.items \in S!Trees /\ reading.doubt \subseteq S!Rows
    BY <1>2, ReadingKinds DEF SidebarTypes
  <2>2. reading' = [at |-> "read", items |-> reading.items, doubt |-> reading.doubt \cup D]
    BY <1>2, <2>1 DEF S!Unknown
  <2>3. reading'.at = "read" /\ reading'.items = reading.items /\ reading'.doubt = reading.doubt \cup D
    BY <2>2
  <2> QED
    BY <1>1, <1>2, <2>1, <2>2, <2>3, ReadingKinds
<1>3. CASE reading.at # "read"
  <2>1. reading' = reading
    BY <1>3 DEF S!Unknown
  <2>2. reading = S!NoFetch \/ reading = S!Asked
    BY <1>3 DEF SidebarTypes
  <2> QED
    BY <1>1, <1>3, <2>1, <2>2
<1> QED
  BY <1>2, <1>3

\* An entry that may differ now is not certain any more.
LEMMA UnknownAgrees ==
  ASSUME SidebarInv, NEW D \in SUBSET S!Rows, S!Unknown(D), UNCHANGED <<shown, stale>>,
         Guessing' <=> Guessing,
         \A e \in S!Rows \ D : bar'[e] = bar[e] /\ (Expected(e) => Expected(e)')
  PROVE SidebarAgrees'
<1> SUFFICES ASSUME ~ Guessing PROVE SidebarAgrees'
  BY DEF SidebarAgrees
<1>1. \A tree, E : Agrees(tree, E) => \A e \in S!Rows \ (E \cup D) : Expected(e)' \/ tree[e] = bar'[e]
  BY DEF Agrees
<1>2. SidebarTypes
  BY DEF SidebarInv
<1>3. reading' = S!NoFetch /\ ~ stale => Agrees(shown, unsure)'
  <2>1. reading' = S!NoFetch /\ ~ stale => Agrees(shown, unsure)
    BY <1>2, UnknownIs DEF SidebarInv, SidebarAgrees
  <2>2. unsure' = unsure \cup D
    BY <1>2, UnknownIs
  <2>3. Agrees(shown, unsure)' <=> \A e \in S!Rows \ (unsure \cup D) : Expected(e)' \/ shown[e] = bar'[e]
    BY <2>2 DEF Agrees
  <2> QED
    BY <1>1, <2>1, <2>3
<1>4. reading'.at = "read" => Agrees(reading.items, reading.doubt)'
  <2> SUFFICES ASSUME reading'.at = "read" PROVE Agrees(reading.items, reading.doubt)'
    OBVIOUS
  <2>1. reading.at = "read" /\ reading'.items = reading.items /\ reading'.doubt = reading.doubt \cup D
    BY <1>2, UnknownIs
  <2>2. Agrees(reading.items, reading.doubt)
    BY <2>1 DEF SidebarInv, SidebarAgrees
  <2>3. Agrees(reading.items, reading.doubt)' <=>
          \A e \in S!Rows \ (reading.doubt \cup D) : Expected(e)' \/ reading.items[e] = bar'[e]
    BY <2>1 DEF Agrees
  <2> QED
    BY <1>1, <2>2, <2>3
<1> QED
  BY <1>3, <1>4 DEF SidebarAgrees, S!NoFetch

LEMMA CallLost == ASSUME SidebarInv, NEW p \in Procs, S!AnswerLost(p) PROVE SidebarInv'
<1>1. /\ call[p].at \in {"sent", "ok"} /\ call' = [call EXCEPT ![p].at = "failed"]
      /\ late' = (IF call[p].at = "sent" THEN late \cup {call[p].change} ELSE late)
      /\ UNCHANGED <<bar, shown, stale, chosen>>
  BY DEF S!AnswerLost
<1>2. call[p] # S!NoCall /\ call[p].change \in AllChanges /\ call[p].change.id \in S!Rows
  <2>1. call[p] # S!NoCall /\ call[p].change \in AllChanges
    BY <1>1, ReadingKinds DEF SidebarInv, SidebarTypes
  <2> QED
    BY <2>1 DEF AllChanges, S!Creations, S!Updates, S!Moves, S!Deletions, S!Rows
<1>3. /\ call'[p].at = "failed" /\ call'[p].change = call[p].change
      /\ \A q \in Procs : q # p => call'[q] = call[q]
      /\ Guessing' <=> Guessing
  BY <1>1, <1>2, CallGoesOn DEF SidebarInv
<1>4. late' \subseteq AllChanges
  BY <1>1, <1>2 DEF SidebarInv, SidebarTypes
<1>5. PICK D \in SUBSET S!Rows :
        /\ S!Unknown(D)
        /\ call[p].at = "ok" /\ call[p].change.kind = "create" => call[p].change.id \in D
  <2>1. CASE call[p].at = "ok" /\ call[p].change.kind = "create"
    BY <1>2, <2>1 DEF S!AnswerLost
  <2>2. CASE ~ (call[p].at = "ok" /\ call[p].change.kind = "create")
    <3>1. unsure' = unsure /\ reading' = reading
      BY <2>2 DEF S!AnswerLost
    <3>2. reading.at = "read" => reading = [reading EXCEPT !.doubt = reading.doubt \cup {}]
      BY ReadingKinds DEF SidebarInv, SidebarTypes
    <3>3. S!Unknown({})
      BY <3>1, <3>2 DEF S!Unknown
    <3> QED
      BY <2>2, <3>3
  <2> QED
    BY <2>1, <2>2
<1>6. SidebarTypes'
  <2>1. /\ DOMAIN call' = Procs
        /\ \A q \in Procs : \/ call'[q] = S!NoCall
                            \/ /\ call'[q] = [at |-> call'[q].at, change |-> call'[q].change, before |-> call'[q].before]
                               /\ call'[q].at \in {"sent", "ok", "failed"}
                               /\ call'[q].change \in AllChanges /\ call'[q].before \in S!Trees
    BY <1>1, <1>2, CallGoesOn DEF SidebarInv
  <2>2. /\ unsure' \subseteq S!Rows
        /\ \/ reading' = S!NoFetch \/ reading' = S!Asked
           \/ /\ reading' = [at |-> "read", items |-> reading'.items, doubt |-> reading'.doubt]
              /\ reading'.items \in S!Trees /\ reading'.doubt \subseteq S!Rows
    BY <1>5, UnknownIs DEF SidebarInv, SidebarTypes
  <2> QED
    BY <1>1, <1>4, <2>1, <2>2 DEF SidebarInv, SidebarTypes, S!NoCall, S!NoFetch, S!Asked
<1>7. \A e \in S!Rows \ D : bar'[e] = bar[e] /\ (Expected(e) => Expected(e)')
  BY <1>1, <1>3, <1>5 DEF Expected
<1>8. SidebarAgrees'
  BY <1>1, <1>3, <1>5, <1>7, UnknownAgrees
<1> QED
  BY <1>6, <1>8 DEF SidebarInv

\* A change that the browser does not hear of.
LEMMA ChangedUnheard ==
  ASSUME SidebarInv, NEW change \in AllChanges, bar' = S!Changed(bar, change),
         S!Unknown({e \in S!Rows : bar'[e] # bar[e]}),
         UNCHANGED <<shown, stale, call, chosen>>, late' \subseteq late
  PROVE SidebarInv'
<1>1. bar' \in S!Trees
  BY ChangedFits DEF SidebarInv, SidebarTypes
<1>2. PICK D \in SUBSET S!Rows : D = {e \in S!Rows : bar'[e] # bar[e]} /\ S!Unknown(D)
  OBVIOUS
<1>3. SidebarTypes'
  <2>1. /\ unsure' \subseteq S!Rows
        /\ \/ reading' = S!NoFetch \/ reading' = S!Asked
           \/ /\ reading' = [at |-> "read", items |-> reading'.items, doubt |-> reading'.doubt]
              /\ reading'.items \in S!Trees /\ reading'.doubt \subseteq S!Rows
    BY <1>2, UnknownIs DEF SidebarInv, SidebarTypes
  <2> QED
    BY <1>1, <2>1 DEF SidebarInv, SidebarTypes, S!NoCall, S!NoFetch, S!Asked
<1>4. Guessing' <=> Guessing
  BY DEF Guessing, S!NoCall
<1>5. \A e : Expected(e)' <=> Expected(e)
  BY DEF Expected
<1>6. SidebarAgrees'
  BY <1>2, <1>4, <1>5, UnknownAgrees
<1> QED
  BY <1>3, <1>6 DEF SidebarInv

LEMMA CallEnds == ASSUME SidebarInv, NEW p \in Procs, S!Finish(p) PROVE SidebarInv'
<1>1. /\ call[p].at \in {"ok", "failed"} /\ call' = [call EXCEPT ![p] = S!NoCall]
      /\ UNCHANGED <<bar, chosen, late, unsure>>
  BY DEF S!Finish
<1>2. call[p] # S!NoCall /\ call[p].change \in AllChanges /\ call[p].before \in S!Trees
  BY <1>1, ReadingKinds DEF SidebarInv, SidebarTypes
<1>3. \/ call[p].change.kind = "create" /\ call[p].at = "failed" /\ UNCHANGED <<shown, stale, reading>>
      \/ /\ stale' = TRUE /\ reading' = S!Asked
         /\ \/ shown' = shown \/ shown' = call[p].before \/ shown' = S!Changed(shown, call[p].change)
  BY <1>1 DEF S!Finish, S!Added, S!Settled, S!Invalidated
<1>4. shown' \in S!Trees
  BY <1>2, <1>3, ChangedFits DEF SidebarInv, SidebarTypes
<1>5. call'[p] = S!NoCall /\ DOMAIN call' = Procs /\ \A q \in Procs : q # p => call'[q] = call[q]
  BY <1>1 DEF SidebarInv, SidebarTypes
<1>6. SidebarTypes'
  <2>1. \A q \in Procs : \/ call'[q] = S!NoCall
                         \/ /\ call'[q] = [at |-> call'[q].at, change |-> call'[q].change, before |-> call'[q].before]
                            /\ call'[q].at \in {"sent", "ok", "failed"}
                            /\ call'[q].change \in AllChanges /\ call'[q].before \in S!Trees
    BY <1>5 DEF SidebarInv, SidebarTypes
  <2>2. stale' \in BOOLEAN
    BY <1>3 DEF SidebarInv, SidebarTypes
  <2>3. \/ reading' = S!NoFetch \/ reading' = S!Asked
        \/ /\ reading' = [at |-> "read", items |-> reading'.items, doubt |-> reading'.doubt]
           /\ reading'.items \in S!Trees /\ reading'.doubt \subseteq S!Rows
    BY <1>3 DEF SidebarInv, SidebarTypes
  <2> QED
    BY <1>1, <1>4, <1>5, <2>1, <2>2, <2>3 DEF SidebarInv, SidebarTypes, S!NoCall, S!NoFetch, S!Asked
<1>7. SidebarAgrees'
  <2>1. CASE reading' = S!Asked
    BY <2>1, AskedAgrees
  <2>2. CASE reading' # S!Asked
    <3>1. call[p].change.kind = "create" /\ call[p].at = "failed" /\ UNCHANGED <<shown, stale, reading>>
      BY <1>3, <2>2
    <3>2. Guessing => Guessing'
      BY <1>5, <3>1 DEF Guessing, S!NoCall
    <3>3. \A e : Expected(e) => Expected(e)'
      BY <1>5, <3>1 DEF Expected
    <3> QED
      BY <1>1, <3>1, <3>2, <3>3 DEF SidebarInv, SidebarAgrees, Agrees, S!NoFetch
  <2> QED
    BY <2>1, <2>2
<1> QED
  BY <1>6, <1>7 DEF SidebarInv

LEMMA SidebarStep == ASSUME SidebarInv, [MCNext]_allVars PROVE SidebarInv'
<1>1. CASE S!Next
  <2>1. ASSUME NEW p \in Procs, NEW change \in AllChanges,
               S!Create(p, change) \/ S!UpdateOrDelete(p, change) \/ S!Drop(p, change) \/ S!MoveChosen(p, change)
        PROVE SidebarInv'
    <3>1. S!Begin(p, change) /\ (chosen' = chosen \/ chosen' = S!NoChoice)
      BY <2>1 DEF S!Create, S!UpdateOrDelete, S!Drop, S!MoveChosen
    <3> QED
      BY <3>1, CallBegins
  <2>2. ASSUME NEW change \in AllChanges, (change \in late /\ S!ServedLate(change)) \/ S!Elsewhere(change)
        PROVE SidebarInv'
    <3>1. /\ bar' = S!Changed(bar, change) /\ S!Unknown({e \in S!Rows : bar'[e] # bar[e]})
          /\ UNCHANGED <<shown, stale, call, chosen>> /\ late' \subseteq late
      BY <2>2 DEF S!ServedLate, S!Elsewhere
    <3> QED
      BY <3>1, ChangedUnheard
  <2>3. late \subseteq AllChanges
    BY DEF SidebarInv, SidebarTypes
  <2> QED
    BY <1>1, <2>1, <2>2, <2>3, RefetchKeeps, ReadKeeps, ArrivesKeeps, FailsKeeps, MoveDialogKeeps, CallServed,
       CallLost, CallEnds DEF S!Next, AllChanges
<1>2. CASE UNCHANGED barVars
  <2>1. UNCHANGED <<bar, shown, stale, reading, call, late, unsure>> /\ chosen' = chosen
    BY <1>2 DEF barVars
  <2> QED
    BY <2>1, DialogKeeps DEF SidebarInv, SidebarTypes
<1>3. S!Next \/ UNCHANGED barVars
  BY Zenon DEF MCNext, allVars
<1> QED
  BY <1>1, <1>2, <1>3

LEMMA SidebarAlways == MCSpec => []SidebarInv
<1>1. MCInit => SidebarInv
  BY SidebarStarts DEF MCInit
<1> QED
  BY <1>1, SidebarStep, PTL DEF MCSpec

-----------------------------------------------------------------------------
\* However many actions overlap, once none is under way a document that the browser lists belongs there and
\* is as the server has it, but for those that a rollback tore (answered already, or changed by another
\* action, when the cache went back to before) and those no answer told of; and when no call or reading is
\* under way, its sidebar has the server's folders, tags and smart folders, whichever changes overlapped,
\* failed and were rolled back (use-library-actions.ts, use-sidebar-actions.ts).
THEOREM ShownStaysCurrent == MCSpec => []ShownIsCurrent
<1>1. CacheInv /\ SidebarInv => ShownIsCurrent
  BY ListedFromInv, CurrentFromInv DEF ShownIsCurrent
<1> QED
  BY <1>1, CacheAlways, SidebarAlways, PTL

-----------------------------------------------------------------------------
\* A view read page by page (Listing).

\* R orders the members of X, one after another.
Orders(R, X) ==
  /\ \A a1 \in X : <<a1, a1>> \notin R
  /\ \A a1, a2, a3 \in X : <<a1, a2>> \in R /\ <<a2, a3>> \in R => <<a1, a3>> \in R
  /\ \A a1, a2 \in X : a1 = a2 \/ <<a1, a2>> \in R \/ <<a2, a1>> \in R

\* A finite set can be put in order, each member at the place that as many precede.
LEMMA InOrderExists ==
  ASSUME NEW X, IsFiniteSet(X), NEW R, Orders(R, X)
  PROVE \E s \in [1..Cardinality(X) -> X] : \A i, j \in DOMAIN s : i < j => <<s[i], s[j]>> \in R
<1> DEFINE pred(x) == {y \in X : <<y, x>> \in R}
           n == Cardinality(X)
           rank == [x \in X |-> Cardinality(pred(x)) + 1]
<1>1. n \in Nat
  BY FS_CardinalityType
<1>2. ASSUME NEW x \in X PROVE IsFiniteSet(pred(x)) /\ Cardinality(pred(x)) \in Nat /\ Cardinality(pred(x)) < n
  <2>1. pred(x) \in SUBSET X /\ x \notin pred(x)
    BY DEF Orders
  <2>2. IsFiniteSet(pred(x)) /\ Cardinality(pred(x)) <= n /\ (n = Cardinality(pred(x)) => X = pred(x))
    BY <2>1, FS_Subset
  <2>3. Cardinality(pred(x)) \in Nat
    BY <2>2, FS_CardinalityType
  <2> HIDE DEF pred, n
  <2> QED
    BY <1>1, <2>1, <2>2, <2>3
<1>3. ASSUME NEW x \in X, NEW y \in X, <<x, y>> \in R PROVE Cardinality(pred(x)) < Cardinality(pred(y))
  <2>1. pred(x) \subseteq pred(y) /\ x \in pred(y) /\ x \notin pred(x)
    BY <1>3 DEF Orders
  <2>2. pred(x) \in SUBSET pred(y) /\ pred(x) # pred(y)
    BY <2>1
  <2>3. IsFiniteSet(pred(y)) /\ Cardinality(pred(x)) \in Nat /\ Cardinality(pred(y)) \in Nat
    BY <1>2
  <2> HIDE DEF pred, n
  <2>4. Cardinality(pred(x)) <= Cardinality(pred(y)) /\ (Cardinality(pred(y)) = Cardinality(pred(x)) => pred(y) = pred(x))
    BY <2>2, <2>3, FS_Subset
  <2> QED
    BY <2>2, <2>3, <2>4
<1>4. rank \in [X -> 1..n] /\ \A x \in X : rank[x] = Cardinality(pred(x)) + 1
  <2> HIDE DEF pred, n
  <2> QED
    BY <1>1, <1>2
<1> HIDE DEF rank
<1>5. \A x, y \in X : <<x, y>> \in R => rank[x] < rank[y]
  <2> HIDE DEF pred, n
  <2> QED
    BY <1>2, <1>3, <1>4
<1>6. rank \in Injection(X, 1..n)
  <2>1. ASSUME NEW x \in X, NEW y \in X, rank[x] = rank[y] PROVE x = y
    <3>1. rank[x] \in Int /\ rank[y] \in Int
      BY <1>1, <1>4
    <3>2. <<x, y>> \notin R /\ <<y, x>> \notin R
      BY <1>5, <2>1, <3>1
    <3> QED
      BY <3>2 DEF Orders
  <2> QED
    BY <1>4, <2>1 DEF Injection, IsInjective
<1>7. IsFiniteSet(1..n) /\ Cardinality(1..n) = n
  <2>1. IsFiniteSet(1..n) /\ Cardinality(1..n) = IF 1 > n THEN 0 ELSE n - 1 + 1
    BY <1>1, FS_Interval
  <2> HIDE DEF n
  <2> QED
    BY <1>1, <2>1
<1>8. rank \in Surjection(X, 1..n)
  BY <1>6, <1>7, FS_Injection
<1>9. \A k \in 1..n : \E x \in X : rank[x] = k
  BY <1>8 DEF Surjection
<1> DEFINE s == [k \in 1..n |-> CHOOSE x \in X : rank[x] = k]
<1> HIDE DEF n
<1>10. s \in [1..n -> X] /\ \A k \in 1..n : s[k] \in X /\ rank[s[k]] = k
  BY <1>9
<1> HIDE DEF s
<1>11. ASSUME NEW i \in 1..n, NEW j \in 1..n, i < j PROVE <<s[i], s[j]>> \in R
  <2>1. s[i] \in X /\ s[j] \in X /\ rank[s[i]] = i /\ rank[s[j]] = j /\ i \in Int /\ j \in Int
    BY <1>1, <1>10
  <2>2. s[i] # s[j] /\ <<s[j], s[i]>> \notin R
    BY <1>5, <1>11, <2>1
  <2> QED
    BY <2>1, <2>2 DEF Orders
<1>12. DOMAIN s = 1..n
  BY <1>10
<1> QED
  BY <1>10, <1>11, <1>12 DEF n

\* InOrder lists the whole of a finite set that R orders.
LEMMA InOrderIs ==
  ASSUME NEW X, IsFiniteSet(X), NEW R, Orders(R, X)
  PROVE /\ L!InOrder(X, R) \in [1..Cardinality(X) -> X] /\ Cardinality(X) \in Nat
        /\ \A i, j \in 1..Cardinality(X) : i < j => <<L!InOrder(X, R)[i], L!InOrder(X, R)[j]>> \in R
        /\ \A x \in X : \E i \in 1..Cardinality(X) : L!InOrder(X, R)[i] = x
<1> DEFINE n == Cardinality(X)
           s == L!InOrder(X, R)
<1>1. n \in Nat
  BY FS_CardinalityType
<1>2. L!Cardinality(X) = n
  BY DEF L!Cardinality, Cardinality
<1>3. s = CHOOSE t \in [1..n -> X] : \A i, j \in DOMAIN t : i < j => <<t[i], t[j]>> \in R
  BY <1>2 DEF L!InOrder
<1>4. s \in [1..n -> X] /\ \A i, j \in DOMAIN s : i < j => <<s[i], s[j]>> \in R
  <2>1. \E t \in [1..n -> X] : \A i, j \in DOMAIN t : i < j => <<t[i], t[j]>> \in R
    BY InOrderExists
  <2> HIDE DEF s, n
  <2> QED
    BY <1>3, <2>1
<1> HIDE DEF s
<1>5. DOMAIN s = 1..n
  BY <1>4
<1>6. IsFiniteSet(1..n) /\ Cardinality(1..n) = n
  <2>1. IsFiniteSet(1..n) /\ Cardinality(1..n) = IF 1 > n THEN 0 ELSE n - 1 + 1
    BY <1>1, FS_Interval
  <2> HIDE DEF n
  <2> QED
    BY <1>1, <2>1
<1>7. s \in Injection(1..n, X)
  <2> HIDE DEF n
  <2>1. ASSUME NEW i \in 1..n, NEW j \in 1..n, s[i] = s[j] PROVE i = j
    <3>1. s[i] \in X /\ <<s[i], s[i]>> \notin R
      BY <1>4 DEF Orders
    <3>2. ~(i < j) /\ ~(j < i)
      BY <1>4, <1>5, <2>1, <3>1
    <3> QED
      BY <1>1, <3>2
  <2> QED
    BY <1>4, <2>1 DEF Injection, IsInjective
<1>8. s \in Surjection(1..n, X)
  BY <1>6, <1>7, FS_Injection
<1>9. \A x \in X : \E i \in 1..n : s[i] = x
  BY <1>8 DEF Surjection
<1> QED
  BY <1>1, <1>4, <1>5, <1>9 DEF s
\* Two sequences, one after the other.
LEMMA Joined ==
  ASSUME NEW V, NEW s \in Seq(V), NEW t \in Seq(V)
  PROVE /\ s \o t \in Seq(V) /\ Len(s \o t) = Len(s) + Len(t) /\ Len(s) \in Nat /\ Len(t) \in Nat
        /\ \A i \in 1..Len(s) : i \in 1..Len(s) + Len(t) /\ (s \o t)[i] = s[i]
        /\ \A i \in 1..Len(t) : Len(s) + i \in 1..Len(s) + Len(t) /\ (s \o t)[Len(s) + i] = t[i]
        /\ \A i \in 1..Len(s) + Len(t) : i \in 1..Len(s) \/ \E j \in 1..Len(t) : i = Len(s) + j
<1>1. Len(s) \in Nat /\ Len(t) \in Nat
  OBVIOUS
<1>2. /\ s \o t \in Seq(V) /\ Len(s \o t) = Len(s) + Len(t)
      /\ \A i \in 1..Len(s) + Len(t) : (s \o t)[i] = IF i <= Len(s) THEN s[i] ELSE t[i - Len(s)]
  BY ConcatProperties
<1>3. ASSUME NEW i \in 1..Len(s) PROVE i \in 1..Len(s) + Len(t) /\ (s \o t)[i] = s[i]
  <2>1. i \in 1..Len(s) + Len(t) /\ i <= Len(s)
    BY <1>1
  <2> QED
    BY <1>2, <2>1
<1>4. ASSUME NEW i \in 1..Len(t) PROVE Len(s) + i \in 1..Len(s) + Len(t) /\ (s \o t)[Len(s) + i] = t[i]
  <2>1. Len(s) + i \in 1..Len(s) + Len(t) /\ ~(Len(s) + i <= Len(s)) /\ (Len(s) + i) - Len(s) = i
    BY <1>1
  <2> QED
    BY <1>2, <2>1
<1>5. ASSUME NEW i \in 1..Len(s) + Len(t), ~(i \in 1..Len(s)) PROVE \E j \in 1..Len(t) : i = Len(s) + j
  <2>1. i - Len(s) \in 1..Len(t) /\ i = Len(s) + (i - Len(s))
    BY <1>1, <1>5
  <2> QED
    BY <2>1
<1> QED
  BY <1>1, <1>2, <1>3, <1>4, <1>5

Half(q) == IF q.p = "field" THEN 0 ELSE IF q.p = "opened" THEN 1 ELSE 2

\* The order of a view: the opened half before the rest, and within a half compareKeys.
Follows(q, o, dir) == Half(q) > Half(o) \/ (Half(q) = Half(o) /\ L!Beyond(q, o, dir))

\* The place q was passed by a reader that stands at o.
UpTo(q, o, dir) == o # None /\ ~Follows(q, o, dir)

Ordered(s, dir) == \A i, j \in DOMAIN s : i < j => Follows(s[j], s[i], dir)

LEMMA PlaceIs == ASSUME NEW q \in L!Places
                 PROVE q.v \in Nat /\ q.id \in ListDocs /\ q.id \in Nat /\ q.p \in {"field", "opened", "rest"} /\ q # None
  BY ListAssumption DEF L!Places

LEMMA PlaceEqual == ASSUME NEW q \in L!Places, NEW o \in L!Places, q.v = o.v, q.id = o.id, q.p = o.p PROVE q = o
<1>1. q = [v |-> q.v, id |-> q.id, p |-> q.p] /\ o = [v |-> o.v, id |-> o.id, p |-> o.p]
  BY DEF L!Places
<1> QED
  BY <1>1

\* A view's order is one.
LEMMA FollowsOrders ==
  ASSUME NEW dir \in {1, -1}
  PROVE /\ \A q \in L!Places : ~Follows(q, q, dir)
        /\ \A q, o, z \in L!Places : Follows(q, o, dir) /\ Follows(o, z, dir) => Follows(q, z, dir)
        /\ \A q, o \in L!Places : q = o \/ Follows(q, o, dir) \/ Follows(o, q, dir)
<1> SUFFICES ASSUME NEW q \in L!Places, NEW o \in L!Places, NEW z \in L!Places
             PROVE /\ ~Follows(q, q, dir)
                   /\ Follows(q, o, dir) /\ Follows(o, z, dir) => Follows(q, z, dir)
                   /\ q = o \/ Follows(q, o, dir) \/ Follows(o, q, dir)
  OBVIOUS
<1>1. \A y \in {q, o, z} : /\ y.v \in Nat /\ y.id \in Nat /\ Half(y) \in {0, 1, 2}
  BY PlaceIs DEF Half
<1>2. ASSUME NEW y1 \in {q, o, z}, NEW y2 \in {q, o, z}
      PROVE Follows(y1, y2, dir) <=> \/ Half(y1) > Half(y2)
                                     \/ /\ Half(y1) = Half(y2)
                                        /\ IF dir = 1 THEN y1.v > y2.v \/ (y1.v = y2.v /\ y1.id > y2.id)
                                                      ELSE y1.v < y2.v \/ (y1.v = y2.v /\ y1.id < y2.id)
  <2>1. y1.v \in Int /\ y2.v \in Int /\ y1.id \in Int /\ y2.id \in Int
    BY <1>1
  <2>2. CASE dir = 1
    <3>1. L!Beyond(y1, y2, dir) <=> y1.v > y2.v \/ (y1.v = y2.v /\ y1.id > y2.id)
      BY <2>1, <2>2 DEF L!Beyond
    <3> QED
      BY <2>2, <3>1 DEF Follows
  <2>3. CASE dir = -1
    <3>1. L!Beyond(y1, y2, dir) <=> y1.v < y2.v \/ (y1.v = y2.v /\ y1.id < y2.id)
      BY <2>1, <2>3 DEF L!Beyond
    <3>2. dir # 1
      BY <2>3
    <3> QED
      BY <3>1, <3>2 DEF Follows
  <2> QED
    BY <2>2, <2>3
<1>3. ~Follows(q, q, dir)
  BY <1>1, <1>2
<1>4. Follows(q, o, dir) /\ Follows(o, z, dir) => Follows(q, z, dir)
  BY <1>1, <1>2
<1>5. q = o \/ Follows(q, o, dir) \/ Follows(o, q, dir)
  <2>1. Half(q) = Half(o) /\ q.v = o.v /\ q.id = o.id => q = o
    BY PlaceIs, PlaceEqual DEF Half
  <2> QED
    BY <1>1, <1>2, <2>1
<1> QED
  BY <1>3, <1>4, <1>5

\* What is used of it: what is passed stays passed, and what follows a place that was not.
LEMMA UpToSteps ==
  ASSUME NEW dir \in {1, -1}, NEW q \in L!Places, NEW o \in L!Places
  PROVE /\ UpTo(q, o, dir) <=> q = o \/ Follows(o, q, dir)
        /\ Follows(q, o, dir) <=> q # o /\ ~Follows(o, q, dir)
        /\ \A z \in L!Places \cup {None} : UpTo(q, o, dir) /\ UpTo(o, z, dir) => UpTo(q, z, dir)
        /\ \A z \in L!Places \cup {None} : UpTo(q, z, dir) /\ ~UpTo(o, z, dir) => Follows(o, q, dir)
        /\ UpTo(q, q, dir)
<1>1. \A q1, q2 \in L!Places : /\ ~Follows(q1, q1, dir)
                               /\ q1 = q2 \/ Follows(q1, q2, dir) \/ Follows(q2, q1, dir)
                               /\ ~(Follows(q1, q2, dir) /\ Follows(q2, q1, dir))
                               /\ UpTo(q1, q2, dir) <=> ~Follows(q1, q2, dir)
  <2>1. \A q1, q2 \in L!Places : /\ ~Follows(q1, q1, dir)
                                 /\ q1 = q2 \/ Follows(q1, q2, dir) \/ Follows(q2, q1, dir)
                                 /\ ~(Follows(q1, q2, dir) /\ Follows(q2, q1, dir))
    BY FollowsOrders
  <2>2. \A q2 \in L!Places : q2 # None
    BY PlaceIs
  <2> QED
    BY <2>1, <2>2 DEF UpTo
<1>2. \A q1, q2, q3 \in L!Places : Follows(q1, q2, dir) /\ Follows(q2, q3, dir) => Follows(q1, q3, dir)
  BY FollowsOrders
<1>3. UpTo(q, o, dir) <=> q = o \/ Follows(o, q, dir)
  BY <1>1
<1>4. Follows(q, o, dir) <=> q # o /\ ~Follows(o, q, dir)
  BY <1>1
<1>5. ASSUME NEW z \in L!Places \cup {None} PROVE UpTo(q, o, dir) /\ UpTo(o, z, dir) => UpTo(q, z, dir)
  <2>1. UpTo(o, z, dir) => z \in L!Places
    BY DEF UpTo
  <2> QED
    BY <1>1, <1>2, <2>1
<1>6. ASSUME NEW z \in L!Places \cup {None} PROVE UpTo(q, z, dir) /\ ~UpTo(o, z, dir) => Follows(o, q, dir)
  <2>1. UpTo(q, z, dir) => z \in L!Places
    BY DEF UpTo
  <2> QED
    BY <1>1, <1>2, <2>1
<1>7. UpTo(q, q, dir)
  BY <1>1
<1> QED
  BY <1>3, <1>4, <1>5, <1>6, <1>7

\* A part of a sequence up to n.
LEMMA TakeIs ==
  ASSUME NEW V, NEW s \in Seq(V), NEW n \in Nat
  PROVE /\ L!Take(s, n) \in Seq(V)
        /\ Len(L!Take(s, n)) = IF Len(s) < n THEN Len(s) ELSE n
        /\ \A i \in 1..Len(L!Take(s, n)) : i \in 1..Len(s) /\ L!Take(s, n)[i] = s[i]
<1>1. Len(s) \in Nat /\ s \in [1..Len(s) -> V]
  OBVIOUS
<1> DEFINE m == IF Len(s) < n THEN Len(s) ELSE n
<1>2. m \in Nat /\ m <= Len(s) /\ m <= n
  BY <1>1
<1>3. L!Take(s, n) = SubSeq(s, 1, m)
  BY DEF L!Take
<1> HIDE DEF m
<1>4. SubSeq(s, 1, m) \in Seq(V) /\ Len(SubSeq(s, 1, m)) = m /\ \A i \in 1..m : SubSeq(s, 1, m)[i] = s[i]
  BY <1>1, <1>2
<1>5. \A i \in 1..m : i \in 1..Len(s)
  BY <1>1, <1>2
<1> QED
  BY <1>3, <1>4, <1>5 DEF m

\* s holds, in order, places of X after the cursor: all of them, or those up to its n-th.
Queried(s, X, after, dir, n) ==
  /\ s \in Seq(L!Places) /\ Len(s) <= n /\ Ordered(s, dir)
  /\ \A i \in 1..Len(s) : s[i] \in X /\ ~UpTo(s[i], after, dir)
  /\ \A q \in X : ~UpTo(q, after, dir) /\ (Len(s) = n => Cardinality(X) <= n \/ (n > 0 /\ ~Follows(q, s[n], dir)))
                    => \E i \in 1..Len(s) : s[i] = q

LEMMA QueryIs ==
  ASSUME NEW X \in SUBSET L!Places, IsFiniteSet(X), NEW h \in {"field", "opened", "rest"}, \A q \in X : q.p = h,
         NEW after \in L!Places \cup {None}, after # None => after.p = h, NEW dir \in {1, -1}, NEW n \in Nat
  PROVE Queried(L!Query(X, after, dir, n), X, after, dir, n)
<1> DEFINE found == {q \in X : L!KeysetAfter(q, after, dir)}
           R == {e \in found \X found : L!Beyond(e[2], e[1], dir)}
           t == L!InOrder(found, R)
           k == Cardinality(found)
<1>1. \A q, o \in X : Follows(q, o, dir) <=> L!Beyond(q, o, dir)
  <2>1. \A q, o \in X : Half(q) = Half(o) /\ Half(q) \in Int
    BY DEF Half
  <2> QED
    BY <2>1 DEF Follows
<1>2. \A q \in X : L!KeysetAfter(q, after, dir) <=> ~UpTo(q, after, dir)
  <2> SUFFICES ASSUME NEW q \in X PROVE L!KeysetAfter(q, after, dir) <=> ~UpTo(q, after, dir)
    OBVIOUS
  <2>1. after # None => Half(q) = Half(after) /\ Half(q) \in Int
    BY DEF Half
  <2> QED
    BY <2>1 DEF L!KeysetAfter, UpTo, Follows
<1>3. found \in SUBSET X /\ IsFiniteSet(found) /\ Cardinality(X) \in Nat /\ k \in Nat /\ k <= Cardinality(X)
  BY FS_Subset, FS_CardinalityType
<1>4. \A q, o \in found : <<q, o>> \in R <=> Follows(o, q, dir)
  BY <1>1, <1>3
<1>5. L!Query(X, after, dir, n) = L!Take(t, n)
  BY DEF L!Query
<1>6. \A q \in found : q \in L!Places
  OBVIOUS
<1>7. \A q \in found : q \in X /\ ~UpTo(q, after, dir)
  BY <1>2
<1>8. \A q \in X : ~UpTo(q, after, dir) => q \in found
  BY <1>2
<1> HIDE DEF found, R
<1>9. Orders(R, found)
  <2>1. \A q \in found : <<q, q>> \notin R
    BY <1>4, <1>6, FollowsOrders
  <2>2. \A q, o, z \in found : <<q, o>> \in R /\ <<o, z>> \in R => <<q, z>> \in R
    BY <1>4, <1>6, FollowsOrders
  <2>3. \A q, o \in found : q = o \/ <<q, o>> \in R \/ <<o, q>> \in R
    BY <1>4, <1>6, FollowsOrders
  <2> QED
    BY <2>1, <2>2, <2>3 DEF Orders
<1>10. /\ t \in [1..k -> found]
       /\ \A i, j \in 1..k : i < j => <<t[i], t[j]>> \in R
       /\ \A q \in found : \E i \in 1..k : t[i] = q
  BY <1>3, <1>9, InOrderIs
<1> HIDE DEF t, k
<1>11. t \in Seq(L!Places) /\ Len(t) = k
  BY <1>3, <1>6, <1>10, IsASeq
<1> DEFINE s == L!Query(X, after, dir, n)
<1>12. /\ s \in Seq(L!Places) /\ Len(s) = (IF k < n THEN k ELSE n)
       /\ \A i \in 1..Len(s) : i \in 1..k /\ s[i] = t[i]
  BY <1>5, <1>11, TakeIs
<1> HIDE DEF s
<1>13. Ordered(s, dir)
  <2>1. DOMAIN s = 1..Len(s)
    BY <1>12
  <2>2. ASSUME NEW i \in 1..Len(s), NEW j \in 1..Len(s), i < j PROVE Follows(s[j], s[i], dir)
    <3>1. <<t[i], t[j]>> \in R /\ t[i] \in found /\ t[j] \in found /\ s[i] = t[i] /\ s[j] = t[j]
      BY <1>10, <1>12, <2>2
    <3> QED
      BY <1>4, <3>1
  <2> QED
    BY <2>1, <2>2 DEF Ordered
<1>14. \A i \in 1..Len(s) : s[i] \in X /\ ~UpTo(s[i], after, dir)
  BY <1>7, <1>10, <1>12
<1>15. ASSUME NEW q \in X, ~UpTo(q, after, dir),
              Len(s) = n => Cardinality(X) <= n \/ (n > 0 /\ ~Follows(q, s[n], dir))
       PROVE \E i \in 1..Len(s) : s[i] = q
  <2>1. PICK i \in 1..k : t[i] = q
    BY <1>8, <1>10, <1>15
  <2>2. i <= Len(s)
    <3>1. CASE Len(s) # n
      BY <1>3, <1>12, <3>1
    <3>2. CASE Cardinality(X) <= n
      BY <1>3, <1>12, <3>2
    <3>3. CASE Len(s) = n /\ n > 0 /\ ~Follows(q, s[n], dir)
      <4>1. n \in 1..Len(s) /\ n \in 1..k /\ s[n] = t[n]
        BY <1>3, <1>12, <3>3
      <4>2. ~(n < i)
        <5>1. n < i => <<t[n], t[i]>> \in R
          BY <1>10, <4>1
        <5>2. t[n] \in found /\ t[i] \in found
          BY <1>10, <4>1
        <5> QED
          BY <1>4, <2>1, <3>3, <4>1, <5>1, <5>2
      <4> QED
        BY <1>3, <3>3, <4>2
    <3> QED
      BY <1>15, <3>1, <3>2, <3>3
  <2>3. i \in 1..Len(s)
    BY <1>3, <1>12, <2>2
  <2> QED
    BY <1>12, <2>1, <2>3
<1>16. Len(s) <= n
  BY <1>3, <1>12
<1> QED
  BY <1>12, <1>13, <1>14, <1>15, <1>16 DEF s, Queried

\* Only keeps the places of the documents in D, in their order.
LEMMA OnlyIs ==
  ASSUME NEW s \in Seq(L!Places), NEW D
  PROVE LET t == L!Only(s, D) IN
        /\ t \in Seq(L!Places)
        /\ \A i \in 1..Len(t) : t[i].id \in D /\ \E j \in 1..Len(s) : s[j] = t[i]
        /\ \A j \in 1..Len(s) : s[j].id \in D => \E i \in 1..Len(t) : t[i] = s[j]
        /\ \A dir \in {1, -1} : Ordered(s, dir) => Ordered(t, dir)
<1> DEFINE kept == {i \in DOMAIN s : s[i].id \in D}
           R == {e \in kept \X kept : e[1] < e[2]}
           at == L!InOrder(kept, R)
           k == Cardinality(kept)
<1>1. Len(s) \in Nat /\ DOMAIN s = 1..Len(s) /\ \A j \in 1..Len(s) : s[j] \in L!Places
  OBVIOUS
<1>2. L!Only(s, D) = [i \in DOMAIN at |-> s[at[i]]]
  BY DEF L!Only
<1>3. /\ kept \in SUBSET (1..Len(s)) /\ \A j \in kept : s[j].id \in D
      /\ \A j \in 1..Len(s) : s[j].id \in D => j \in kept
  BY <1>1
<1>4. IsFiniteSet(kept)
  <2>1. IsFiniteSet(1..Len(s))
    BY <1>1, FS_Interval
  <2> QED
    BY <1>3, <2>1, FS_Subset
<1>5. k \in Nat
  BY <1>4, FS_CardinalityType
<1>6. \A i, j \in kept : <<i, j>> \in R <=> i < j
  OBVIOUS
<1> HIDE DEF kept, R
<1>7. \A j \in kept : j \in Int
  BY <1>1, <1>3
<1>8. Orders(R, kept)
  <2>1. \A i \in kept : <<i, i>> \notin R
    BY <1>6, <1>7
  <2>2. \A i, j, m \in kept : <<i, j>> \in R /\ <<j, m>> \in R => <<i, m>> \in R
    BY <1>6, <1>7
  <2>3. \A i, j \in kept : i = j \/ <<i, j>> \in R \/ <<j, i>> \in R
    <3>1. ASSUME NEW i \in kept, NEW j \in kept PROVE i = j \/ i < j \/ j < i
      BY <1>7
    <3> QED
      BY <1>6, <3>1, Zenon
  <2> QED
    BY <2>1, <2>2, <2>3 DEF Orders
<1>9. /\ at \in [1..k -> kept]
      /\ \A i, j \in 1..k : i < j => <<at[i], at[j]>> \in R
      /\ \A j \in kept : \E i \in 1..k : at[i] = j
  BY <1>4, <1>8, InOrderIs
<1> HIDE DEF at, k
<1> DEFINE t == L!Only(s, D)
<1>10. DOMAIN at = 1..k
  BY <1>9
<1>11. t = [i \in 1..k |-> s[at[i]]]
  BY <1>2, <1>10
<1>12. t \in [1..k -> L!Places] /\ \A i \in 1..k : t[i] = s[at[i]] /\ at[i] \in kept /\ at[i] \in 1..Len(s)
  <2>1. \A i \in 1..k : at[i] \in kept /\ at[i] \in 1..Len(s)
    BY <1>3, <1>9
  <2> HIDE DEF t
  <2> QED
    BY <1>1, <1>11, <2>1
<1> HIDE DEF t
<1>13. t \in Seq(L!Places) /\ Len(t) = k
  BY <1>5, <1>12, IsASeq
<1>14. \A i \in 1..Len(t) : t[i].id \in D /\ \E j \in 1..Len(s) : s[j] = t[i]
  BY <1>3, <1>12, <1>13
<1>15. \A j \in 1..Len(s) : s[j].id \in D => \E i \in 1..Len(t) : t[i] = s[j]
  BY <1>3, <1>9, <1>12, <1>13
<1>16. ASSUME NEW dir \in {1, -1}, Ordered(s, dir) PROVE Ordered(t, dir)
  <2>1. DOMAIN t = 1..k
    BY <1>12
  <2>2. ASSUME NEW i \in 1..k, NEW j \in 1..k, i < j PROVE Follows(t[j], t[i], dir)
    <3>1. at[i] \in kept /\ at[j] \in kept /\ <<at[i], at[j]>> \in R
      BY <1>9, <2>2
    <3>2. at[i] \in DOMAIN s /\ at[j] \in DOMAIN s /\ at[i] < at[j]
      BY <1>1, <1>3, <1>6, <3>1
    <3>3. Follows(s[at[j]], s[at[i]], dir)
      BY <1>16, <3>2 DEF Ordered
    <3> QED
      BY <1>12, <3>3
  <2> QED
    BY <2>1, <2>2 DEF Ordered
<1> QED
  BY <1>13, <1>14, <1>15, <1>16 DEF t

-----------------------------------------------------------------------------
\* The invariant, of the documents r and the reading w.

Halves(sort) == CASE sort \in {"field", "memoryField"} -> {"field"}
                  [] sort = "memoryOpened" -> {"opened"}
                  [] OTHER -> {"opened", "rest"}

\* Where the document d belongs.
Spot(r, sort, d) ==
  CASE sort \in {"field", "memoryField"} -> [v |-> r[d].key, id |-> d, p |-> "field"]
    [] sort = "memoryOpened" \/ (sort = "lastOpened" /\ r[d].opened > 0) -> [v |-> r[d].opened, id |-> d, p |-> "opened"]
    [] OTHER -> [v |-> r[d].key, id |-> d, p |-> "rest"]

\* Places found beyond the cursor, in order; those of documents that did not change are right.
Sound(s, r, w) ==
  /\ s \in Seq(L!Places) /\ Ordered(s, w.dir)
  /\ \A i \in 1..Len(s) : /\ s[i].p \in Halves(w.sort) /\ ~UpTo(s[i], w.cursor, w.dir)
                          /\ s[i].id \notin w.changed => s[i] = Spot(r, w.sort, s[i].id) /\ r[s[i].id].in

RowRecords == [in : BOOLEAN, key : SortKeys, opened : SortKeys \cup {0}]
WalkRecords == [sort : L!Sorts, dir : {1, -1}, at : {"page", "times", "states", "docs", "rest", "opened", "done"},
                cursor : L!Places \cup {None}, after : L!Places \cup {None}, batch : Seq(L!Places),
                out : Seq(L!Places), loaded : SUBSET Readable, listed : Seq(Readable),
                changed : SUBSET ListDocs, changes : Nat]

ListTypes(r, w) ==
  /\ r \in [ListDocs -> RowRecords] /\ w \in WalkRecords
  /\ w.sort = "lastOpened" => w.dir = -1
  /\ w.at = "times" => w.sort = "memoryOpened"
  /\ w.at \in {"states", "docs", "rest", "opened"} => w.sort = "lastOpened"
  /\ w.cursor # None => w.cursor.p \in Halves(w.sort)
  /\ w.after # None => w.after.p = IF w.at \in {"states", "docs"} THEN "opened" ELSE "rest"
  /\ w.at = "page" => w.out = <<>>

\* Documents that did not change are listed in order, up to the cursor.
ListedOK(r, w) ==
  /\ \A i, j \in 1..Len(w.listed) :
       i < j /\ w.listed[i] \notin w.changed /\ w.listed[j] \notin w.changed
         => Follows(Spot(r, w.sort, w.listed[j]), Spot(r, w.sort, w.listed[i]), w.dir)
  /\ w.at # "done" => \A i \in 1..Len(w.listed) :
       w.listed[i] \notin w.changed => UpTo(Spot(r, w.sort, w.listed[i]), w.cursor, w.dir)
  /\ \A d \in Readable \ w.changed :
       r[d].in /\ (w.at = "done" \/ UpTo(Spot(r, w.sort, d), w.cursor, w.dir))
         => \E i \in 1..Len(w.listed) : w.listed[i] = d

\* The queries of lastOpenedPage that are done have seen the place q.
Reached(q, w) == (w.at \in {"rest", "opened"} /\ q.p # "rest") \/ UpTo(q, w.after, w.dir)

\* The page so far.
OutOK(r, w) ==
  w.at \in {"states", "docs", "rest", "opened"} =>
    /\ w.cursor # None => Reached(w.cursor, w)
    /\ Sound(w.out, r, w) /\ Len(w.out) <= PageRows
    /\ \A i \in 1..Len(w.out) : Reached(w.out[i], w)
    /\ \A d \in Readable \ w.changed :
         r[d].in /\ Reached(Spot(r, w.sort, d), w) /\ ~UpTo(Spot(r, w.sort, d), w.cursor, w.dir)
           => \E i \in 1..Len(w.out) : w.out[i] = Spot(r, w.sort, d)

\* What the last query read: the documents that did not change are in it up to its end, and in their
\* places, as far as the next query will keep them.
BatchHalf(w) == IF w.at = "docs" THEN "opened" ELSE "rest"
KeptNow(r, w) == IF w.at = "docs" THEN {d \in ListDocs : r[d].in} ELSE {d \in ListDocs : r[d].opened = 0}
BatchOK(r, w) ==
  w.at \in {"docs", "opened"} =>
    /\ Ordered(w.batch, w.dir) /\ Len(w.batch) <= BatchRows
    /\ \A i \in 1..Len(w.batch) :
         /\ w.batch[i].p = BatchHalf(w) /\ ~Reached(w.batch[i], w)
         /\ w.batch[i].id \in KeptNow(r, w) \ w.changed
              => w.batch[i] = Spot(r, w.sort, w.batch[i].id) /\ r[w.batch[i].id].in
    /\ \A d \in Readable \ w.changed :
         LET q == Spot(r, w.sort, d) IN
         r[d].in /\ q.p = BatchHalf(w) /\ ~Reached(q, w)
           /\ (Len(w.batch) = BatchRows => ~Follows(q, w.batch[BatchRows], w.dir))
             => \E i \in 1..Len(w.batch) : w.batch[i] = q

\* What a small view loaded.
LoadedOK(r, w) == w.at = "times" => \A d \in ListDocs \ w.changed : d \in w.loaded <=> d \in Readable /\ r[d].in

ListOK(r, w) == ListTypes(r, w) /\ ListedOK(r, w) /\ OutOK(r, w) /\ BatchOK(r, w) /\ LoadedOK(r, w)

LEMMA SpotIs ==
  ASSUME NEW r \in [ListDocs -> RowRecords], NEW sort \in L!Sorts, NEW d \in ListDocs
  PROVE /\ Spot(r, sort, d) \in L!Places /\ Spot(r, sort, d).id = d /\ Spot(r, sort, d).p \in Halves(sort)
        /\ sort = "lastOpened" => (Spot(r, sort, d).p = "opened" <=> r[d].opened > 0)
        /\ sort \in {"field", "memoryField"} => Spot(r, sort, d) = [v |-> r[d].key, id |-> d, p |-> "field"]
        /\ sort = "memoryOpened" => Spot(r, sort, d) = [v |-> r[d].opened, id |-> d, p |-> "opened"]
        /\ sort = "lastOpened" /\ r[d].opened > 0 => Spot(r, sort, d) = [v |-> r[d].opened, id |-> d, p |-> "opened"]
        /\ sort = "lastOpened" /\ ~(r[d].opened > 0) => Spot(r, sort, d) = [v |-> r[d].key, id |-> d, p |-> "rest"]
        /\ r[d].opened > 0 <=> r[d].opened # 0
<1>1. r[d].key \in Nat /\ r[d].opened \in Nat
  <2>1. r[d] \in RowRecords
    OBVIOUS
  <2>2. r[d].key \in SortKeys /\ r[d].opened \in SortKeys \cup {0}
    BY <2>1 DEF RowRecords
  <2>3. SortKeys \subseteq Nat /\ 0 \in Nat
    BY ListAssumption
  <2> QED
    BY <2>2, <2>3, Zenon
<1>2. CASE sort \in {"field", "memoryField"}
  BY <1>1, <1>2 DEF Spot, Halves, L!Places
<1>3. CASE sort = "memoryOpened"
  BY <1>1, <1>3 DEF Spot, Halves, L!Places
<1>4. CASE sort = "lastOpened" /\ r[d].opened > 0
  BY <1>1, <1>4 DEF Spot, Halves, L!Places
<1>5. CASE sort = "lastOpened" /\ ~(r[d].opened > 0)
  BY <1>1, <1>5 DEF Spot, Halves, L!Places
<1> QED
  BY <1>2, <1>3, <1>4, <1>5 DEF L!Sorts

\* A reading that goes on elsewhere.
Onward(w, at, cursor, after, batch, out, loaded, listed) ==
  [w EXCEPT !.at = at, !.cursor = cursor, !.listed = listed, !.out = out, !.batch = batch, !.loaded = loaded,
            !.after = after]

LEMMA OnwardIs ==
  ASSUME NEW w \in WalkRecords, NEW at, NEW cursor, NEW after, NEW batch, NEW out, NEW loaded, NEW listed
  PROVE LET w2 == Onward(w, at, cursor, after, batch, out, loaded, listed) IN
        /\ w2.at = at /\ w2.cursor = cursor /\ w2.after = after /\ w2.batch = batch /\ w2.out = out
        /\ w2.loaded = loaded /\ w2.listed = listed
        /\ w2.sort = w.sort /\ w2.dir = w.dir /\ w2.changed = w.changed /\ w2.changes = w.changes
        /\ (/\ at \in {"page", "times", "states", "docs", "rest", "opened", "done"}
            /\ cursor \in L!Places \cup {None} /\ after \in L!Places \cup {None}
            /\ batch \in Seq(L!Places) /\ out \in Seq(L!Places) /\ loaded \in SUBSET Readable
            /\ listed \in Seq(Readable)) => w2 \in WalkRecords
<1>1. w = [sort |-> w.sort, dir |-> w.dir, at |-> w.at, cursor |-> w.cursor, after |-> w.after, batch |-> w.batch, out |-> w.out,
          loaded |-> w.loaded, listed |-> w.listed, changed |-> w.changed, changes |-> w.changes]
  BY DEF WalkRecords
<1> DEFINE y1 == [w EXCEPT !.at = at]
<1>2. y1 = [sort |-> w.sort, dir |-> w.dir, at |-> at, cursor |-> w.cursor, after |-> w.after, batch |-> w.batch, out |-> w.out,
           loaded |-> w.loaded, listed |-> w.listed, changed |-> w.changed, changes |-> w.changes]
  BY <1>1
<1> HIDE DEF y1
<1> DEFINE y2 == [y1 EXCEPT !.cursor = cursor]
<1>3. y2 = [sort |-> w.sort, dir |-> w.dir, at |-> at, cursor |-> cursor, after |-> w.after, batch |-> w.batch, out |-> w.out,
           loaded |-> w.loaded, listed |-> w.listed, changed |-> w.changed, changes |-> w.changes]
  BY <1>2
<1> HIDE DEF y2
<1> DEFINE y3 == [y2 EXCEPT !.listed = listed]
<1>4. y3 = [sort |-> w.sort, dir |-> w.dir, at |-> at, cursor |-> cursor, after |-> w.after, batch |-> w.batch, out |-> w.out,
           loaded |-> w.loaded, listed |-> listed, changed |-> w.changed, changes |-> w.changes]
  BY <1>3
<1> HIDE DEF y3
<1> DEFINE y4 == [y3 EXCEPT !.out = out]
<1>5. y4 = [sort |-> w.sort, dir |-> w.dir, at |-> at, cursor |-> cursor, after |-> w.after, batch |-> w.batch, out |-> out,
           loaded |-> w.loaded, listed |-> listed, changed |-> w.changed, changes |-> w.changes]
  BY <1>4
<1> HIDE DEF y4
<1> DEFINE y5 == [y4 EXCEPT !.batch = batch]
<1>6. y5 = [sort |-> w.sort, dir |-> w.dir, at |-> at, cursor |-> cursor, after |-> w.after, batch |-> batch, out |-> out,
           loaded |-> w.loaded, listed |-> listed, changed |-> w.changed, changes |-> w.changes]
  BY <1>5
<1> HIDE DEF y5
<1> DEFINE y6 == [y5 EXCEPT !.loaded = loaded]
<1>7. y6 = [sort |-> w.sort, dir |-> w.dir, at |-> at, cursor |-> cursor, after |-> w.after, batch |-> batch, out |-> out,
           loaded |-> loaded, listed |-> listed, changed |-> w.changed, changes |-> w.changes]
  BY <1>6
<1> HIDE DEF y6
<1> DEFINE y7 == [y6 EXCEPT !.after = after]
<1>8. y7 = [sort |-> w.sort, dir |-> w.dir, at |-> at, cursor |-> cursor, after |-> after, batch |-> batch, out |-> out,
           loaded |-> loaded, listed |-> listed, changed |-> w.changed, changes |-> w.changes]
  BY <1>7
<1> HIDE DEF y7
<1>9. Onward(w, at, cursor, after, batch, out, loaded, listed) = y7
  BY DEF Onward, y1, y2, y3, y4, y5, y6, y7
<1>10. w.sort \in L!Sorts /\ w.dir \in {1, -1} /\ w.changed \in SUBSET ListDocs /\ w.changes \in Nat
  BY DEF WalkRecords
<1> DEFINE z == Onward(w, at, cursor, after, batch, out, loaded, listed)
<1>11. z = y7
  BY <1>9
<1> HIDE DEF z
<1>12. /\ z.at = at /\ z.cursor = cursor /\ z.after = after /\ z.batch = batch /\ z.out = out
       /\ z.loaded = loaded /\ z.listed = listed
       /\ z.sort = w.sort /\ z.dir = w.dir /\ z.changed = w.changed /\ z.changes = w.changes
  BY <1>8, <1>11
<1>13. (/\ at \in {"page", "times", "states", "docs", "rest", "opened", "done"}
        /\ cursor \in L!Places \cup {None} /\ after \in L!Places \cup {None}
        /\ batch \in Seq(L!Places) /\ out \in Seq(L!Places) /\ loaded \in SUBSET Readable
        /\ listed \in Seq(Readable)) => z \in WalkRecords
  BY <1>8, <1>10, <1>11 DEF WalkRecords
<1> QED
  BY <1>12, <1>13 DEF z

\* What enrich does to a reading that found s.
Page(s) == L!Take(s, PageRows)
Goal(s) == IF Len(s) > PageRows THEN s[PageRows] ELSE None
Seen(s) == L!Only(Page(s), Readable)
Ids(s) == [i \in DOMAIN Seen(s) |-> Seen(s)[i].id]
Answered(w, s) ==
  Onward(w, IF Goal(s) = None THEN "done" ELSE "page", Goal(s), None, <<>>, <<>>, {}, w.listed \o Ids(s))

\* A document that did not change is among the places found, unless it belongs after the page.
Complete(s, r, w) ==
  \A d \in Readable \ w.changed :
    r[d].in /\ ~UpTo(Spot(r, w.sort, d), w.cursor, w.dir)
      /\ (Len(s) > PageRows => ~Follows(Spot(r, w.sort, d), s[PageRows], w.dir))
        => \E i \in 1..Len(s) : s[i] = Spot(r, w.sort, d)

LEMMA PageIs ==
  ASSUME NEW s \in Seq(L!Places)
  PROVE /\ Page(s) \in Seq(L!Places)
        /\ Len(Page(s)) = IF Len(s) < PageRows THEN Len(s) ELSE PageRows
        /\ \A i \in 1..Len(Page(s)) : i \in 1..Len(s) /\ Page(s)[i] = s[i]
        /\ \A i \in 1..Len(s) : i <= PageRows => i \in 1..Len(Page(s))
        /\ \A dir \in {1, -1} : Ordered(s, dir) => Ordered(Page(s), dir)
<1>1. PageRows \in Nat
  BY ListAssumption
<1>2. /\ Page(s) \in Seq(L!Places)
      /\ Len(Page(s)) = IF Len(s) < PageRows THEN Len(s) ELSE PageRows
      /\ \A i \in 1..Len(Page(s)) : i \in 1..Len(s) /\ Page(s)[i] = s[i]
  BY <1>1, TakeIs DEF Page
<1>3. \A i \in 1..Len(s) : i <= PageRows => i \in 1..Len(Page(s))
  BY <1>1, <1>2
<1>4. ASSUME NEW dir \in {1, -1}, Ordered(s, dir) PROVE Ordered(Page(s), dir)
  <2>1. DOMAIN s = 1..Len(s) /\ DOMAIN Page(s) = 1..Len(Page(s))
    BY <1>2
  <2> QED
    BY <1>2, <1>4, <2>1 DEF Ordered
<1> QED
  BY <1>2, <1>3, <1>4

LEMMA AnswerIs == ASSUME NEW s \in Seq(L!Places), L!Answer(s) PROVE walk' = Answered(walk, s)
<1>1. L!Accessible(ListDocs) = Readable
  BY ListAssumption DEF L!Accessible
<1>2. Len(s) > PageRows => Page(s)[Len(Page(s))] = s[PageRows]
  <2>1. PageRows \in Nat \ {0} /\ Len(s) \in Nat
    BY ListAssumption
  <2> SUFFICES ASSUME Len(s) > PageRows PROVE Page(s)[Len(Page(s))] = s[PageRows]
    OBVIOUS
  <2>2. Len(Page(s)) = PageRows /\ PageRows \in 1..Len(Page(s))
    BY <2>1, PageIs
  <2> QED
    BY <2>2, PageIs
<1>3. L!Take(s, PageRows) = Page(s)
  BY DEF Page
<1>4. L!Only(Page(s), Readable) = Seen(s)
  BY DEF Seen
<1> QED
  BY <1>1, <1>2, <1>3, <1>4 DEF L!Answer, Answered, Onward, Goal, Ids

LEMMA IdsAre ==
  ASSUME NEW s \in Seq(L!Places), NEW dir \in {1, -1}, Ordered(s, dir)
  PROVE /\ Ids(s) \in Seq(Readable) /\ Len(Ids(s)) = Len(Seen(s)) /\ Len(Seen(s)) \in Nat
        /\ Seen(s) \in Seq(L!Places) /\ Ordered(Seen(s), dir)
        /\ \A i \in 1..Len(Seen(s)) : Ids(s)[i] = Seen(s)[i].id
        /\ \A i \in 1..Len(Seen(s)) : \E j \in 1..Len(s) : j <= PageRows /\ s[j] = Seen(s)[i]
        /\ \A j \in 1..Len(s) : j <= PageRows /\ s[j].id \in Readable => \E i \in 1..Len(Seen(s)) : Seen(s)[i] = s[j]
<1>1. /\ Page(s) \in Seq(L!Places) /\ Ordered(Page(s), dir)
      /\ \A i \in 1..Len(Page(s)) : i \in 1..Len(s) /\ i <= PageRows /\ Page(s)[i] = s[i]
      /\ \A i \in 1..Len(s) : i <= PageRows => i \in 1..Len(Page(s))
  <2>1. \A i \in 1..Len(Page(s)) : i <= PageRows
    <3>1. Len(s) \in Nat /\ PageRows \in Nat /\ Len(Page(s)) = IF Len(s) < PageRows THEN Len(s) ELSE PageRows
      BY PageIs, ListAssumption
    <3> QED
      BY <3>1
  <2> QED
    BY <2>1, PageIs
<1>2. /\ Seen(s) \in Seq(L!Places) /\ Ordered(Seen(s), dir)
      /\ \A i \in 1..Len(Seen(s)) : Seen(s)[i].id \in Readable /\ \E j \in 1..Len(Page(s)) : Page(s)[j] = Seen(s)[i]
      /\ \A j \in 1..Len(Page(s)) : Page(s)[j].id \in Readable => \E i \in 1..Len(Seen(s)) : Seen(s)[i] = Page(s)[j]
  BY <1>1, OnlyIs DEF Seen
<1>3. Len(Seen(s)) \in Nat /\ DOMAIN Seen(s) = 1..Len(Seen(s))
  BY <1>2
<1>4. Ids(s) \in [1..Len(Seen(s)) -> Readable] /\ \A i \in 1..Len(Seen(s)) : Ids(s)[i] = Seen(s)[i].id
  BY <1>2, <1>3 DEF Ids
<1>5. Ids(s) \in Seq(Readable) /\ Len(Ids(s)) = Len(Seen(s))
  BY <1>3, <1>4, IsASeq
<1>6. \A i \in 1..Len(Seen(s)) : \E j \in 1..Len(s) : j <= PageRows /\ s[j] = Seen(s)[i]
  BY <1>1, <1>2
<1>7. \A j \in 1..Len(s) : j <= PageRows /\ s[j].id \in Readable => \E i \in 1..Len(Seen(s)) : Seen(s)[i] = s[j]
  BY <1>1, <1>2
<1> QED
  BY <1>2, <1>3, <1>4, <1>5, <1>6, <1>7

LEMMA AnsweredIs ==
  ASSUME NEW w \in WalkRecords, NEW s
  PROVE LET w2 == Answered(w, s) IN
        /\ w2.at = (IF Goal(s) = None THEN "done" ELSE "page") /\ w2.cursor = Goal(s)
        /\ w2.listed = w.listed \o Ids(s)
        /\ w2.sort = w.sort /\ w2.dir = w.dir /\ w2.changed = w.changed /\ w2.changes = w.changes
        /\ w2.out = <<>> /\ w2.batch = <<>> /\ w2.loaded = {} /\ w2.after = None
        /\ Goal(s) \in L!Places \cup {None} /\ w.listed \o Ids(s) \in Seq(Readable) => w2 \in WalkRecords
<1>1. PICK e, g, li, st : e = <<>> /\ g = Goal(s) /\ li = w.listed \o Ids(s) /\ st = IF g = None THEN "done" ELSE "page"
  OBVIOUS
<1> DEFINE w2 == Onward(w, st, g, None, e, e, {}, li)
<1>2. e \in Seq(L!Places) /\ {} \in SUBSET Readable /\ st \in {"page", "times", "states", "docs", "rest", "opened", "done"}
  BY <1>1
<1>3. Answered(w, s) = w2
  BY <1>1 DEF Answered
<1>4. /\ w2.at = st /\ w2.cursor = g /\ w2.after = None /\ w2.batch = e /\ w2.out = e
      /\ w2.loaded = {} /\ w2.listed = li
      /\ w2.sort = w.sort /\ w2.dir = w.dir /\ w2.changed = w.changed /\ w2.changes = w.changes
  BY OnwardIs
<1>5. g \in L!Places \cup {None} /\ li \in Seq(Readable) => w2 \in WalkRecords
  <2>1. None \in L!Places \cup {None}
    OBVIOUS
  <2> QED
    BY <1>2, <2>1, OnwardIs, Zenon
<1> HIDE DEF w2
<1> QED
  BY <1>1, <1>3, <1>4, <1>5, Zenon

\* An answer lists the documents that did not change once, in order, and to its cursor.
LEMMA AnswerKeeps ==
  ASSUME NEW r, NEW w, ListTypes(r, w), ListedOK(r, w), w.at # "done",
         NEW s, Sound(s, r, w), Complete(s, r, w)
  PROVE ListOK(r, Answered(w, s))
<1>1. /\ w.sort \in L!Sorts /\ w.dir \in {1, -1} /\ w.cursor \in L!Places \cup {None} /\ w.listed \in Seq(Readable)
      /\ w \in WalkRecords /\ r \in [ListDocs -> RowRecords] /\ w.changed \in SUBSET ListDocs /\ w.changes \in Nat
  BY DEF ListTypes, WalkRecords
<1>2. s \in Seq(L!Places) /\ Ordered(s, w.dir)
  BY DEF Sound
<1>3. Len(s) \in Nat /\ PageRows \in Nat \ {0} /\ Readable \subseteq ListDocs /\ DOMAIN s = 1..Len(s)
      /\ \A j \in 1..Len(s) : s[j] \in L!Places
  BY <1>2, ListAssumption
<1> DEFINE w2 == Answered(w, s)
           spot(d) == Spot(r, w.sort, d)
           listed == w.listed
           n == Len(w.listed)
           ids == Ids(s)
           m == Len(Seen(s))
<1>4. /\ w2.at = (IF Goal(s) = None THEN "done" ELSE "page") /\ w2.cursor = Goal(s)
      /\ w2.listed = listed \o ids
      /\ w2.sort = w.sort /\ w2.dir = w.dir /\ w2.changed = w.changed /\ w2.changes = w.changes
      /\ w2.out = <<>> /\ w2.batch = <<>> /\ w2.loaded = {} /\ w2.after = None
  BY <1>1, AnsweredIs
<1>5. /\ ids \in Seq(Readable) /\ Len(ids) = m /\ m \in Nat
      /\ Seen(s) \in Seq(L!Places) /\ Ordered(Seen(s), w.dir)
      /\ \A i \in 1..m : ids[i] = Seen(s)[i].id
      /\ \A i \in 1..m : \E j \in 1..Len(s) : j <= PageRows /\ s[j] = Seen(s)[i]
      /\ \A j \in 1..Len(s) : j <= PageRows /\ s[j].id \in Readable => \E i \in 1..m : Seen(s)[i] = s[j]
  BY <1>1, <1>2, IdsAre
<1>6. /\ listed \o ids \in Seq(Readable) /\ Len(listed \o ids) = n + m /\ n \in Nat
      /\ \A i \in 1..n : (listed \o ids)[i] = listed[i]
      /\ \A i \in 1..m : (listed \o ids)[n + i] = ids[i]
      /\ \A i \in 1..n + m : i \in 1..n \/ \E j \in 1..m : i = n + j
  <2>1. PICK y \in Seq(Readable), z \in Seq(Readable) : y = listed /\ z = ids
    BY <1>1, <1>5
  <2>2. /\ y \o z \in Seq(Readable) /\ Len(y \o z) = Len(y) + Len(z) /\ Len(y) \in Nat
        /\ \A i \in 1..Len(y) : (y \o z)[i] = y[i]
        /\ \A i \in 1..Len(z) : (y \o z)[Len(y) + i] = z[i]
    BY Joined
  <2>3. \A i \in 1..Len(y) + Len(z) : i \in 1..Len(y) \/ \E j \in 1..Len(z) : i = Len(y) + j
    BY Joined
  <2> QED
    BY <1>5, <2>1, <2>2, <2>3
<1>7. \A d \in ListDocs : spot(d) \in L!Places /\ spot(d).id = d /\ spot(d).p \in Halves(w.sort)
  BY <1>1, SpotIs
<1>8. \A i \in 1..Len(s) : /\ s[i].p \in Halves(w.sort) /\ ~UpTo(s[i], w.cursor, w.dir)
                           /\ s[i].id \notin w.changed => s[i] = spot(s[i].id) /\ r[s[i].id].in
  BY DEF Sound
<1>9. \A i \in 1..m : /\ Seen(s)[i] \in L!Places /\ ~UpTo(Seen(s)[i], w.cursor, w.dir) /\ ids[i] \in Readable
                      /\ ids[i] \notin w.changed => spot(ids[i]) = Seen(s)[i]
  <2>1. \A i \in 1..m : ids[i] \in Readable
    BY <1>5
  <2> HIDE DEF spot, ids, m
  <2>2. ASSUME NEW i \in 1..m
        PROVE /\ Seen(s)[i] \in L!Places /\ ~UpTo(Seen(s)[i], w.cursor, w.dir)
              /\ ids[i] \notin w.changed => spot(ids[i]) = Seen(s)[i]
    <3>1. PICK j \in 1..Len(s) : s[j] = Seen(s)[i]
      BY <1>5
    <3>2. ids[i] = s[j].id /\ s[j] \in L!Places
      BY <1>3, <1>5, <3>1
    <3> QED
      BY <1>8, <3>1, <3>2
  <2> QED
    BY <2>1, <2>2
<1>10. \A i \in 1..n : listed[i] \in Readable /\ (listed[i] \notin w.changed => UpTo(spot(listed[i]), w.cursor, w.dir))
  BY <1>1, <1>6 DEF ListedOK
<1>11. \A i, j \in 1..n : i < j /\ listed[i] \notin w.changed /\ listed[j] \notin w.changed
                            => Follows(spot(listed[j]), spot(listed[i]), w.dir)
  BY DEF ListedOK
<1>12. \A d \in Readable \ w.changed : r[d].in /\ UpTo(spot(d), w.cursor, w.dir) => \E i \in 1..n : listed[i] = d
  BY DEF ListedOK
<1>13. \A d \in Readable \ w.changed :
         r[d].in /\ ~UpTo(spot(d), w.cursor, w.dir) /\ (Len(s) > PageRows => ~Follows(spot(d), s[PageRows], w.dir))
           => \E i \in 1..Len(s) : s[i] = spot(d)
  BY DEF Complete
<1>14. Goal(s) # None <=> Len(s) > PageRows
  <2>1. Len(s) > PageRows => s[PageRows] \in L!Places
    BY <1>3
  <2>2. Len(s) > PageRows => s[PageRows] # None
    BY <2>1, PlaceIs
  <2> QED
    BY <2>2 DEF Goal
<1>15. Goal(s) # None => Goal(s) = s[PageRows] /\ PageRows \in 1..Len(s) /\ Goal(s) \in L!Places
  BY <1>3, <1>14 DEF Goal
<1>16. Goal(s) \in L!Places \cup {None}
  BY <1>15
<1>17. w2 \in WalkRecords
  BY <1>1, <1>6, <1>16, AnsweredIs
<1> HIDE DEF w2, spot, ids, m, listed, n
<1>18. ListTypes(r, w2)
  <2>1. w2.cursor # None => w2.cursor.p \in Halves(w2.sort)
    BY <1>4, <1>8, <1>15
  <2>2. w2.sort = "lastOpened" => w2.dir = -1
    BY <1>4 DEF ListTypes
  <2> QED
    BY <1>1, <1>4, <1>17, <2>1, <2>2 DEF ListTypes
<1>19. \A i \in 1..n + m : i \in 1..n \/ \E j \in 1..m : i = n + j
  BY <1>6
<1>20. ASSUME NEW i \in 1..n + m, NEW j \in 1..n + m, i < j, w2.listed[i] \notin w.changed, w2.listed[j] \notin w.changed
       PROVE Follows(spot(w2.listed[j]), spot(w2.listed[i]), w.dir)
  <2>1. CASE i \in 1..n /\ j \in 1..n
    BY <1>4, <1>6, <1>11, <1>20, <2>1
  <2>2. ASSUME NEW k \in 1..m, i \in 1..n, j = n + k PROVE Follows(spot(w2.listed[j]), spot(w2.listed[i]), w.dir)
    <3>1. w2.listed[i] = listed[i] /\ w2.listed[j] = ids[k]
      BY <1>4, <1>6, <2>2
    <3>2. spot(listed[i]) \in L!Places /\ UpTo(spot(listed[i]), w.cursor, w.dir)
      BY <1>3, <1>7, <1>10, <1>20, <2>2, <3>1
    <3>3. spot(ids[k]) = Seen(s)[k] /\ Seen(s)[k] \in L!Places /\ ~UpTo(Seen(s)[k], w.cursor, w.dir)
      BY <1>9, <1>20, <3>1
    <3>4. Follows(Seen(s)[k], spot(listed[i]), w.dir)
      BY <1>1, <3>2, <3>3, UpToSteps
    <3> QED
      BY <3>1, <3>3, <3>4
  <2>3. ASSUME NEW h \in 1..m, NEW k \in 1..m, i = n + h, j = n + k
        PROVE Follows(spot(w2.listed[j]), spot(w2.listed[i]), w.dir)
    <3>1. w2.listed[i] = ids[h] /\ w2.listed[j] = ids[k]
      BY <1>4, <1>6, <2>3
    <3>2. spot(ids[k]) = Seen(s)[k] /\ spot(ids[h]) = Seen(s)[h]
      BY <1>9, <1>20, <3>1
    <3>3. h < k
      BY <1>6, <1>20, <2>3
    <3>4. DOMAIN Seen(s) = 1..m
      BY <1>5 DEF m
    <3>5. Follows(Seen(s)[k], Seen(s)[h], w.dir)
      BY <1>5, <3>3, <3>4 DEF Ordered
    <3> QED
      BY <3>1, <3>2, <3>5
  <2>4. ASSUME NEW h \in 1..m, i = n + h, j \in 1..n PROVE FALSE
    BY <1>5, <1>6, <1>20, <2>4
  <2> QED
    BY <1>19, <2>1, <2>2, <2>3, <2>4
<1>21. ASSUME w2.at # "done", NEW i \in 1..n + m, w2.listed[i] \notin w.changed
       PROVE UpTo(spot(w2.listed[i]), w2.cursor, w.dir)
  <2>1. w2.cursor = s[PageRows] /\ s[PageRows] \in L!Places /\ PageRows \in 1..Len(s)
    BY <1>4, <1>15, <1>21
  <2>2. CASE i \in 1..n
    <3>1. w2.listed[i] = listed[i] /\ spot(listed[i]) \in L!Places /\ UpTo(spot(listed[i]), w.cursor, w.dir)
      BY <1>3, <1>4, <1>6, <1>7, <1>10, <1>21, <2>2
    <3>2. ~UpTo(s[PageRows], w.cursor, w.dir)
      BY <1>8, <2>1
    <3>3. Follows(s[PageRows], spot(listed[i]), w.dir)
      BY <1>1, <2>1, <3>1, <3>2, UpToSteps
    <3> QED
      BY <1>1, <2>1, <3>1, <3>3, UpToSteps
  <2>3. ASSUME NEW k \in 1..m, i = n + k PROVE UpTo(spot(w2.listed[i]), w2.cursor, w.dir)
    <3>1. w2.listed[i] = ids[k] /\ spot(ids[k]) = Seen(s)[k]
      BY <1>4, <1>6, <1>9, <1>21, <2>3
    <3>2. PICK j \in 1..Len(s) : j <= PageRows /\ s[j] = Seen(s)[k]
      BY <1>5
    <3>3. j = PageRows \/ Follows(s[PageRows], s[j], w.dir)
      <4>1. j = PageRows \/ j < PageRows
        BY <1>3, <3>2
      <4> QED
        BY <1>2, <1>3, <2>1, <4>1 DEF Ordered
    <3>4. UpTo(s[j], s[PageRows], w.dir)
      BY <1>1, <1>3, <2>1, <3>3, UpToSteps
    <3> QED
      BY <2>1, <3>1, <3>2, <3>4
  <2> QED
    BY <1>19, <2>2, <2>3
<1>22. ASSUME NEW d \in Readable \ w.changed, r[d].in, w2.at = "done" \/ UpTo(spot(d), w2.cursor, w.dir)
       PROVE \E i \in 1..n + m : w2.listed[i] = d
  <2>1. CASE UpTo(spot(d), w.cursor, w.dir)
    <3>1. PICK i \in 1..n : listed[i] = d
      BY <1>12, <1>22, <2>1
    <3>2. i \in 1..n + m
      BY <1>5, <1>6
    <3> QED
      BY <1>4, <1>6, <3>1, <3>2
  <2>2. CASE ~UpTo(spot(d), w.cursor, w.dir)
    <3>1. d \in ListDocs /\ spot(d) \in L!Places /\ spot(d).id = d
      BY <1>3, <1>7
    <3>2. Len(s) > PageRows => ~Follows(spot(d), s[PageRows], w.dir)
      BY <1>4, <1>14, <1>15, <1>22 DEF UpTo
    <3>3. PICK j \in 1..Len(s) : s[j] = spot(d)
      BY <1>13, <1>22, <2>2, <3>2
    <3>4. j <= PageRows
      <4>1. CASE ~(Len(s) > PageRows)
        BY <1>3, <4>1
      <4>2. CASE Len(s) > PageRows
        <5>1. PageRows \in 1..Len(s)
          BY <1>3, <4>2
        <5>2. ~(PageRows < j)
          BY <1>2, <1>3, <3>2, <3>3, <4>2, <5>1 DEF Ordered
        <5> QED
          BY <1>3, <5>2
      <4> QED
        BY <4>1, <4>2
    <3>5. PICK i \in 1..m : Seen(s)[i] = s[j]
      BY <1>5, <3>1, <3>3, <3>4
    <3>6. ids[i] = d /\ n + i \in 1..n + m
      BY <1>5, <1>6, <3>1, <3>3, <3>5
    <3> QED
      BY <1>4, <1>6, <3>6
  <2> QED
    BY <2>1, <2>2
<1>23. Len(w2.listed) = n + m
  BY <1>4, <1>6
<1>24. ListedOK(r, w2)
  BY <1>4, <1>20, <1>21, <1>22, <1>23 DEF ListedOK, spot
<1>25. w2.at \in {"page", "done"}
  BY <1>4
<1>26. OutOK(r, w2) /\ BatchOK(r, w2) /\ LoadedOK(r, w2)
  BY <1>25 DEF OutOK, BatchOK, LoadedOK
<1> QED
  BY <1>18, <1>24, <1>26 DEF ListOK, w2

LEMMA ImageFinite == ASSUME NEW X, IsFiniteSet(X), NEW f, NEW Z, Z = {f[x] : x \in X} PROVE IsFiniteSet(Z)
<1> DEFINE g == [x \in X |-> f[x]]
<1>1. g \in Surjection(X, Z)
  BY DEF Surjection
<1> QED
  BY <1>1, FS_Surjection

\* The places of the documents in D, by the value that f gives them.
LEMMA PlacesOf ==
  ASSUME NEW D \in SUBSET ListDocs, NEW f \in [ListDocs -> L!Places]
  PROVE /\ {f[d] : d \in D} \in SUBSET L!Places /\ IsFiniteSet({f[d] : d \in D})
<1>1. IsFiniteSet(D)
  BY ListAssumption, FS_Subset
<1>2. IsFiniteSet({f[d] : d \in D})
  BY <1>1, ImageFinite
<1> QED
  BY <1>2

LEMMA RowIs == ASSUME NEW r \in [ListDocs -> RowRecords], NEW d \in ListDocs
               PROVE /\ r[d].in \in BOOLEAN /\ r[d].key \in Nat /\ r[d].opened \in Nat
                     /\ \A h \in {"field", "opened", "rest"} : /\ [v |-> r[d].key, id |-> d, p |-> h] \in L!Places
                                                               /\ [v |-> r[d].opened, id |-> d, p |-> h] \in L!Places
<1>1. r[d] \in RowRecords
  OBVIOUS
<1>2. r[d].in \in BOOLEAN /\ r[d].key \in SortKeys /\ r[d].opened \in SortKeys \cup {0}
  BY <1>1 DEF RowRecords
<1>3. SortKeys \subseteq Nat /\ 0 \in Nat
  BY ListAssumption
<1>4. r[d].key \in Nat /\ r[d].opened \in Nat
  BY <1>2, <1>3, Zenon
<1> QED
  BY <1>2, <1>4 DEF L!Places

\* A page that one query answers, if the query reads every document that did not change and is shown.
LEMMA QueryAnswers ==
  ASSUME NEW r, NEW w, ListTypes(r, w), NEW X \in SUBSET L!Places, IsFiniteSet(X),
         NEW h \in {"field", "opened", "rest"}, Halves(w.sort) = {h}, \A q \in X : q.p = h,
         \A q \in X : q.id \notin w.changed => q = Spot(r, w.sort, q.id) /\ r[q.id].in,
         \A d \in Readable \ w.changed : r[d].in => Spot(r, w.sort, d) \in X,
         NEW n \in Nat, n = PageRows + 1 \/ n = Cardinality(X)
  PROVE LET s == L!Query(X, w.cursor, w.dir, n) IN Sound(s, r, w) /\ Complete(s, r, w)
<1> DEFINE s == L!Query(X, w.cursor, w.dir, n)
<1>1. /\ w.sort \in L!Sorts /\ w.dir \in {1, -1} /\ w.cursor \in L!Places \cup {None}
      /\ r \in [ListDocs -> RowRecords] /\ (w.cursor # None => w.cursor.p = h)
  BY DEF ListTypes, WalkRecords
<1>2. PageRows \in Nat \ {0} /\ Readable \subseteq ListDocs
  BY ListAssumption
<1>3. /\ s \in Seq(L!Places) /\ Len(s) <= n /\ Ordered(s, w.dir)
      /\ \A i \in 1..Len(s) : s[i] \in X /\ ~UpTo(s[i], w.cursor, w.dir)
      /\ \A q \in X : ~UpTo(q, w.cursor, w.dir)
                        /\ (Len(s) = n => Cardinality(X) <= n \/ (n > 0 /\ ~Follows(q, s[n], w.dir)))
                          => \E i \in 1..Len(s) : s[i] = q
  <2>1. PICK o \in L!Places \cup {None}, dir \in {1, -1} : o = w.cursor /\ dir = w.dir
    BY <1>1
  <2>2. o # None => o.p = h
    BY <1>1, <2>1
  <2>3. s = L!Query(X, o, dir, n)
    BY <2>1
  <2>4. Queried(s, X, o, dir, n)
    BY <2>2, <2>3, QueryIs
  <2> HIDE DEF s
  <2> QED
    BY <2>1, <2>4 DEF Queried
<1> HIDE DEF s
<1>4. Sound(s, r, w)
  <2>1. h \in Halves(w.sort)
    OBVIOUS
  <2> QED
    BY <1>3, <2>1 DEF Sound
<1>5. ASSUME NEW d \in Readable \ w.changed, r[d].in, ~UpTo(Spot(r, w.sort, d), w.cursor, w.dir),
             Len(s) > PageRows => ~Follows(Spot(r, w.sort, d), s[PageRows], w.dir)
      PROVE \E i \in 1..Len(s) : s[i] = Spot(r, w.sort, d)
  <2>1. PICK q \in X : q = Spot(r, w.sort, d)
    BY <1>5
  <2>2. Len(s) \in Nat /\ \A i \in 1..Len(s) : s[i] \in L!Places
    BY <1>3
  <2>3. Len(s) = n /\ n = PageRows + 1 => n > 0 /\ ~Follows(q, s[n], w.dir)
    <3> SUFFICES ASSUME Len(s) = n, n = PageRows + 1 PROVE n > 0 /\ ~Follows(q, s[n], w.dir)
      OBVIOUS
    <3>1. PageRows \in 1..Len(s) /\ n \in 1..Len(s) /\ PageRows < n /\ DOMAIN s = 1..Len(s) /\ Len(s) > PageRows
      BY <1>2, <1>3
    <3>2. Follows(s[n], s[PageRows], w.dir)
      BY <1>3, <3>1 DEF Ordered
    <3>3. ~Follows(q, s[PageRows], w.dir)
      BY <1>5, <2>1, <3>1
    <3>4. s[n] \in L!Places /\ s[PageRows] \in L!Places /\ q \in L!Places
      BY <2>2, <3>1
    <3>5. ~Follows(q, s[n], w.dir)
      BY <1>1, <3>2, <3>3, <3>4, FollowsOrders
    <3> QED
      BY <1>2, <3>5
  <2>4. Cardinality(X) \in Nat
    BY FS_CardinalityType
  <2>5. Len(s) = n => Cardinality(X) <= n \/ (n > 0 /\ ~Follows(q, s[n], w.dir))
    BY <2>3, <2>4
  <2>6. ~UpTo(q, w.cursor, w.dir)
    BY <1>5, <2>1
  <2> QED
    BY <1>3, <2>1, <2>5, <2>6
<1>6. Complete(s, r, w)
  BY <1>5 DEF Complete
<1> QED
  BY <1>4, <1>6 DEF s

LEMMA ListStarts == L!Init => ListOK(row, walk)
<1> SUFFICES ASSUME L!Init PROVE ListOK(row, walk)
  OBVIOUS
<1>1. PICK sort \in L!Sorts, dir \in {1, -1} :
        /\ sort = "lastOpened" => dir = -1
        /\ walk = [sort |-> sort, dir |-> dir, at |-> "page", cursor |-> None, after |-> None, batch |-> <<>>,
                   out |-> <<>>, loaded |-> {}, listed |-> <<>>, changed |-> {}, changes |-> 0]
  BY DEF L!Init
<1>2. PICK e : e = <<>>
  OBVIOUS
<1>3. e \in Seq(L!Places) /\ e \in Seq(Readable) /\ Len(e) = 0
  BY <1>2
<1>4. walk = [sort |-> sort, dir |-> dir, at |-> "page", cursor |-> None, after |-> None, batch |-> e,
              out |-> e, loaded |-> {}, listed |-> e, changed |-> {}, changes |-> 0]
  BY <1>1, <1>2
<1>5. /\ walk.sort = sort /\ walk.dir = dir /\ walk.at = "page" /\ walk.cursor = None /\ walk.after = None
      /\ walk.out = e /\ walk.listed = e
  BY <1>4
<1>6. walk \in WalkRecords
  BY <1>3, <1>4 DEF WalkRecords
<1>7. row \in [ListDocs -> RowRecords]
  BY DEF L!Init, RowRecords
<1>8. ListTypes(row, walk)
  BY <1>1, <1>2, <1>5, <1>6, <1>7 DEF ListTypes
<1>9. ListedOK(row, walk)
  BY <1>3, <1>5 DEF ListedOK, UpTo
<1>10. OutOK(row, walk) /\ BatchOK(row, walk) /\ LoadedOK(row, walk)
  BY <1>5 DEF OutOK, BatchOK, LoadedOK
<1> QED
  BY <1>8, <1>9, <1>10 DEF ListOK

\* A page that one query of the documents in D answers.
LEMMA PlacesAnswer ==
  ASSUME ListTypes(row, walk), ListedOK(row, walk), walk.at # "done",
         NEW D \in SUBSET ListDocs, NEW f \in [ListDocs -> L!Places], NEW h \in {"field", "opened", "rest"},
         Halves(walk.sort) = {h}, \A d \in ListDocs : f[d].id = d /\ f[d].p = h /\ Spot(row, walk.sort, d) = f[d],
         \A d \in D \ walk.changed : row[d].in, \A d \in Readable \ walk.changed : row[d].in => d \in D,
         NEW X, X = {f[d] : d \in D}, NEW n, n = PageRows + 1 \/ n = Cardinality(X),
         L!Answer(L!Query(X, walk.cursor, walk.dir, n))
  PROVE ListOK(row, walk')
<1>1. X \in SUBSET L!Places /\ IsFiniteSet(X)
  BY PlacesOf
<1>2. \A q \in X : \E d \in D : q = f[d]
  OBVIOUS
<1>3. \A d \in D : f[d] \in X
  OBVIOUS
<1>4. \A q \in X : q.p = h
  BY <1>2
<1>5. \A q \in X : q.id \notin walk.changed => q = Spot(row, walk.sort, q.id) /\ row[q.id].in
  BY <1>2
<1>6. \A d \in Readable \ walk.changed : row[d].in => Spot(row, walk.sort, d) \in X
  BY <1>3, ListAssumption
<1>7. n \in Nat
  BY <1>1, FS_CardinalityType, ListAssumption
<1> DEFINE s == L!Query(X, walk.cursor, walk.dir, n)
<1>8. Sound(s, row, walk) /\ Complete(s, row, walk)
  BY <1>1, <1>4, <1>5, <1>6, <1>7, QueryAnswers
<1>9. L!Answer(s)
  OBVIOUS
<1> HIDE DEF s
<1>10. walk' = Answered(walk, s)
  BY <1>8, <1>9, AnswerIs DEF Sound
<1>11. ListOK(row, Answered(walk, s))
  BY <1>8, AnswerKeeps
<1> QED
  BY <1>10, <1>11

FieldPlaces == [d \in ListDocs |-> [v |-> row[d].key, id |-> d, p |-> "field"]]
OpenPlaces == [d \in ListDocs |-> [v |-> row[d].opened, id |-> d, p |-> "opened"]]
RestPlaces == [d \in ListDocs |-> [v |-> row[d].key, id |-> d, p |-> "rest"]]

LEMMA PlacesAre ==
  ASSUME row \in [ListDocs -> RowRecords]
  PROVE /\ FieldPlaces \in [ListDocs -> L!Places] /\ OpenPlaces \in [ListDocs -> L!Places]
        /\ RestPlaces \in [ListDocs -> L!Places]
        /\ \A d \in ListDocs : /\ FieldPlaces[d] = L!KeyOf(d, "field") /\ FieldPlaces[d].id = d /\ FieldPlaces[d].p = "field"
                               /\ OpenPlaces[d] = L!OpenOf(d) /\ OpenPlaces[d].id = d /\ OpenPlaces[d].p = "opened"
                               /\ RestPlaces[d] = L!KeyOf(d, "rest") /\ RestPlaces[d].id = d /\ RestPlaces[d].p = "rest"
<1>1. \A d \in ListDocs : /\ FieldPlaces[d] = [v |-> row[d].key, id |-> d, p |-> "field"]
                          /\ OpenPlaces[d] = [v |-> row[d].opened, id |-> d, p |-> "opened"]
                          /\ RestPlaces[d] = [v |-> row[d].key, id |-> d, p |-> "rest"]
  BY DEF FieldPlaces, OpenPlaces, RestPlaces
<1>2. \A d \in ListDocs : /\ [v |-> row[d].key, id |-> d, p |-> "field"] \in L!Places
                          /\ [v |-> row[d].opened, id |-> d, p |-> "opened"] \in L!Places
                          /\ [v |-> row[d].key, id |-> d, p |-> "rest"] \in L!Places
  BY RowIs
<1>3. \A d \in ListDocs : /\ FieldPlaces[d] = L!KeyOf(d, "field")
                          /\ OpenPlaces[d] = L!OpenOf(d)
                          /\ RestPlaces[d] = L!KeyOf(d, "rest")
  BY <1>1 DEF L!KeyOf, L!OpenOf, L!Place
<1>4. /\ FieldPlaces \in [ListDocs -> L!Places] /\ OpenPlaces \in [ListDocs -> L!Places]
      /\ RestPlaces \in [ListDocs -> L!Places]
  BY <1>2 DEF FieldPlaces, OpenPlaces, RestPlaces
<1>5. \A d \in ListDocs : /\ FieldPlaces[d].id = d /\ FieldPlaces[d].p = "field"
                          /\ OpenPlaces[d].id = d /\ OpenPlaces[d].p = "opened"
                          /\ RestPlaces[d].id = d /\ RestPlaces[d].p = "rest"
  <2>1. \A d \in ListDocs : FieldPlaces[d].id = d /\ FieldPlaces[d].p = "field"
    BY DEF FieldPlaces
  <2>2. \A d \in ListDocs : OpenPlaces[d].id = d /\ OpenPlaces[d].p = "opened"
    BY DEF OpenPlaces
  <2>3. \A d \in ListDocs : RestPlaces[d].id = d /\ RestPlaces[d].p = "rest"
    BY DEF RestPlaces
  <2> QED
    BY <2>1, <2>2, <2>3
<1> QED
  BY <1>3, <1>4, <1>5

\* fieldPage, and a small view by the same fields.
LEMMA FieldKeeps ==
  ASSUME ListOK(row, walk), walk.at = "page", walk.sort \in {"field", "memoryField"}, NEW D \in SUBSET ListDocs,
         \A d \in D : row[d].in, \A d \in Readable : row[d].in => d \in D,
         NEW X, X = {L!KeyOf(d, "field") : d \in D}, NEW n, n = PageRows + 1 \/ n = Cardinality(X),
         L!Answer(L!Query(X, walk.cursor, walk.dir, n))
  PROVE ListOK(row, walk')
<1>1. ListTypes(row, walk) /\ ListedOK(row, walk) /\ row \in [ListDocs -> RowRecords] /\ walk.sort \in L!Sorts
  BY DEF ListOK, ListTypes, WalkRecords
<1>2. Halves(walk.sort) = {"field"}
  BY DEF Halves
<1>3. \A d \in ListDocs : Spot(row, walk.sort, d) = FieldPlaces[d]
  BY <1>1, SpotIs DEF FieldPlaces
<1>4. FieldPlaces \in [ListDocs -> L!Places] /\ \A d \in ListDocs : FieldPlaces[d].id = d /\ FieldPlaces[d].p = "field"
  BY <1>1, PlacesAre
<1>5. X = {FieldPlaces[d] : d \in D}
  BY <1>1, PlacesAre
<1> QED
  BY <1>1, <1>2, <1>3, <1>4, <1>5, PlacesAnswer

LEMMA FieldPageKeeps == ASSUME ListOK(row, walk), L!FieldPage PROVE ListOK(row, walk')
<1> DEFINE D == L!InView
           X == {L!KeyOf(d, "field") : d \in D}
<1>1. walk.at = "page" /\ walk.sort = "field" /\ L!Answer(L!Query(X, walk.cursor, walk.dir, PageRows + 1))
  BY DEF L!FieldPage
<1>2. D \in SUBSET ListDocs /\ \A d \in ListDocs : d \in D <=> row[d].in
  BY DEF L!InView
<1>3. Readable \subseteq ListDocs
  BY ListAssumption
<1> HIDE DEF D
<1> QED
  BY <1>1, <1>2, <1>3, FieldKeeps

LEMMA MemoryFieldKeeps ==
  ASSUME ListOK(row, walk), walk.at = "page", walk.sort = "memoryField",
         L!MemoryAnswer({L!KeyOf(d, "field") : d \in L!Accessible(L!Candidates)})
  PROVE ListOK(row, walk')
<1> DEFINE D == L!Accessible(L!Candidates)
           X == {L!KeyOf(d, "field") : d \in D}
<1>1. L!Answer(L!Query(X, walk.cursor, walk.dir, Cardinality(X)))
  <2>1. L!Cardinality(X) = Cardinality(X)
    BY DEF L!Cardinality, Cardinality
  <2>2. L!MemoryAnswer(X)
    OBVIOUS
  <2> HIDE DEF X
  <2> QED
    BY <2>1, <2>2 DEF L!MemoryAnswer
<1>2. D \in SUBSET ListDocs /\ (\A d \in D : row[d].in) /\ \A d \in Readable : row[d].in => d \in D
  BY ListAssumption DEF L!InView, L!Candidates, L!Accessible
<1> HIDE DEF D
<1> QED
  BY <1>1, <1>2, FieldKeeps

LEMMA MemoryTimesKeeps == ASSUME ListOK(row, walk), L!MemoryTimes PROVE ListOK(row, walk')
<1> DEFINE D == walk.loaded
           X == {L!OpenOf(d) : d \in D}
<1>1. walk.at = "times" /\ L!Answer(L!Query(X, walk.cursor, walk.dir, Cardinality(X)))
  <2>1. L!Cardinality(X) = Cardinality(X)
    BY DEF L!Cardinality, Cardinality
  <2>2. walk.at = "times" /\ L!MemoryAnswer(X)
    BY DEF L!MemoryTimes
  <2> HIDE DEF X
  <2> QED
    BY <2>1, <2>2 DEF L!MemoryAnswer
<1>2. /\ ListTypes(row, walk) /\ ListedOK(row, walk) /\ row \in [ListDocs -> RowRecords] /\ walk.sort \in L!Sorts
      /\ D \in SUBSET Readable /\ walk.sort = "memoryOpened"
  BY <1>1 DEF ListOK, ListTypes, WalkRecords
<1>3. Readable \subseteq ListDocs
  BY ListAssumption
<1>4. \A d \in ListDocs \ walk.changed : d \in D <=> d \in Readable /\ row[d].in
  BY <1>1 DEF ListOK, LoadedOK
<1>5. Halves(walk.sort) = {"opened"}
  BY <1>2 DEF Halves
<1>6. \A d \in ListDocs : Spot(row, walk.sort, d) = OpenPlaces[d]
  BY <1>2, SpotIs DEF OpenPlaces
<1>7. OpenPlaces \in [ListDocs -> L!Places] /\ \A d \in ListDocs : OpenPlaces[d].id = d /\ OpenPlaces[d].p = "opened"
  BY <1>2, PlacesAre
<1>8. D \in SUBSET ListDocs
  BY <1>2, <1>3
<1>9. X = {OpenPlaces[d] : d \in D}
  BY <1>2, <1>8, PlacesAre
<1>10. (\A d \in D \ walk.changed : row[d].in) /\ \A d \in Readable \ walk.changed : row[d].in => d \in D
  BY <1>3, <1>4, <1>8
<1> HIDE DEF D, X
<1> QED
  BY <1>1, <1>2, <1>5, <1>6, <1>7, <1>8, <1>9, <1>10, PlacesAnswer

\* Between two queries a reading keeps all but what it is about to do and has found.
GoesOn(w, w2) ==
  /\ w2 \in WalkRecords /\ w2.sort = w.sort /\ w2.dir = w.dir /\ w2.cursor = w.cursor /\ w2.listed = w.listed
  /\ w2.changed = w.changed

Ats == {"page", "times", "states", "docs", "rest", "opened", "done"}

Loading(w, at, loaded) == [w EXCEPT !.at = at, !.loaded = loaded]
Starting(w, at, after) == [w EXCEPT !.after = after, !.at = at]
Reading(w, at, batch) == [w EXCEPT !.at = at, !.batch = batch]
Collecting(w, at, out, after) == [w EXCEPT !.at = at, !.out = out, !.after = after]

LEMMA LoadingIs ==
  ASSUME NEW w \in WalkRecords, NEW at \in Ats, NEW loaded \in SUBSET Readable
  PROVE LET w2 == Loading(w, at, loaded) IN
        GoesOn(w, w2) /\ w2.at = at /\ w2.loaded = loaded /\ w2.after = w.after /\ w2.out = w.out /\ w2.batch = w.batch
  BY DEF WalkRecords, GoesOn, Ats, Loading

LEMMA StartingIs ==
  ASSUME NEW w \in WalkRecords, NEW at \in Ats, NEW after \in L!Places \cup {None}
  PROVE LET w2 == Starting(w, at, after) IN
        GoesOn(w, w2) /\ w2.at = at /\ w2.after = after /\ w2.out = w.out /\ w2.batch = w.batch
  BY DEF WalkRecords, GoesOn, Ats, Starting

LEMMA ReadingIs ==
  ASSUME NEW w \in WalkRecords, NEW at \in Ats, NEW batch \in Seq(L!Places)
  PROVE LET w2 == Reading(w, at, batch) IN
        GoesOn(w, w2) /\ w2.at = at /\ w2.after = w.after /\ w2.out = w.out /\ w2.batch = batch
  BY DEF WalkRecords, GoesOn, Ats, Reading

LEMMA CollectingIs ==
  ASSUME NEW w \in WalkRecords, NEW at \in Ats, NEW out \in Seq(L!Places), NEW after \in L!Places \cup {None}
  PROVE LET w2 == Collecting(w, at, out, after) IN
        GoesOn(w, w2) /\ w2.at = at /\ w2.after = after /\ w2.out = out
  BY DEF WalkRecords, GoesOn, Ats, Collecting

LEMMA ListedStays ==
  ASSUME NEW r, NEW w, NEW w2, ListedOK(r, w), w.at # "done", w2.at # "done", GoesOn(w, w2)
  PROVE ListedOK(r, w2)
  BY DEF ListedOK, GoesOn

LEMMA MemoryLoadKeeps ==
  ASSUME ListOK(row, walk), walk.at = "page", walk.sort = "memoryOpened",
         walk' = [walk EXCEPT !.at = "times", !.loaded = L!Accessible(L!Candidates)]
  PROVE ListOK(row, walk')
<1>1. walk \in WalkRecords /\ ListTypes(row, walk) /\ ListedOK(row, walk) /\ "times" \in Ats
  BY DEF ListOK, ListTypes, Ats
<1>2. L!Accessible(L!Candidates) = {d \in ListDocs : d \in Readable /\ row[d].in}
  BY DEF L!Accessible, L!Candidates, L!InView
<1>3. L!Accessible(L!Candidates) \in SUBSET Readable
  BY <1>2
<1> DEFINE loaded == L!Accessible(L!Candidates)
           w2 == walk'
<1>4. GoesOn(walk, w2) /\ w2.at = "times" /\ w2.loaded = loaded /\ w2.after = walk.after
  <2>1. w2 = Loading(walk, "times", loaded)
    BY DEF Loading
  <2> HIDE DEF loaded, w2
  <2> QED
    BY <1>1, <1>3, <2>1, LoadingIs DEF loaded
<1> HIDE DEF loaded, w2
<1>5. ListTypes(row, w2)
  BY <1>1, <1>4 DEF ListTypes, GoesOn
<1>6. ListedOK(row, w2)
  BY <1>1, <1>4, ListedStays
<1>7. LoadedOK(row, w2)
  BY <1>2, <1>4 DEF LoadedOK, loaded
<1>8. OutOK(row, w2) /\ BatchOK(row, w2)
  BY <1>4 DEF OutOK, BatchOK
<1> QED
  BY <1>5, <1>6, <1>7, <1>8 DEF ListOK, w2

LEMMA MemoryPageKeeps == ASSUME ListOK(row, walk), L!MemoryPage PROVE ListOK(row, walk')
  BY MemoryFieldKeeps, MemoryLoadKeeps DEF L!MemoryPage

\* A reader of "last opened" starts at its cursor, with nothing yet.
LEMMA LastOpenedKeeps == ASSUME ListOK(row, walk), L!LastOpened PROVE ListOK(row, walk')
<1>1. /\ walk \in WalkRecords /\ ListTypes(row, walk) /\ ListedOK(row, walk) /\ row \in [ListDocs -> RowRecords]
      /\ walk.at = "page" /\ walk.sort = "lastOpened" /\ walk.dir = -1 /\ walk.dir \in {1, -1} /\ walk.out = <<>>
      /\ walk.cursor \in L!Places \cup {None} /\ (walk.cursor # None => walk.cursor.p \in {"opened", "rest"})
  BY DEF ListOK, ListTypes, WalkRecords, L!LastOpened, Halves
<1>2. PICK at \in Ats : at = IF walk.cursor # None /\ walk.cursor.p = "rest" THEN "rest" ELSE "states"
  BY DEF Ats
<1> DEFINE w2 == walk'
<1>3. w2 = Starting(walk, at, walk.cursor)
  BY <1>2 DEF L!LastOpened, Starting
<1> HIDE DEF w2
<1>4. GoesOn(walk, w2) /\ w2.at = at /\ w2.after = walk.cursor /\ w2.out = walk.out
  BY <1>1, <1>3, StartingIs
<1>5. ListTypes(row, w2)
  BY <1>1, <1>2, <1>4 DEF ListTypes, GoesOn
<1>6. ListedOK(row, w2)
  BY <1>1, <1>2, <1>4, ListedStays
<1>7. OutOK(row, w2)
  <2>1. w2.cursor # None => Reached(w2.cursor, w2)
    BY <1>1, <1>4, UpToSteps DEF Reached, GoesOn
  <2>2. Len(w2.out) = 0 /\ w2.out \in Seq(L!Places) /\ w2.out = <<>>
    BY <1>1, <1>4
  <2>3. Sound(w2.out, row, w2) /\ Len(w2.out) <= PageRows
    BY <2>2, ListAssumption DEF Sound, Ordered
  <2>4. ASSUME NEW d \in Readable \ w2.changed,
               Reached(Spot(row, w2.sort, d), w2), ~UpTo(Spot(row, w2.sort, d), w2.cursor, w2.dir) PROVE FALSE
    <3>1. /\ w2.at = "rest" /\ walk.cursor # None /\ walk.cursor.p = "rest" /\ Spot(row, w2.sort, d).p # "rest"
      BY <1>1, <1>2, <1>4, <2>4 DEF Reached, GoesOn
    <3>2. Spot(row, w2.sort, d) \in L!Places /\ walk.cursor \in L!Places /\ walk.cursor = w2.cursor
      <4>1. d \in ListDocs /\ w2.sort \in L!Sorts
        BY <1>4, ListAssumption DEF GoesOn, WalkRecords
      <4>2. Spot(row, w2.sort, d) \in L!Places
        BY <1>1, <4>1, SpotIs
      <4> QED
        BY <1>1, <1>4, <3>1, <4>2 DEF GoesOn
    <3>3. Follows(walk.cursor, Spot(row, w2.sort, d), w2.dir)
      BY <3>1, <3>2, PlaceIs DEF Follows, Half
    <3> QED
      BY <1>1, <1>4, <2>4, <3>2, <3>3, UpToSteps DEF GoesOn
  <2> QED
    BY <2>1, <2>2, <2>3, <2>4 DEF OutOK
<1>8. BatchOK(row, w2) /\ LoadedOK(row, w2)
  BY <1>2, <1>4 DEF BatchOK, LoadedOK
<1> QED
  BY <1>5, <1>6, <1>7, <1>8 DEF ListOK, w2

\* What is said of the page so far does not depend on which half of a round it is.
LEMMA OutStays ==
  ASSUME NEW r, NEW w, NEW w2, OutOK(r, w), GoesOn(w, w2), w2.out = w.out, w2.after = w.after,
         (w.at = "states" /\ w2.at = "docs") \/ (w.at = "rest" /\ w2.at = "opened")
  PROVE OutOK(r, w2)
<1>1. \A q : Reached(q, w2) <=> Reached(q, w)
  BY DEF Reached, GoesOn
<1>2. Sound(w.out, r, w) => Sound(w2.out, r, w2)
  BY DEF Sound, GoesOn
<1> QED
  BY <1>1, <1>2 DEF OutOK, GoesOn

LEMMA ReadStatesKeeps == ASSUME ListOK(row, walk), L!ReadStates PROVE ListOK(row, walk')
<1>1. /\ walk \in WalkRecords /\ ListTypes(row, walk) /\ ListedOK(row, walk) /\ row \in [ListDocs -> RowRecords]
      /\ walk.at = "states" /\ walk.sort = "lastOpened" /\ walk.dir = -1 /\ walk.after \in L!Places \cup {None}
      /\ (walk.after # None => walk.after.p = "opened") /\ OutOK(row, walk) /\ -1 \in {1, -1} /\ "docs" \in Ats
      /\ BatchRows \in Nat \ {0} /\ Readable \subseteq ListDocs
  BY ListAssumption DEF ListOK, ListTypes, WalkRecords, L!ReadStates, Ats
<1> DEFINE D == L!Opened
           X == {L!OpenOf(d) : d \in D}
           s == L!Query(X, walk.after, -1, BatchRows)
           w2 == walk'
<1>2. w2 = Reading(walk, "docs", s)
  BY DEF L!ReadStates, Reading
<1>3. D \in SUBSET ListDocs /\ \A d \in ListDocs : d \in D <=> row[d].opened > 0
  BY DEF L!Opened
<1> HIDE DEF D, w2
<1>4. X = {OpenPlaces[d] : d \in D}
  BY <1>1, <1>3, PlacesAre
<1>5. OpenPlaces \in [ListDocs -> L!Places] /\ \A d \in ListDocs : OpenPlaces[d].id = d /\ OpenPlaces[d].p = "opened"
  BY <1>1, PlacesAre
<1>6. \A d \in D : Spot(row, walk.sort, d) = OpenPlaces[d]
  BY <1>1, <1>3, SpotIs DEF OpenPlaces, L!Sorts
<1>7. X \in SUBSET L!Places /\ IsFiniteSet(X) /\ \A q \in X : \E d \in D : q = OpenPlaces[d]
  BY <1>3, <1>4, <1>5, PlacesOf
<1>8. \A d \in D : OpenPlaces[d] \in X
  BY <1>4
<1> HIDE DEF X
<1>9. Queried(s, X, walk.after, -1, BatchRows)
  <2>1. \A q \in X : q.p = "opened"
    BY <1>3, <1>5, <1>7
  <2> QED
    BY <1>1, <1>7, <2>1, QueryIs
<1> HIDE DEF s
<1>10. /\ s \in Seq(L!Places) /\ Len(s) <= BatchRows /\ Ordered(s, -1)
       /\ \A i \in 1..Len(s) : s[i] \in X /\ ~UpTo(s[i], walk.after, -1)
  BY <1>9 DEF Queried
<1>11. GoesOn(walk, w2) /\ w2.at = "docs" /\ w2.after = walk.after /\ w2.out = walk.out /\ w2.batch = s
  BY <1>1, <1>2, <1>10, ReadingIs
<1>12. w2.dir = -1 /\ w2.sort = "lastOpened" /\ w2.changed = walk.changed
  BY <1>1, <1>11 DEF GoesOn
<1>13. \A q : Reached(q, w2) <=> UpTo(q, walk.after, -1)
  BY <1>11, <1>12 DEF Reached
<1>14. ListTypes(row, w2)
  BY <1>1, <1>11 DEF ListTypes, GoesOn
<1>15. ListedOK(row, w2) /\ OutOK(row, w2)
  BY <1>1, <1>11, ListedStays, OutStays
<1>16. ASSUME NEW i \in 1..Len(s)
       PROVE /\ s[i].p = "opened" /\ ~Reached(s[i], w2)
             /\ s[i].id \in KeptNow(row, w2) => s[i] = Spot(row, w2.sort, s[i].id) /\ row[s[i].id].in
  <2>1. PICK d \in D : s[i] = OpenPlaces[d]
    BY <1>7, <1>10
  <2>2. s[i].id = d /\ s[i].p = "opened" /\ s[i] = Spot(row, w2.sort, d)
    BY <1>1, <1>3, <1>5, <1>6, <1>12, <2>1
  <2>3. d \in KeptNow(row, w2) => row[d].in
    BY <1>11 DEF KeptNow
  <2> QED
    BY <1>10, <1>13, <2>2, <2>3
<1>17. ASSUME NEW d \in Readable, Spot(row, w2.sort, d).p = "opened", ~Reached(Spot(row, w2.sort, d), w2),
              Len(s) = BatchRows => ~Follows(Spot(row, w2.sort, d), s[BatchRows], w2.dir)
       PROVE \E i \in 1..Len(s) : s[i] = Spot(row, w2.sort, d)
  <2>1. d \in ListDocs /\ row[d].opened > 0
    BY <1>1, <1>12, <1>17, SpotIs DEF L!Sorts
  <2>2. Spot(row, w2.sort, d) = OpenPlaces[d] /\ OpenPlaces[d] \in X
    BY <1>1, <1>3, <1>6, <1>8, <1>12, <2>1
  <2> HIDE DEF Spot
  <2>3. BatchRows > 0
    BY <1>1
  <2> QED
    BY <1>9, <1>12, <1>13, <1>17, <2>2, <2>3 DEF Queried
<1>18. BatchOK(row, w2)
  BY <1>10, <1>11, <1>12, <1>16, <1>17 DEF BatchOK, BatchHalf
<1>19. LoadedOK(row, w2)
  BY <1>11 DEF LoadedOK
<1> QED
  BY <1>14, <1>15, <1>18, <1>19 DEF ListOK, w2

LEMMA ReadRestKeeps == ASSUME ListOK(row, walk), L!ReadRest PROVE ListOK(row, walk')
<1>1. /\ walk \in WalkRecords /\ ListTypes(row, walk) /\ ListedOK(row, walk) /\ row \in [ListDocs -> RowRecords]
      /\ walk.at = "rest" /\ walk.sort = "lastOpened" /\ walk.dir = -1 /\ walk.after \in L!Places \cup {None}
      /\ (walk.after # None => walk.after.p = "rest") /\ OutOK(row, walk) /\ -1 \in {1, -1} /\ "opened" \in Ats
      /\ BatchRows \in Nat \ {0} /\ Readable \subseteq ListDocs
  BY ListAssumption DEF ListOK, ListTypes, WalkRecords, L!ReadRest, Ats
<1> DEFINE D == L!InView
           X == {L!KeyOf(d, "rest") : d \in D}
           s == L!Query(X, walk.after, -1, BatchRows)
           w2 == walk'
<1>2. w2 = Reading(walk, "opened", s)
  BY DEF L!ReadRest, Reading
<1>3. D \in SUBSET ListDocs /\ \A d \in ListDocs : d \in D <=> row[d].in
  BY DEF L!InView
<1> HIDE DEF D, w2
<1>4. X = {RestPlaces[d] : d \in D}
  BY <1>1, <1>3, PlacesAre
<1>5. RestPlaces \in [ListDocs -> L!Places] /\ \A d \in ListDocs : RestPlaces[d].id = d /\ RestPlaces[d].p = "rest"
  BY <1>1, PlacesAre
<1>6. \A d \in ListDocs : ~(row[d].opened > 0) => Spot(row, walk.sort, d) = RestPlaces[d]
  BY <1>1, SpotIs DEF RestPlaces, L!Sorts
<1>7. X \in SUBSET L!Places /\ IsFiniteSet(X) /\ \A q \in X : \E d \in D : q = RestPlaces[d]
  BY <1>3, <1>4, <1>5, PlacesOf
<1>8. \A d \in D : RestPlaces[d] \in X
  BY <1>4
<1> HIDE DEF X
<1>9. Queried(s, X, walk.after, -1, BatchRows)
  <2>1. \A q \in X : q.p = "rest"
    BY <1>3, <1>5, <1>7
  <2> QED
    BY <1>1, <1>7, <2>1, QueryIs
<1> HIDE DEF s
<1>10. /\ s \in Seq(L!Places) /\ Len(s) <= BatchRows /\ Ordered(s, -1)
       /\ \A i \in 1..Len(s) : s[i] \in X /\ ~UpTo(s[i], walk.after, -1)
  BY <1>9 DEF Queried
<1>11. GoesOn(walk, w2) /\ w2.at = "opened" /\ w2.after = walk.after /\ w2.out = walk.out /\ w2.batch = s
  BY <1>1, <1>2, <1>10, ReadingIs
<1>12. w2.dir = -1 /\ w2.sort = "lastOpened" /\ w2.changed = walk.changed
  BY <1>1, <1>11 DEF GoesOn
<1>13. \A q : Reached(q, w2) <=> q.p # "rest" \/ UpTo(q, walk.after, -1)
  BY <1>11, <1>12 DEF Reached
<1>14. ListTypes(row, w2)
  BY <1>1, <1>11 DEF ListTypes, GoesOn
<1>15. ListedOK(row, w2) /\ OutOK(row, w2)
  BY <1>1, <1>11, ListedStays, OutStays
<1>16. ASSUME NEW i \in 1..Len(s)
       PROVE /\ s[i].p = "rest" /\ ~Reached(s[i], w2)
             /\ s[i].id \in KeptNow(row, w2) => s[i] = Spot(row, w2.sort, s[i].id) /\ row[s[i].id].in
  <2>1. PICK d \in D : s[i] = RestPlaces[d]
    BY <1>7, <1>10
  <2>2. s[i].id = d /\ s[i].p = "rest" /\ d \in ListDocs /\ row[d].in
    BY <1>3, <1>5, <2>1
  <2>3. d \in KeptNow(row, w2) => ~(row[d].opened > 0)
    BY <1>11 DEF KeptNow
  <2> QED
    BY <1>1, <1>6, <1>10, <1>12, <1>13, <2>1, <2>2, <2>3
<1>17. ASSUME NEW d \in Readable, row[d].in, Spot(row, w2.sort, d).p = "rest", ~Reached(Spot(row, w2.sort, d), w2),
              Len(s) = BatchRows => ~Follows(Spot(row, w2.sort, d), s[BatchRows], w2.dir)
       PROVE \E i \in 1..Len(s) : s[i] = Spot(row, w2.sort, d)
  <2>1. d \in ListDocs /\ ~(row[d].opened > 0)
    BY <1>1, <1>12, <1>17, SpotIs DEF L!Sorts
  <2>2. Spot(row, w2.sort, d) = RestPlaces[d] /\ RestPlaces[d] \in X
    BY <1>1, <1>3, <1>6, <1>8, <1>12, <1>17, <2>1
  <2> HIDE DEF Spot
  <2>3. BatchRows > 0
    BY <1>1
  <2> QED
    BY <1>9, <1>12, <1>13, <1>17, <2>2, <2>3 DEF Queried
<1>18. BatchOK(row, w2)
  BY <1>10, <1>11, <1>12, <1>16, <1>17 DEF BatchOK, BatchHalf
<1>19. LoadedOK(row, w2)
  BY <1>11 DEF LoadedOK
<1> QED
  BY <1>14, <1>15, <1>18, <1>19 DEF ListOK, w2

LEMMA Reaching ==
  ASSUME NEW w \in WalkRecords, NEW q \in L!Places, NEW o \in L!Places
  PROVE /\ UpTo(q, o, w.dir) /\ Reached(o, w) => Reached(q, w)
        /\ Reached(q, w) /\ ~Reached(o, w) => Follows(o, q, w.dir)
<1>1. w.dir \in {1, -1} /\ w.after \in L!Places \cup {None}
  BY DEF WalkRecords
<1>2. \A q1, q2 \in L!Places : UpTo(q1, q2, w.dir) /\ Reached(q2, w) => Reached(q1, w)
  <2> SUFFICES ASSUME NEW q1 \in L!Places, NEW q2 \in L!Places, UpTo(q1, q2, w.dir), Reached(q2, w)
               PROVE Reached(q1, w)
    OBVIOUS
  <2>1. CASE UpTo(q2, w.after, w.dir)
    BY <1>1, <2>1, UpToSteps DEF Reached
  <2>2. CASE w.at \in {"rest", "opened"} /\ q2.p # "rest"
    <3>1. q1.p # "rest"
      BY <2>2, PlaceIs DEF UpTo, Follows, Half
    <3> QED
      BY <2>2, <3>1 DEF Reached
  <2> QED
    BY <2>1, <2>2 DEF Reached
<1>3. Reached(q, w) /\ ~Reached(o, w) => Follows(o, q, w.dir)
  BY <1>1, <1>2, UpToSteps
<1> QED
  BY <1>2, <1>3

\* The page so far with what the next query keeps of the batch.
Found(r, w) == w.out \o L!Only(w.batch, KeptNow(r, w))
InReach(q, w) ==
  \/ Reached(q, w)
  \/ q.p = BatchHalf(w) /\ (Len(w.batch) = BatchRows => ~Follows(q, w.batch[BatchRows], w.dir))

\* Everything that did not change is found as far as the batch goes.
LEMMA FoundIs ==
  ASSUME NEW r, NEW w, ListOK(r, w), w.at \in {"docs", "opened"}
  PROVE /\ Sound(Found(r, w), r, w) /\ Len(w.out) <= PageRows /\ Len(w.out) \in Nat
        /\ \A i \in 1..Len(Found(r, w)) :
             \/ Reached(Found(r, w)[i], w)
             \/ /\ \E j \in 1..Len(w.batch) : Found(r, w)[i] = w.batch[j]
                /\ Found(r, w)[i].p = BatchHalf(w) /\ ~Reached(Found(r, w)[i], w)
        /\ \A i \in 1..Len(Found(r, w)) : i > Len(w.out) => \E j \in 1..Len(w.batch) : Found(r, w)[i] = w.batch[j]
        /\ \A d \in Readable \ w.changed :
             r[d].in /\ InReach(Spot(r, w.sort, d), w) /\ ~UpTo(Spot(r, w.sort, d), w.cursor, w.dir)
               => \E i \in 1..Len(Found(r, w)) : Found(r, w)[i] = Spot(r, w.sort, d)
<1>1. /\ w \in WalkRecords /\ w.sort = "lastOpened" /\ w.dir \in {1, -1} /\ w.sort \in L!Sorts
      /\ w.cursor \in L!Places \cup {None} /\ w.batch \in Seq(L!Places) /\ w.out \in Seq(L!Places)
      /\ r \in [ListDocs -> RowRecords] /\ Readable \subseteq ListDocs
  BY ListAssumption DEF ListOK, ListTypes, WalkRecords
<1>2. /\ w.cursor # None => Reached(w.cursor, w)
      /\ Sound(w.out, r, w) /\ Len(w.out) <= PageRows
      /\ \A i \in 1..Len(w.out) : Reached(w.out[i], w)
      /\ \A d \in Readable \ w.changed :
           r[d].in /\ Reached(Spot(r, w.sort, d), w) /\ ~UpTo(Spot(r, w.sort, d), w.cursor, w.dir)
             => \E i \in 1..Len(w.out) : w.out[i] = Spot(r, w.sort, d)
  BY DEF ListOK, OutOK
<1>3. /\ Ordered(w.batch, w.dir) /\ Len(w.batch) <= BatchRows
      /\ \A i \in 1..Len(w.batch) :
           /\ w.batch[i].p = BatchHalf(w) /\ ~Reached(w.batch[i], w)
           /\ w.batch[i].id \in KeptNow(r, w) \ w.changed
                => w.batch[i] = Spot(r, w.sort, w.batch[i].id) /\ r[w.batch[i].id].in
  BY DEF ListOK, BatchOK
<1>4. \A d \in Readable \ w.changed :
        r[d].in /\ Spot(r, w.sort, d).p = BatchHalf(w) /\ ~Reached(Spot(r, w.sort, d), w)
          /\ (Len(w.batch) = BatchRows => ~Follows(Spot(r, w.sort, d), w.batch[BatchRows], w.dir))
            => \E i \in 1..Len(w.batch) : w.batch[i] = Spot(r, w.sort, d)
  BY DEF ListOK, BatchOK
<1> DEFINE D == KeptNow(r, w)
           t == L!Only(w.batch, D)
           f == Found(r, w)
           n == Len(w.out)
           m == Len(t)
<1>5. /\ t \in Seq(L!Places) /\ Ordered(t, w.dir)
      /\ \A i \in 1..m : t[i].id \in D /\ \E j \in 1..Len(w.batch) : w.batch[j] = t[i]
      /\ \A j \in 1..Len(w.batch) : w.batch[j].id \in D => \E i \in 1..m : t[i] = w.batch[j]
  BY <1>1, <1>3, OnlyIs
<1>6. f = w.out \o t
  BY DEF Found
<1> HIDE DEF t, f, D
<1>7. /\ f \in Seq(L!Places) /\ Len(f) = n + m /\ n \in Nat /\ m \in Nat
      /\ \A i \in 1..n : i \in 1..n + m /\ f[i] = w.out[i]
      /\ \A i \in 1..m : n + i \in 1..n + m /\ f[n + i] = t[i]
      /\ \A i \in 1..n + m : i \in 1..n \/ \E j \in 1..m : i = n + j
  BY <1>1, <1>5, <1>6, Joined
<1> HIDE DEF n, m
<1>8. \A j \in 1..m : /\ t[j] \in L!Places /\ t[j].p = BatchHalf(w) /\ ~Reached(t[j], w)
                      /\ t[j].id \notin w.changed => t[j] = Spot(r, w.sort, t[j].id) /\ r[t[j].id].in
                      /\ \E k \in 1..Len(w.batch) : t[j] = w.batch[k]
  <2> SUFFICES ASSUME NEW j \in 1..m
               PROVE /\ t[j] \in L!Places /\ t[j].p = BatchHalf(w) /\ ~Reached(t[j], w)
                     /\ t[j].id \notin w.changed => t[j] = Spot(r, w.sort, t[j].id) /\ r[t[j].id].in
                     /\ \E k \in 1..Len(w.batch) : t[j] = w.batch[k]
    OBVIOUS
  <2>1. PICK k \in 1..Len(w.batch) : w.batch[k] = t[j]
    BY <1>5
  <2>2. t[j] \in L!Places /\ t[j].id \in D
    BY <1>5 DEF m
  <2> QED
    BY <1>3, <2>1, <2>2 DEF D
<1>9. \A j \in 1..n : w.out[j] \in L!Places /\ Reached(w.out[j], w)
  BY <1>1, <1>2 DEF n
<1>10. BatchHalf(w) \in {"opened", "rest"} /\ Halves(w.sort) = {"opened", "rest"}
  BY <1>1 DEF BatchHalf, Halves
<1>11. Ordered(f, w.dir)
  <2> SUFFICES ASSUME NEW i \in 1..n + m, NEW j \in 1..n + m, i < j PROVE Follows(f[j], f[i], w.dir)
    <3>1. DOMAIN f = 1..n + m
      BY <1>7
    <3> QED
      BY <3>1 DEF Ordered
  <2>1. CASE i \in 1..n /\ j \in 1..n
    <3>1. DOMAIN w.out = 1..n
      BY <1>1 DEF n
    <3> QED
      BY <1>2, <1>7, <2>1, <3>1 DEF Ordered, Sound
  <2>2. ASSUME NEW k \in 1..m, i \in 1..n, j = n + k PROVE Follows(f[j], f[i], w.dir)
    <3>1. f[i] = w.out[i] /\ f[j] = t[k]
      BY <1>7, <2>2
    <3> QED
      BY <1>1, <1>8, <1>9, <2>2, <3>1, Reaching
  <2>3. ASSUME NEW h \in 1..m, NEW k \in 1..m, i = n + h, j = n + k PROVE Follows(f[j], f[i], w.dir)
    <3>1. f[i] = t[h] /\ f[j] = t[k] /\ h < k
      BY <1>7, <2>3
    <3>2. DOMAIN t = 1..m
      BY <1>5 DEF m
    <3> QED
      BY <1>5, <3>1, <3>2 DEF Ordered
  <2>4. ASSUME NEW h \in 1..m, i = n + h, j \in 1..n PROVE FALSE
    BY <1>7, <2>4
  <2> QED
    BY <1>7, <2>1, <2>2, <2>3, <2>4
<1>12. \A j \in 1..m : ~UpTo(t[j], w.cursor, w.dir)
  <2> SUFFICES ASSUME NEW j \in 1..m, UpTo(t[j], w.cursor, w.dir) PROVE FALSE
    OBVIOUS
  <2>1. w.cursor \in L!Places /\ Reached(w.cursor, w)
    BY <1>1, <1>2 DEF UpTo
  <2> QED
    BY <1>1, <1>8, <2>1, Reaching
<1>13. Sound(f, r, w)
  <2>1. ASSUME NEW i \in 1..n
        PROVE /\ f[i].p \in Halves(w.sort) /\ ~UpTo(f[i], w.cursor, w.dir)
              /\ f[i].id \notin w.changed => f[i] = Spot(r, w.sort, f[i].id) /\ r[f[i].id].in
    <3>1. f[i] = w.out[i]
      BY <1>7
    <3> QED
      BY <1>2, <3>1 DEF Sound, n
  <2>2. ASSUME NEW j \in 1..m
        PROVE /\ f[n + j].p \in Halves(w.sort) /\ ~UpTo(f[n + j], w.cursor, w.dir)
              /\ f[n + j].id \notin w.changed => f[n + j] = Spot(r, w.sort, f[n + j].id) /\ r[f[n + j].id].in
    <3>1. f[n + j] = t[j]
      BY <1>7
    <3> QED
      BY <1>8, <1>10, <1>12, <3>1
  <2>3. \A i \in 1..Len(f) : i \in 1..n \/ \E j \in 1..m : i = n + j
    BY <1>7
  <2>4. \A i \in 1..Len(f) : /\ f[i].p \in Halves(w.sort) /\ ~UpTo(f[i], w.cursor, w.dir)
                             /\ f[i].id \notin w.changed => f[i] = Spot(r, w.sort, f[i].id) /\ r[f[i].id].in
    BY <2>1, <2>2, <2>3
  <2> QED
    BY <1>7, <1>11, <2>4 DEF Sound
<1>14. \A i \in 1..Len(f) : \/ i \in 1..n /\ Reached(f[i], w)
                            \/ /\ \E j \in 1..Len(w.batch) : f[i] = w.batch[j]
                               /\ f[i].p = BatchHalf(w) /\ ~Reached(f[i], w)
  <2>1. \A i \in 1..n : Reached(f[i], w)
    BY <1>7, <1>9
  <2>2. ASSUME NEW j \in 1..m
        PROVE /\ \E k \in 1..Len(w.batch) : f[n + j] = w.batch[k]
              /\ f[n + j].p = BatchHalf(w) /\ ~Reached(f[n + j], w)
    <3>1. f[n + j] = t[j]
      BY <1>7
    <3> QED
      BY <1>8, <3>1
  <2>3. \A i \in 1..Len(f) : i \in 1..n \/ \E j \in 1..m : i = n + j
    BY <1>7
  <2> QED
    BY <2>1, <2>2, <2>3, Zenon
<1>15. \A i \in 1..Len(f) : i > n => \E j \in 1..Len(w.batch) : f[i] = w.batch[j]
  <2>1. \A i \in 1..n : ~(i > n)
    BY <1>7
  <2> QED
    BY <1>14, <2>1
<1>16. ASSUME NEW d \in Readable \ w.changed, r[d].in, InReach(Spot(r, w.sort, d), w),
              ~UpTo(Spot(r, w.sort, d), w.cursor, w.dir)
       PROVE \E i \in 1..Len(f) : f[i] = Spot(r, w.sort, d)
  <2>1. CASE Reached(Spot(r, w.sort, d), w)
    <3>1. PICK i \in 1..n : w.out[i] = Spot(r, w.sort, d)
      BY <1>2, <1>16, <2>1 DEF n
    <3> QED
      BY <1>7, <3>1
  <2>2. CASE ~Reached(Spot(r, w.sort, d), w)
    <3>1. Spot(r, w.sort, d).p = BatchHalf(w)
      BY <1>16, <2>2 DEF InReach
    <3>2. PICK j \in 1..Len(w.batch) : w.batch[j] = Spot(r, w.sort, d)
      BY <1>4, <1>16, <2>2, <3>1 DEF InReach
    <3>3. d \in ListDocs /\ Spot(r, w.sort, d).id = d /\ (Spot(r, w.sort, d).p = "opened" <=> r[d].opened > 0)
          /\ (r[d].opened > 0 <=> r[d].opened # 0)
      BY <1>1, SpotIs
    <3>4. d \in D
      BY <1>16, <3>1, <3>3 DEF D, KeptNow, BatchHalf
    <3>5. PICK i \in 1..m : t[i] = w.batch[j]
      BY <1>5, <3>2, <3>3, <3>4 DEF m
    <3> QED
      BY <1>7, <3>2, <3>5
  <2> QED
    BY <2>1, <2>2
<1> QED
  BY <1>2, <1>7, <1>13, <1>14, <1>15, <1>16 DEF f, n

\* What Collect makes of it: at most one more than a page.
Cut(r, w) == L!Take(Found(r, w), PageRows + 1)

LEMMA CutIs ==
  ASSUME NEW r, NEW w, ListOK(r, w), w.at \in {"docs", "opened"}
  PROVE /\ Sound(Cut(r, w), r, w) /\ Len(Cut(r, w)) \in Nat /\ Len(Found(r, w)) \in Nat
        /\ Len(Cut(r, w)) = IF Len(Found(r, w)) < PageRows + 1 THEN Len(Found(r, w)) ELSE PageRows + 1
        /\ \A i \in 1..Len(Cut(r, w)) : i \in 1..Len(Found(r, w)) /\ Cut(r, w)[i] = Found(r, w)[i]
        /\ Len(Cut(r, w)) < PageRows + 1 => Cut(r, w) = Found(r, w)
<1> DEFINE f == Found(r, w)
           s == Cut(r, w)
<1>1. Sound(f, r, w) /\ f \in Seq(L!Places) /\ PageRows \in Nat
  BY FoundIs, ListAssumption DEF Sound
<1>2. s = L!Take(f, PageRows + 1)
  BY DEF Cut
<1> HIDE DEF f, s
<1>3. /\ s \in Seq(L!Places) /\ Len(s) = (IF Len(f) < PageRows + 1 THEN Len(f) ELSE PageRows + 1)
      /\ \A i \in 1..Len(s) : i \in 1..Len(f) /\ s[i] = f[i]
  BY <1>1, <1>2, TakeIs
<1>4. Len(s) \in Nat /\ Len(f) \in Nat /\ DOMAIN s = 1..Len(s) /\ DOMAIN f = 1..Len(f)
  BY <1>1, <1>3
<1>5. Ordered(s, w.dir)
  BY <1>1, <1>3, <1>4 DEF Sound, Ordered
<1>6. Sound(s, r, w)
  <2>1. \A i \in 1..Len(s) : /\ s[i].p \in Halves(w.sort) /\ ~UpTo(s[i], w.cursor, w.dir)
                             /\ s[i].id \notin w.changed => s[i] = Spot(r, w.sort, s[i].id) /\ r[s[i].id].in
    BY <1>1, <1>3 DEF Sound
  <2> QED
    BY <1>3, <1>5, <2>1 DEF Sound
<1>7. Len(s) < PageRows + 1 => s = f
  <2> SUFFICES ASSUME Len(s) < PageRows + 1 PROVE s = f
    OBVIOUS
  <2>1. Len(s) = Len(f)
    BY <1>1, <1>3, <1>4
  <2> QED
    BY <1>1, <1>3, <2>1, SeqEqual
<1> QED
  BY <1>3, <1>4, <1>6, <1>7 DEF f, s

\* A full page, or the last one, misses nothing that did not change.
LEMMA CutComplete ==
  ASSUME NEW r, NEW w, ListOK(r, w), w.at \in {"docs", "opened"},
         Len(Cut(r, w)) < PageRows + 1 => w.at = "opened" /\ Len(w.batch) # BatchRows
  PROVE Complete(Cut(r, w), r, w)
<1> DEFINE f == Found(r, w)
           s == Cut(r, w)
           k == PageRows + 1
<1>1. /\ w \in WalkRecords /\ w.sort = "lastOpened" /\ w.dir \in {1, -1} /\ w.sort \in L!Sorts
      /\ r \in [ListDocs -> RowRecords] /\ w.batch \in Seq(L!Places)
      /\ PageRows \in Nat \ {0} /\ Readable \subseteq ListDocs /\ BatchRows \in Nat \ {0}
      /\ Ordered(w.batch, w.dir) /\ Len(w.batch) <= BatchRows
      /\ \A i \in 1..Len(w.batch) : w.batch[i].p = BatchHalf(w)
  BY ListAssumption DEF ListOK, ListTypes, WalkRecords, BatchOK
<1>2. /\ Sound(f, r, w) /\ Len(w.out) <= PageRows /\ Len(w.out) \in Nat
      /\ \A i \in 1..Len(f) : i > Len(w.out) => \E j \in 1..Len(w.batch) : f[i] = w.batch[j]
  BY FoundIs
<1>3. \A d \in Readable \ w.changed :
        r[d].in /\ InReach(Spot(r, w.sort, d), w) /\ ~UpTo(Spot(r, w.sort, d), w.cursor, w.dir)
          => \E i \in 1..Len(f) : f[i] = Spot(r, w.sort, d)
  BY FoundIs
<1>4. /\ Len(s) \in Nat /\ Len(f) \in Nat /\ Len(s) = (IF Len(f) < k THEN Len(f) ELSE k)
      /\ \A i \in 1..Len(s) : i \in 1..Len(f) /\ s[i] = f[i]
      /\ Len(s) < k => s = f
  BY CutIs
<1> HIDE DEF f, s
<1>5. f \in Seq(L!Places) /\ Ordered(f, w.dir) /\ DOMAIN f = 1..Len(f) /\ \A i \in 1..Len(f) : f[i] \in L!Places
  BY <1>2 DEF Sound
<1> SUFFICES ASSUME NEW d \in Readable \ w.changed, r[d].in, ~UpTo(Spot(r, w.sort, d), w.cursor, w.dir),
                    Len(s) > PageRows => ~Follows(Spot(r, w.sort, d), s[PageRows], w.dir)
             PROVE \E i \in 1..Len(s) : s[i] = Spot(r, w.sort, d)
  BY DEF Complete, s
<1> DEFINE q == Spot(r, w.sort, d)
<1>6. q \in L!Places /\ q.p \in {"opened", "rest"}
  BY <1>1, SpotIs DEF Halves
<1> HIDE DEF q
<1>7. CASE Len(s) < k
  <2>1. w.at = "opened" /\ Len(w.batch) # BatchRows /\ s = f
    BY <1>4, <1>7 DEF s
  <2>2. InReach(q, w)
    BY <1>6, <2>1 DEF InReach, Reached, BatchHalf
  <2> QED
    BY <1>3, <2>1, <2>2 DEF q
<1>8. CASE ~(Len(s) < k)
  <2>1. /\ Len(s) = k /\ k \in 1..Len(f) /\ PageRows \in 1..Len(f) /\ PageRows < k /\ k > Len(w.out)
        /\ s[PageRows] = f[PageRows] /\ Len(s) > PageRows
    BY <1>1, <1>2, <1>4, <1>8
  <2>2. ~Follows(q, f[PageRows], w.dir) /\ Follows(f[k], f[PageRows], w.dir)
    BY <1>5, <2>1 DEF Ordered, q
  <2>3. Follows(f[k], q, w.dir) /\ ~Follows(q, f[k], w.dir) /\ q # f[k]
    <3>1. f[k] \in L!Places /\ f[PageRows] \in L!Places
      BY <1>5, <2>1
    <3>2. q = f[PageRows] \/ Follows(f[PageRows], q, w.dir)
      BY <1>1, <1>6, <2>2, <3>1, FollowsOrders
    <3> QED
      BY <1>1, <1>6, <2>2, <3>1, <3>2, FollowsOrders
  <2>4. InReach(q, w)
    <3>1. CASE Reached(q, w)
      BY <3>1 DEF InReach
    <3>2. CASE ~Reached(q, w)
      <4>1. PICK j \in 1..Len(w.batch) : f[k] = w.batch[j]
        BY <1>2, <2>1
      <4>2. f[k].p = BatchHalf(w)
        BY <1>1, <4>1
      <4>3. q.p = BatchHalf(w)
        <5>1. CASE w.at = "docs"
          BY <1>6, <2>3, <4>2, <5>1 DEF Follows, Half, BatchHalf
        <5>2. CASE w.at = "opened"
          BY <3>2, <5>2 DEF Reached, BatchHalf
        <5> QED
          BY <5>1, <5>2
      <4>4. ASSUME Len(w.batch) = BatchRows PROVE ~Follows(q, w.batch[BatchRows], w.dir)
        <5>1. BatchRows \in 1..Len(w.batch) /\ j \in 1..BatchRows /\ DOMAIN w.batch = 1..Len(w.batch)
          BY <1>1, <4>4
        <5>2. j = BatchRows \/ j < BatchRows
          BY <1>1, <5>1
        <5>3. w.batch[BatchRows] = f[k] \/ Follows(w.batch[BatchRows], f[k], w.dir)
          BY <1>1, <4>1, <5>1, <5>2 DEF Ordered
        <5>4. w.batch[BatchRows] \in L!Places /\ f[k] \in L!Places
          BY <1>1, <1>5, <2>1, <5>1
        <5> QED
          BY <1>1, <1>6, <2>3, <5>3, <5>4, FollowsOrders
      <4> QED
        BY <4>3, <4>4 DEF InReach
    <3> QED
      BY <3>1, <3>2
  <2>5. PICK i \in 1..Len(f) : f[i] = q
    BY <1>3, <2>4 DEF q
  <2>6. i \in 1..Len(s)
    <3>1. ~(k < i)
      BY <1>5, <2>1, <2>3, <2>5 DEF Ordered
    <3> QED
      BY <1>1, <1>4, <2>1, <3>1
  <2> QED
    BY <1>4, <2>5, <2>6 DEF q
<1> QED
  BY <1>7, <1>8

\* The next query goes on where the batch ended, with what was found.
LEMMA RoundKeeps ==
  ASSUME NEW r, NEW w, ListOK(r, w), w.at \in {"docs", "opened"}, Len(Cut(r, w)) < PageRows + 1,
         NEW at \in Ats, NEW after \in L!Places \cup {None},
         \/ /\ Len(w.batch) = BatchRows /\ after = w.batch[BatchRows]
            /\ at = IF w.at = "docs" THEN "states" ELSE "rest"
         \/ Len(w.batch) # BatchRows /\ w.at = "docs" /\ after = None /\ at = "rest"
  PROVE ListOK(r, Collecting(w, at, Cut(r, w), after))
<1> DEFINE f == Found(r, w)
           w2 == Collecting(w, at, f, after)
<1>1. /\ w \in WalkRecords /\ w.sort = "lastOpened" /\ w.dir = -1 /\ w.dir \in {1, -1} /\ w.sort \in L!Sorts
      /\ w.cursor \in L!Places \cup {None} /\ w.batch \in Seq(L!Places) /\ ListTypes(r, w) /\ ListedOK(r, w)
      /\ r \in [ListDocs -> RowRecords] /\ Readable \subseteq ListDocs /\ PageRows \in Nat /\ BatchRows \in Nat \ {0}
      /\ Ordered(w.batch, w.dir) /\ Len(w.batch) <= BatchRows
      /\ \A i \in 1..Len(w.batch) : w.batch[i].p = BatchHalf(w)
  BY ListAssumption DEF ListOK, ListTypes, WalkRecords, BatchOK
<1>2. Cut(r, w) = f /\ Len(f) <= PageRows /\ Sound(f, r, w) /\ f \in Seq(L!Places)
  BY <1>1, CutIs, FoundIs DEF Sound
<1>3. /\ \A i \in 1..Len(f) : \/ Reached(f[i], w)
                              \/ /\ \E j \in 1..Len(w.batch) : f[i] = w.batch[j]
                                 /\ f[i].p = BatchHalf(w) /\ ~Reached(f[i], w)
      /\ \A d \in Readable \ w.changed :
           r[d].in /\ InReach(Spot(r, w.sort, d), w) /\ ~UpTo(Spot(r, w.sort, d), w.cursor, w.dir)
             => \E i \in 1..Len(f) : f[i] = Spot(r, w.sort, d)
  BY FoundIs
<1> HIDE DEF f
<1>4. GoesOn(w, w2) /\ w2.at = at /\ w2.after = after /\ w2.out = f
  BY <1>1, <1>2, CollectingIs
<1> HIDE DEF w2
<1>5. w2.sort = w.sort /\ w2.dir = w.dir /\ w2.cursor = w.cursor /\ w2.changed = w.changed
  BY <1>4 DEF GoesOn
<1>6. Len(w.batch) = BatchRows => BatchRows \in 1..Len(w.batch) /\ w.batch[BatchRows] \in L!Places
  BY <1>1
<1>7. at \in {"states", "rest"} /\ (after # None => after \in L!Places /\ after.p = BatchHalf(w)) /\ w.at # "done"
  BY <1>1, <1>6, PlaceIs
<1>8. ListTypes(r, w2)
  BY <1>1, <1>4, <1>5, <1>7 DEF ListTypes, GoesOn, BatchHalf
<1>9. ListedOK(r, w2)
  BY <1>1, <1>4, <1>7, ListedStays
<1>10. ASSUME NEW q \in L!Places, Reached(q, w), q.p \in {"opened", "rest"} PROVE Reached(q, w2)
  <2>1. CASE Len(w.batch) = BatchRows /\ after = w.batch[BatchRows] /\ at = IF w.at = "docs" THEN "states" ELSE "rest"
    <3>1. ~Reached(after, w) /\ after \in L!Places
      BY <1>6, <2>1 DEF ListOK, BatchOK
    <3>2. Follows(after, q, w.dir)
      BY <1>1, <1>10, <3>1, Reaching
    <3>3. UpTo(q, after, w.dir)
      BY <1>1, <3>1, <3>2, UpToSteps
    <3> QED
      BY <1>4, <1>5, <3>3 DEF Reached
  <2>2. CASE Len(w.batch) # BatchRows /\ w.at = "docs" /\ after = None /\ at = "rest"
    <3>1. UpTo(q, w.after, w.dir) /\ w.after.p = "opened" /\ w.after # None
      BY <1>1, <1>10, <2>2 DEF Reached, ListTypes, UpTo
    <3>2. q.p # "rest"
      BY <3>1 DEF UpTo, Follows, Half
    <3> QED
      BY <1>4, <2>2, <3>2 DEF Reached
  <2> QED
    BY <2>1, <2>2
<1>11. ASSUME NEW j \in 1..Len(w.batch) PROVE Reached(w.batch[j], w2)
  <2>1. CASE Len(w.batch) = BatchRows /\ after = w.batch[BatchRows] /\ at = IF w.at = "docs" THEN "states" ELSE "rest"
    <3>1. j = BatchRows \/ j < BatchRows
      BY <1>1, <2>1
    <3>2. w.batch[j] = after \/ Follows(after, w.batch[j], w.dir)
      BY <1>1, <1>6, <2>1, <3>1 DEF Ordered
    <3>3. UpTo(w.batch[j], after, w.dir)
      BY <1>1, <1>6, <2>1, <3>2, UpToSteps
    <3> QED
      BY <1>4, <1>5, <3>3 DEF Reached
  <2>2. CASE Len(w.batch) # BatchRows /\ w.at = "docs" /\ after = None /\ at = "rest"
    <3>1. w.batch[j].p = "opened"
      BY <1>1, <2>2 DEF BatchHalf
    <3> QED
      BY <1>4, <2>2, <3>1 DEF Reached
  <2> QED
    BY <2>1, <2>2
<1>12. ASSUME NEW q \in L!Places, q.p \in {"opened", "rest"}, Reached(q, w2) PROVE InReach(q, w)
  <2>1. CASE Reached(q, w)
    BY <2>1 DEF InReach
  <2>2. CASE ~Reached(q, w)
    <3>1. CASE w.at = "opened"
      <4>1. q.p = "rest" /\ BatchHalf(w) = "rest"
        BY <1>12, <2>2, <3>1 DEF Reached, BatchHalf
      <4>2. Len(w.batch) = BatchRows => ~Follows(q, w.batch[BatchRows], w.dir)
        BY <1>4, <1>5, <1>12, <3>1, <4>1 DEF Reached, UpTo
      <4> QED
        BY <4>1, <4>2 DEF InReach
    <3>2. CASE w.at = "docs" /\ Len(w.batch) = BatchRows
      <4>1. UpTo(q, w.batch[BatchRows], w.dir) /\ BatchHalf(w) = "opened" /\ w.batch[BatchRows].p = "opened"
        BY <1>1, <1>4, <1>5, <1>6, <1>12, <3>2 DEF Reached, BatchHalf
      <4>2. q.p = "opened"
        BY <1>12, <4>1 DEF UpTo, Follows, Half
      <4> QED
        BY <4>1, <4>2 DEF InReach, UpTo
    <3>3. CASE w.at = "docs" /\ Len(w.batch) # BatchRows
      <4>1. q.p = "opened" /\ BatchHalf(w) = "opened"
        BY <1>4, <1>12, <3>3 DEF Reached, BatchHalf, UpTo
      <4> QED
        BY <3>3, <4>1 DEF InReach
    <3> QED
      BY <3>1, <3>2, <3>3
  <2> QED
    BY <2>1, <2>2
<1>13. OutOK(r, w2)
  <2>1. w2.cursor # None => Reached(w2.cursor, w2)
    <3>1. w.cursor # None => Reached(w.cursor, w) /\ w.cursor \in L!Places /\ w.cursor.p \in {"opened", "rest"}
      BY <1>1 DEF ListOK, OutOK, ListTypes, Halves
    <3> QED
      BY <1>5, <1>10, <3>1
  <2>2. Sound(w2.out, r, w2) /\ Len(w2.out) <= PageRows
    BY <1>2, <1>4, <1>5 DEF Sound
  <2>3. \A i \in 1..Len(w2.out) : Reached(w2.out[i], w2)
    <3>1. \A i \in 1..Len(f) : f[i] \in L!Places /\ f[i].p \in {"opened", "rest"}
      BY <1>1, <1>2 DEF Sound, Halves
    <3> QED
      BY <1>3, <1>4, <1>10, <1>11, <3>1
  <2>4. ASSUME NEW d \in Readable \ w2.changed, r[d].in, Reached(Spot(r, w2.sort, d), w2),
               ~UpTo(Spot(r, w2.sort, d), w2.cursor, w2.dir)
        PROVE \E i \in 1..Len(w2.out) : w2.out[i] = Spot(r, w2.sort, d)
    <3>1. Spot(r, w.sort, d) \in L!Places /\ Spot(r, w.sort, d).p \in {"opened", "rest"}
      BY <1>1, SpotIs DEF Halves
    <3>2. InReach(Spot(r, w.sort, d), w)
      BY <1>5, <1>12, <2>4, <3>1
    <3> QED
      BY <1>3, <1>4, <1>5, <2>4, <3>2
  <2> QED
    BY <2>1, <2>2, <2>3, <2>4 DEF OutOK
<1>14. BatchOK(r, w2) /\ LoadedOK(r, w2)
  BY <1>4, <1>7 DEF BatchOK, LoadedOK
<1> QED
  BY <1>2, <1>8, <1>9, <1>13, <1>14 DEF ListOK, w2

LEMMA CollectKeeps ==
  ASSUME ListOK(row, walk), walk.at \in {"docs", "opened"},
         NEW again, again = IF walk.at = "docs" THEN "states" ELSE "rest",
         NEW end, end = IF walk.at = "docs" THEN "rest" ELSE "answer",
         L!Collect(KeptNow(row, walk), again, end)
  PROVE ListOK(row, walk')
<1> DEFINE s == Cut(row, walk)
<1>1. /\ s = L!Take(walk.out \o L!Only(walk.batch, KeptNow(row, walk)), L!Want) /\ L!Want = PageRows + 1
      /\ Len(s) \in Nat /\ s \in Seq(L!Places) /\ Sound(s, row, walk)
  BY CutIs DEF Cut, Found, L!Want, Sound
<1>2. /\ ListTypes(row, walk) /\ ListedOK(row, walk) /\ walk \in WalkRecords /\ walk.batch \in Seq(L!Places)
      /\ BatchRows \in Nat \ {0}
  BY ListAssumption DEF ListOK, ListTypes, WalkRecords
<1> HIDE DEF s
<1>3. \/ Len(s) < PageRows + 1 /\ Len(walk.batch) = BatchRows /\ walk' = Collecting(walk, again, s, walk.batch[BatchRows])
      \/ /\ Len(s) < PageRows + 1 /\ Len(walk.batch) # BatchRows /\ end = "rest"
         /\ walk' = Collecting(walk, "rest", s, None)
      \/ L!Answer(s) /\ (Len(s) < PageRows + 1 => Len(walk.batch) # BatchRows /\ end # "rest")
  BY <1>1 DEF L!Collect, Collecting
<1>4. CASE Len(s) < PageRows + 1 /\ Len(walk.batch) = BatchRows
           /\ walk' = Collecting(walk, again, s, walk.batch[BatchRows])
  <2>1. again \in Ats /\ walk.batch[BatchRows] \in L!Places \cup {None}
    BY <1>2, <1>4 DEF Ats
  <2>2. ListOK(row, Collecting(walk, again, Cut(row, walk), walk.batch[BatchRows]))
    BY <1>4, <2>1, RoundKeeps DEF s
  <2> QED
    BY <1>4, <2>2 DEF s
<1>5. CASE Len(s) < PageRows + 1 /\ Len(walk.batch) # BatchRows /\ end = "rest"
           /\ walk' = Collecting(walk, "rest", s, None)
  <2>1. "rest" \in Ats /\ walk.at = "docs" /\ None \in L!Places \cup {None}
    BY <1>5 DEF Ats
  <2>2. ListOK(row, Collecting(walk, "rest", Cut(row, walk), None))
    BY <1>5, <2>1, RoundKeeps DEF s
  <2> QED
    BY <1>5, <2>2 DEF s
<1>6. CASE L!Answer(s) /\ (Len(s) < PageRows + 1 => Len(walk.batch) # BatchRows /\ end # "rest")
  <2>1. Complete(s, row, walk)
    BY <1>6, CutComplete DEF s
  <2>2. walk' = Answered(walk, s)
    BY <1>1, <1>6, AnswerIs
  <2> QED
    BY <1>1, <1>2, <2>1, <2>2, AnswerKeeps
<1> QED
  BY <1>3, <1>4, <1>5, <1>6

LEMMA KeepKeeps == ASSUME ListOK(row, walk), L!KeepInView \/ L!KeepUnopened PROVE ListOK(row, walk')
<1>1. CASE L!KeepInView
  <2>1. walk.at = "docs" /\ L!Collect(L!InView, "states", "rest")
    BY <1>1 DEF L!KeepInView
  <2>2. L!InView = KeptNow(row, walk)
    BY <2>1 DEF L!InView, KeptNow
  <2> QED
    BY <2>1, <2>2, CollectKeeps
<1>2. CASE L!KeepUnopened
  <2>1. walk.at = "opened" /\ L!Collect(ListDocs \ L!Opened, "rest", "answer")
    BY <1>2 DEF L!KeepUnopened
  <2>2. \A d \in ListDocs : row[d].opened \in Nat
    BY RowIs DEF ListOK, ListTypes
  <2>3. \A d \in ListDocs : ~(row[d].opened > 0) <=> row[d].opened = 0
    BY <2>2
  <2>4. ListDocs \ L!Opened = KeptNow(row, walk)
    BY <2>1, <2>3 DEF L!Opened, KeptNow
  <2> QED
    BY <2>1, <2>4, CollectKeeps
<1> QED
  BY <1>1, <1>2

\* The reading w after a change of d.
Touched(w, d) == [w EXCEPT !.changed = @ \cup {d}, !.changes = @ + 1]

LEMMA TouchedIs ==
  ASSUME NEW w \in WalkRecords, NEW d \in ListDocs
  PROVE LET w2 == Touched(w, d) IN
        /\ w2 \in WalkRecords /\ w2.changed = w.changed \cup {d}
        /\ w2.sort = w.sort /\ w2.dir = w.dir /\ w2.at = w.at /\ w2.cursor = w.cursor /\ w2.after = w.after
        /\ w2.batch = w.batch /\ w2.out = w.out /\ w2.loaded = w.loaded /\ w2.listed = w.listed
<1>1. PICK changed \in SUBSET ListDocs, n \in Nat : changed = w.changed \cup {d} /\ n = w.changes + 1
  <2>1. w.changed \in SUBSET ListDocs /\ w.changes \in Nat
    BY DEF WalkRecords
  <2>2. w.changed \cup {d} \in SUBSET ListDocs /\ w.changes + 1 \in Nat
    BY <2>1
  <2> QED
    BY <2>2
<1> DEFINE w1 == [w EXCEPT !.changed = changed]
           w2 == [w1 EXCEPT !.changes = n]
<1>2. Touched(w, d) = w2
  BY <1>1 DEF Touched
<1>3. /\ w1 \in WalkRecords /\ w1.changed = changed /\ w1.changes = w.changes
      /\ w1.sort = w.sort /\ w1.dir = w.dir /\ w1.at = w.at /\ w1.cursor = w.cursor /\ w1.after = w.after
      /\ w1.batch = w.batch /\ w1.out = w.out /\ w1.loaded = w.loaded /\ w1.listed = w.listed
  BY DEF WalkRecords
<1> HIDE DEF w1
<1>4. /\ w2 \in WalkRecords /\ w2.changed = w1.changed
      /\ w2.sort = w1.sort /\ w2.dir = w1.dir /\ w2.at = w1.at /\ w2.cursor = w1.cursor /\ w2.after = w1.after
      /\ w2.batch = w1.batch /\ w2.out = w1.out /\ w2.loaded = w1.loaded /\ w2.listed = w1.listed
  BY <1>3 DEF WalkRecords
<1> QED
  BY <1>1, <1>2, <1>3, <1>4

\* Nothing is asked of a document that changes.
LEMMA ChangeKeeps ==
  ASSUME ListOK(row, walk), NEW d \in ListDocs, NEW new \in RowRecords, L!Change(d, new)
  PROVE ListOK(row', walk')
<1>1. row' = [row EXCEPT ![d] = new] /\ walk' = Touched(walk, d)
  BY DEF L!Change, Touched
<1>2. /\ row \in [ListDocs -> RowRecords] /\ walk \in WalkRecords /\ ListTypes(row, walk) /\ ListedOK(row, walk)
      /\ OutOK(row, walk) /\ BatchOK(row, walk) /\ LoadedOK(row, walk)
  BY DEF ListOK, ListTypes
<1>3. /\ walk' \in WalkRecords /\ walk'.changed = walk.changed \cup {d}
      /\ walk'.sort = walk.sort /\ walk'.dir = walk.dir /\ walk'.at = walk.at /\ walk'.cursor = walk.cursor
      /\ walk'.after = walk.after /\ walk'.batch = walk.batch /\ walk'.out = walk.out /\ walk'.loaded = walk.loaded
      /\ walk'.listed = walk.listed
  BY <1>1, <1>2, TouchedIs
<1>4. row' \in [ListDocs -> RowRecords] /\ \A e \in ListDocs \ walk'.changed : row'[e] = row[e] /\ e \notin walk.changed
  BY <1>1, <1>2, <1>3
<1>5. \A e \in ListDocs \ walk'.changed : Spot(row', walk'.sort, e) = Spot(row, walk.sort, e)
  BY <1>3, <1>4 DEF Spot
<1>6. Readable \subseteq ListDocs
  BY ListAssumption
<1>7. /\ \A i \in 1..Len(walk.listed) : walk.listed[i] \in ListDocs
      /\ \A i \in 1..Len(walk.out) : walk.out[i].id \in ListDocs
      /\ \A i \in 1..Len(walk.batch) : walk.batch[i].id \in ListDocs
  <2>1. walk.listed \in Seq(Readable) /\ walk.out \in Seq(L!Places) /\ walk.batch \in Seq(L!Places)
    BY <1>2 DEF WalkRecords
  <2> QED
    BY <1>6, <2>1, PlaceIs
<1>8. \A q : (Reached(q, walk') <=> Reached(q, walk)) /\ BatchHalf(walk') = BatchHalf(walk)
  BY <1>3 DEF Reached, BatchHalf
<1>9. ListTypes(row', walk')
  BY <1>2, <1>3, <1>4 DEF ListTypes
<1>10. ListedOK(row', walk')
  <2>1. \A e \in Readable \ walk'.changed : row'[e] = row[e] /\ Spot(row', walk'.sort, e) = Spot(row, walk.sort, e)
    BY <1>4, <1>5, <1>6
  <2>2. \A i, j \in 1..Len(walk'.listed) :
          i < j /\ walk'.listed[i] \notin walk'.changed /\ walk'.listed[j] \notin walk'.changed
            => Follows(Spot(row', walk'.sort, walk'.listed[j]), Spot(row', walk'.sort, walk'.listed[i]), walk'.dir)
    BY <1>2, <1>3, <1>4, <1>5, <1>7 DEF ListedOK
  <2>3. walk'.at # "done" => \A i \in 1..Len(walk'.listed) :
          walk'.listed[i] \notin walk'.changed => UpTo(Spot(row', walk'.sort, walk'.listed[i]), walk'.cursor, walk'.dir)
    BY <1>2, <1>3, <1>4, <1>5, <1>7 DEF ListedOK
  <2>4. \A e \in Readable \ walk'.changed :
          row'[e].in /\ (walk'.at = "done" \/ UpTo(Spot(row', walk'.sort, e), walk'.cursor, walk'.dir))
            => \E i \in 1..Len(walk'.listed) : walk'.listed[i] = e
    BY <1>2, <1>3, <1>4, <1>6, <2>1 DEF ListedOK
  <2> QED
    BY <2>2, <2>3, <2>4 DEF ListedOK
<1>11. OutOK(row', walk')
  <2> SUFFICES ASSUME walk.at \in {"states", "docs", "rest", "opened"} PROVE OutOK(row', walk')
    BY <1>3 DEF OutOK
  <2>1. Sound(walk'.out, row', walk')
    <3>1. Sound(walk.out, row, walk)
      BY <1>2 DEF OutOK
    <3> QED
      BY <1>3, <1>4, <1>5, <1>7, <3>1 DEF Sound
  <2>2. \A e \in Readable \ walk'.changed :
          row'[e].in /\ Reached(Spot(row', walk'.sort, e), walk') /\ ~UpTo(Spot(row', walk'.sort, e), walk'.cursor, walk'.dir)
            => \E i \in 1..Len(walk'.out) : walk'.out[i] = Spot(row', walk'.sort, e)
    BY <1>2, <1>3, <1>4, <1>5, <1>6, <1>8 DEF OutOK
  <2> QED
    BY <1>2, <1>3, <1>8, <2>1, <2>2 DEF OutOK
<1>12. BatchOK(row', walk')
  <2> SUFFICES ASSUME walk.at \in {"docs", "opened"} PROVE BatchOK(row', walk')
    BY <1>3 DEF BatchOK
  <2>1. \A e \in ListDocs \ walk'.changed : e \in KeptNow(row', walk') <=> e \in KeptNow(row, walk)
    BY <1>3, <1>4 DEF KeptNow
  <2>2. \A i \in 1..Len(walk'.batch) :
          /\ walk'.batch[i].p = BatchHalf(walk') /\ ~Reached(walk'.batch[i], walk')
          /\ walk'.batch[i].id \in KeptNow(row', walk') \ walk'.changed
               => walk'.batch[i] = Spot(row', walk'.sort, walk'.batch[i].id) /\ row'[walk'.batch[i].id].in
    BY <1>2, <1>3, <1>4, <1>5, <1>7, <1>8, <2>1 DEF BatchOK
  <2>3. ASSUME NEW e \in Readable \ walk'.changed, row'[e].in, NEW q, q = Spot(row', walk'.sort, e),
               q.p = BatchHalf(walk'), ~Reached(q, walk'),
               Len(walk'.batch) = BatchRows => ~Follows(q, walk'.batch[BatchRows], walk'.dir)
        PROVE \E i \in 1..Len(walk'.batch) : walk'.batch[i] = q
    BY <1>2, <1>3, <1>4, <1>5, <1>6, <1>8, <2>3 DEF BatchOK
  <2> QED
    BY <1>2, <1>3, <2>2, <2>3 DEF BatchOK
<1>13. LoadedOK(row', walk')
  BY <1>2, <1>3, <1>4 DEF LoadedOK
<1> QED
  BY <1>9, <1>10, <1>11, <1>12, <1>13 DEF ListOK

LEMMA ListStep == ASSUME ListOK(row, walk), [MCNext]_allVars PROVE ListOK(row', walk')
<1>1. CASE L!Read
  <2>1. row' = row
    BY <1>1 DEF L!Read, L!FieldPage, L!MemoryPage, L!MemoryTimes, L!LastOpened, L!ReadStates, L!KeepInView, L!ReadRest,
                L!KeepUnopened
  <2>2. ListOK(row, walk')
    BY <1>1, FieldPageKeeps, MemoryPageKeeps, MemoryTimesKeeps, LastOpenedKeeps, ReadStatesKeeps, ReadRestKeeps, KeepKeeps
       DEF L!Read
  <2> QED
    BY <2>1, <2>2
<1>2. CASE \E d \in ListDocs : L!Edit(d) \/ L!Open(d) \/ L!MoveInOrOut(d)
  <2>1. PICK d \in ListDocs : L!Edit(d) \/ L!Open(d) \/ L!MoveInOrOut(d)
    BY <1>2
  <2>2. row[d] \in RowRecords
    BY DEF ListOK, ListTypes
  <2>3. \A k \in SortKeys : /\ [row[d] EXCEPT !.key = k] \in RowRecords
                            /\ [row[d] EXCEPT !.opened = k] \in RowRecords
                            /\ [row[d] EXCEPT !.in = ~@] \in RowRecords
    BY <2>2 DEF RowRecords
  <2>4. [row[d] EXCEPT !.in = ~@] \in RowRecords
    BY <2>2 DEF RowRecords
  <2>5. PICK new \in RowRecords : L!Change(d, new)
    BY <2>1, <2>3, <2>4 DEF L!Edit, L!Open, L!MoveInOrOut
  <2> QED
    BY <2>5, ChangeKeeps
<1>3. CASE UNCHANGED listVars
  BY <1>3 DEF listVars
<1>4. L!Next \/ UNCHANGED listVars
  BY Zenon DEF MCNext, allVars
<1>5. L!Next => L!Read \/ \E d \in ListDocs : L!Edit(d) \/ L!Open(d) \/ L!MoveInOrOut(d)
  BY Zenon DEF L!Next
<1> QED
  BY <1>1, <1>2, <1>3, <1>4, <1>5

ListInv == ListOK(row, walk)

LEMMA ListAlways == MCSpec => []ListInv
<1>1. MCInit => ListInv
  BY ListStarts DEF MCInit, ListInv
<1>2. ListInv /\ [MCNext]_allVars => ListInv'
  BY ListStep DEF ListInv
<1> QED
  BY <1>1, <1>2, PTL DEF MCSpec

LEMMA ListTypesFit == ASSUME ListOK(row, walk) PROVE L!TypeOK
<1>1. row \in [ListDocs -> RowRecords] /\ walk \in WalkRecords
  BY DEF ListOK, ListTypes
<1>2. row \in [ListDocs -> [in : BOOLEAN, key : SortKeys, opened : SortKeys \cup {0}]]
  BY <1>1 DEF RowRecords
<1> QED
  BY <1>1, <1>2 DEF L!TypeOK, WalkRecords

\* Before is the order of the places.
LEMMA BeforeIs ==
  ASSUME ListOK(row, walk), NEW d \in ListDocs, NEW e \in ListDocs,
         Follows(Spot(row, walk.sort, e), Spot(row, walk.sort, d), walk.dir)
  PROVE L!Before(d, e)
<1>1. /\ row \in [ListDocs -> RowRecords] /\ walk.sort \in L!Sorts /\ walk.dir \in {1, -1}
      /\ (walk.sort = "lastOpened" => walk.dir = -1)
  BY DEF ListOK, ListTypes, WalkRecords
<1>2. PICK sort \in L!Sorts : sort = walk.sort
  BY <1>1
<1>3. \A o \in ListDocs :
        /\ sort \in {"field", "memoryField"} => Spot(row, sort, o) = L!KeyOf(o, "field")
        /\ sort = "memoryOpened" \/ (sort = "lastOpened" /\ row[o].opened > 0) => Spot(row, sort, o) = L!OpenOf(o)
        /\ sort = "lastOpened" /\ ~(row[o].opened > 0) => Spot(row, sort, o) = L!KeyOf(o, "rest")
        /\ (o \in L!Opened <=> row[o].opened > 0)
  BY <1>1, SpotIs DEF L!KeyOf, L!OpenOf, L!Place, L!Opened
<1>4. \A o \in ListDocs : /\ L!KeyOf(o, "field").p = "field" /\ L!OpenOf(o).p = "opened" /\ L!KeyOf(o, "rest").p = "rest"
  BY DEF L!KeyOf, L!OpenOf, L!Place
<1>5. Follows(Spot(row, sort, e), Spot(row, sort, d), walk.dir)
  BY <1>2
<1>6. CASE sort \in {"field", "memoryField"}
  <2>1. L!Beyond(L!KeyOf(e, "field"), L!KeyOf(d, "field"), walk.dir)
    BY <1>3, <1>4, <1>5, <1>6 DEF Follows, Half
  <2> QED
    BY <1>2, <1>6, <2>1 DEF L!Before
<1>7. CASE sort = "memoryOpened"
  <2>1. L!Beyond(L!OpenOf(e), L!OpenOf(d), walk.dir)
    BY <1>3, <1>4, <1>5, <1>7 DEF Follows, Half
  <2> QED
    BY <1>2, <1>7, <2>1 DEF L!Before
<1>8. CASE sort = "lastOpened"
  <2>1. CASE row[d].opened > 0 /\ row[e].opened > 0
    <3>1. L!Beyond(L!OpenOf(e), L!OpenOf(d), -1)
      BY <1>1, <1>2, <1>3, <1>4, <1>5, <1>8, <2>1 DEF Follows, Half
    <3> QED
      BY <1>2, <1>3, <1>8, <2>1, <3>1 DEF L!Before
  <2>2. CASE row[d].opened > 0 /\ ~(row[e].opened > 0)
    <3>1. row[d].opened \in Nat /\ row[e].opened \in Nat /\ row[e].opened = 0
      <4>1. row[d].opened \in Nat /\ row[e].opened \in Nat
        BY <1>1, RowIs
      <4> QED
        BY <2>2, <4>1
    <3>2. L!Beyond(L!OpenOf(e), L!OpenOf(d), -1)
      BY <2>2, <3>1 DEF L!Beyond, L!OpenOf, L!Place
    <3> QED
      BY <1>2, <1>3, <1>8, <2>2, <3>2 DEF L!Before
  <2>3. CASE ~(row[d].opened > 0) /\ row[e].opened > 0
    BY <1>3, <1>4, <1>5, <1>8, <2>3 DEF Follows, Half
  <2>4. CASE ~(row[d].opened > 0) /\ ~(row[e].opened > 0)
    <3>1. L!Beyond(L!KeyOf(e, "rest"), L!KeyOf(d, "rest"), -1)
      BY <1>1, <1>2, <1>3, <1>4, <1>5, <1>8, <2>4 DEF Follows, Half
    <3>2. {d, e} \cap L!Opened = {}
      BY <1>3, <2>4
    <3> QED
      BY <1>2, <1>8, <3>1, <3>2 DEF L!Before
  <2> QED
    BY <2>1, <2>2, <2>3, <2>4
<1> QED
  BY <1>6, <1>7, <1>8 DEF L!Sorts

LEMMA ListedFromList == ASSUME ListOK(row, walk) PROVE L!ListedOnceInOrder
<1>1. /\ row \in [ListDocs -> RowRecords] /\ walk.sort \in L!Sorts /\ walk.dir \in {1, -1}
      /\ walk.listed \in Seq(Readable) /\ ListedOK(row, walk) /\ Readable \subseteq ListDocs
  BY ListAssumption DEF ListOK, ListTypes, WalkRecords
<1>2. /\ Len(walk.listed) \in Nat /\ DOMAIN walk.listed = 1..Len(walk.listed)
      /\ \A i \in 1..Len(walk.listed) : walk.listed[i] \in Readable
  BY <1>1
<1>3. ASSUME NEW d \in Readable \ walk.changed
      PROVE L!Times(d) <= 1 /\ (walk.at = "done" /\ row[d].in => L!Times(d) = 1)
  <2> DEFINE I == {i \in DOMAIN walk.listed : walk.listed[i] = d}
  <2>1. L!Times(d) = Cardinality(I)
    BY DEF L!Times, L!Cardinality, Cardinality
  <2>2. \A i, j \in I : i = j
    <3>1. ASSUME NEW i \in I, NEW j \in I, i < j PROVE FALSE
      <4>1. Follows(Spot(row, walk.sort, d), Spot(row, walk.sort, d), walk.dir)
        BY <1>1, <1>2, <3>1 DEF ListedOK
      <4>2. Spot(row, walk.sort, d) \in L!Places
        BY <1>1, SpotIs
      <4> QED
        BY <1>1, <4>1, <4>2, FollowsOrders
    <3>2. \A i, j \in I : i \in Nat /\ j \in Nat
      BY <1>2
    <3> QED
      BY <3>1, <3>2
  <2>3. CASE I = {}
    <3>1. L!Times(d) = 0
      BY <2>1, <2>3, FS_EmptySet
    <3>2. ~(walk.at = "done" /\ row[d].in)
      BY <1>1, <1>2, <2>3 DEF ListedOK
    <3> QED
      BY <3>1, <3>2
  <2>4. CASE I # {}
    <3>1. PICK i \in I : TRUE
      BY <2>4
    <3>2. I = {i}
      BY <2>2, <3>1
    <3>3. L!Times(d) = 1
      BY <2>1, <3>2, FS_Singleton
    <3> QED
      BY <3>3
  <2> QED
    BY <2>3, <2>4
<1>4. ASSUME NEW i \in DOMAIN walk.listed, NEW j \in DOMAIN walk.listed, i < j,
             {walk.listed[i], walk.listed[j]} \cap walk.changed = {}
      PROVE L!Before(walk.listed[i], walk.listed[j])
  <2>1. Follows(Spot(row, walk.sort, walk.listed[j]), Spot(row, walk.sort, walk.listed[i]), walk.dir)
    BY <1>1, <1>2, <1>4 DEF ListedOK
  <2>2. walk.listed[i] \in ListDocs /\ walk.listed[j] \in ListDocs
    BY <1>1, <1>2
  <2> QED
    BY <2>1, <2>2, BeforeIs
<1> QED
  BY <1>3, <1>4 DEF L!ListedOnceInOrder

-----------------------------------------------------------------------------
\* However documents are edited, opened and moved between the queries, one that stays as it is is listed
\* once and in its place (library.ts keysetAfter, lastOpenedPage).
THEOREM ListedStaysInOrder == MCSpec => []ListedOnceInOrder
<1>1. ListInv => ListedOnceInOrder
  BY ListedFromList DEF ListedOnceInOrder, ListInv
<1> QED
  BY <1>1, ListAlways, PTL

-----------------------------------------------------------------------------
\* Every variable of pages, tags, workspaces, lists, migrations and of the browser's library keeps its kind.
THEOREM RecordsTyped ==
  MCSpec => [](part \in {"pages", "tags", "tagRaces", "spaces", "list", "cache", "bar", "db"} => TypesOK)
<1>1. MCInit => IInv
  BY InitHolds DEF MCInit
<1>2. IInv /\ [MCNext]_allVars => IInv'
  <2>1. [MCNext]_allVars => [Next]_vars
    BY Zenon DEF MCNext, allVars
  <2> QED
    BY <2>1, NextHolds
<1>3. MCSpec => []IInv
  BY <1>1, <1>2, PTL DEF MCSpec
<1>4. IInv /\ TagsInv /\ SpacesInv /\ ListInv /\ CacheInv /\ SidebarInv /\ MigrationsInv
        => (part \in {"pages", "tags", "tagRaces", "spaces", "list", "cache", "bar", "db"} => TypesOK)
  <2> SUFFICES ASSUME IInv, TagsInv, SpacesInv, ListInv, CacheInv, SidebarInv, MigrationsInv,
                      part \in {"pages", "tags", "tagRaces", "spaces", "list", "cache", "bar", "db"}
               PROVE TypesOK
    OBVIOUS
  <2>1. TypeOK /\ T!TypeOK /\ W!TypeOK
    BY SpaceTypesFit DEF IInv, TagsInv, SpacesInv
  <2>2. B!TypeOK /\ S!TypeOK /\ M!TypeOK
    BY CacheTypesFit, SidebarTypesFit, MigrationTypesFit DEF CacheInv, SidebarInv, MigrationsInv
  <2>3. L!TypeOK
    BY ListTypesFit DEF ListInv
  <2> QED
    BY <2>1, <2>2, <2>3 DEF TypesOK
<1> QED
  BY <1>3, <1>4, TagsAlways, SpacesAlways, ListAlways, CacheAlways, SidebarAlways, MigrationsAlways, PTL
=============================================================================
