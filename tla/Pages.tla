-------------------------------- MODULE Pages -------------------------------
(***************************************************************************)
(* The pages of one document (packages/db pages.ts, packages/schema        *)
(* order.ts): they are read, an order key is worked out, then a            *)
(* transaction writes, while other requests insert, move, lock and remove  *)
(* pages and the document is purged.                                       *)
(*                                                                         *)
(* An order key is a number up to Top here.  keyBetween gives the same key *)
(* to whoever asks for the same two neighbours, as the library the code    *)
(* uses does.  Strings never run out between two keys; where the numbers   *)
(* do, a request is not made (Room).                                       *)
(***************************************************************************)
EXTENDS Integers, FiniteSets

CONSTANTS PageIds,  \* page ids, numbers: ties between keys are broken by them
          First,    \* the page the document is created with
          Lockable, \* the pages an owner may come to lock
          Top,      \* order keys are 0..Top
          Gap,      \* the distance to a key at the end or the start
          Procs, None

ASSUME PageAssumption == PageIds \subseteq Nat /\ First \in PageIds /\ None \notin PageIds
ASSUME KeyAssumption == Gap \in Nat \ {0} /\ Top \in Nat

VARIABLES page,   \* page records
          doc,    \* the document: there or purged, and its pageCount
          req     \* what each request is doing

vars == <<page, doc, req>>

NoPage == [status |-> "none", key |-> 0, locked |-> FALSE]
Live(p) == page[p].status = "live"
LivePages == {p \in PageIds : Live(p)}

\* `page` is the page a request moves or removes, None for an insert; `key` is the new key.
Idle == [at |-> "idle", page |-> None, key |-> 0, fault |-> FALSE]

-----------------------------------------------------------------------------
\* Order keys.

\* keyBetween: None for no neighbour on that side.
KeyBetween(before, after) ==
  CASE before = None /\ after = None -> Top \div 2
    [] before # None /\ after = None -> before + Gap
    [] before = None /\ after # None -> after - Gap
    [] OTHER -> (before + after) \div 2

\* assertOrdered throws a RangeError.
OutOfOrder(before, after) == before # None /\ after # None /\ before >= after

\* There is a number left for the key.
Room(before, after) ==
  /\ KeyBetween(before, after) \in 0..Top
  /\ before # None /\ after # None => after - before # 1

\* compareByOrder.
Precedes(p, q) == page[p].key < page[q].key \/ (page[p].key = page[q].key /\ p < q)
FirstOf(S) == CHOOSE p \in S : \A q \in S \ {p} : Precedes(p, q)

\* The pages after the anchor, in keyAfter's list of the others; all of them for the start.
After(others, anchor) == IF anchor = None THEN others ELSE {q \in others : Precedes(anchor, q)}

\* (Mutant: the first page after the anchor, whatever its key.)
NextOf(others, anchor) ==
  IF After(others, anchor) = {} THEN None ELSE page[FirstOf(After(others, anchor))].key

\* The neighbour on the right: the first page after the anchor whose key differs from its key.
NextKey(others, anchor) ==
  LET right == {q \in After(others, anchor) : anchor = None \/ page[q].key > page[anchor].key} IN
  IF right = {} THEN None ELSE page[FirstOf(right)].key

\* keyAfter, and whether keyBetween throws.
Before(anchor) == IF anchor = None THEN None ELSE page[anchor].key
Placed(p, others, anchor) ==
  /\ anchor = None \/ anchor \in others
  /\ Room(Before(anchor), NextKey(others, anchor))
  /\ req' = [req EXCEPT ![p].at = "write", ![p].key = KeyBetween(Before(anchor), NextKey(others, anchor)),
                        ![p].fault = OutOfOrder(Before(anchor), NextKey(others, anchor))]

Finish(p) == req' = [req EXCEPT ![p] = Idle]

Init ==
  /\ page = [p \in PageIds |-> IF p # First THEN NoPage ELSE
                               [status |-> "live", key |-> Top \div 2, locked |-> FALSE]]
  /\ doc = [there |-> TRUE, pageCount |-> 1]
  /\ req = [p \in Procs |-> Idle]

-----------------------------------------------------------------------------
\* Inserting: authorized while the document is there; the pages are read, then both are written.

InsertAuthorize(p) ==
  /\ req[p] = Idle
  /\ doc.there
  /\ req' = [req EXCEPT ![p].at = "insert"]
  /\ UNCHANGED <<page, doc>>

InsertRead(p, anchor) ==
  /\ req[p].at = "insert"
  /\ Placed(p, LivePages, anchor)
  /\ UNCHANGED <<page, doc>>

\* The anchor is not in this document, or keyBetween threw.
Refuse(p) ==
  /\ req[p].at = "insert" \/ req[p].at = "move" \/ (req[p].at = "write" /\ req[p].fault)
  /\ Finish(p)
  /\ UNCHANGED <<page, doc>>

\* insertOne, and $inc of a document that may be gone.
InsertWrite(p, new) ==
  /\ req[p].at = "write" /\ ~req[p].fault /\ req[p].page = None
  /\ page[new] = NoPage
  /\ page' = [page EXCEPT ![new] = [status |-> "live", key |-> req[p].key, locked |-> FALSE]]
  /\ doc' = IF doc.there THEN [doc EXCEPT !.pageCount = @ + 1] ELSE doc
  /\ Finish(p)

-----------------------------------------------------------------------------
\* Moving: a locked page stays put for editors (decidePage); the update is by id.

MoveAuthorize(p, moved, owner) ==
  /\ req[p] = Idle
  /\ doc.there /\ Live(moved) /\ (page[moved].locked => owner)
  /\ req' = [req EXCEPT ![p].at = "move", ![p].page = moved]
  /\ UNCHANGED <<page, doc>>

MoveRead(p, anchor) ==
  /\ req[p].at = "move"
  /\ anchor # req[p].page
  /\ Placed(p, LivePages \ {req[p].page}, anchor)
  /\ UNCHANGED <<page, doc>>

MoveWrite(p) ==
  /\ req[p].at = "write" /\ ~req[p].fault /\ req[p].page # None
  /\ page' = IF page[req[p].page] = NoPage THEN page ELSE [page EXCEPT ![req[p].page].key = req[p].key]
  /\ Finish(p)
  /\ UNCHANGED doc

-----------------------------------------------------------------------------
\* Removing: both updates are one transaction, and the count follows the page.

RemoveAuthorize(p, removed, owner) ==
  /\ req[p] = Idle
  /\ doc.there /\ Live(removed) /\ (page[removed].locked => owner)
  /\ req' = [req EXCEPT ![p].at = "remove", ![p].page = removed]
  /\ UNCHANGED <<page, doc>>

\* (Mutant: the page is matched by its id alone.)
RemovableAny(q) == page[q] # NoPage

\* updateOne matches a page that is not deleted yet.
Removable(q) == Live(q)

RemoveWrite(p) ==
  /\ req[p].at = "remove"
  /\ IF Removable(req[p].page)
     THEN /\ page' = [page EXCEPT ![req[p].page].status = "deleted"]
          /\ doc' = IF doc.there THEN [doc EXCEPT !.pageCount = @ - 1] ELSE doc
     ELSE UNCHANGED <<page, doc>>
  /\ Finish(p)

\* An owner locks a page or unlocks it; authorizing it and the update are one step.
SetLocked(q, locked) ==
  /\ q \in Lockable
  /\ doc.there /\ Live(q)
  /\ page' = [page EXCEPT ![q].locked = locked]
  /\ UNCHANGED <<doc, req>>

\* The cascade deletes the document with its pages (cascade.ts).
Purge ==
  /\ doc.there
  /\ doc' = [there |-> FALSE, pageCount |-> 0]
  /\ page' = [p \in PageIds |-> NoPage]
  /\ UNCHANGED req

Crash(p) == req[p] # Idle /\ Finish(p) /\ UNCHANGED <<page, doc>>

InsertStep(p) == \/ InsertAuthorize(p)
                 \/ \E a \in PageIds \cup {None} : InsertRead(p, a)
                 \/ \E q \in PageIds : InsertWrite(p, q)
MoveStep(p) == \/ \E q \in PageIds, owner \in BOOLEAN : MoveAuthorize(p, q, owner)
               \/ \E a \in PageIds \cup {None} : MoveRead(p, a)
               \/ MoveWrite(p)
RemoveStep(p) == \/ \E q \in PageIds, owner \in BOOLEAN : RemoveAuthorize(p, q, owner)
                 \/ RemoveWrite(p)

Next ==
  \/ \E p \in Procs : InsertStep(p) \/ MoveStep(p) \/ RemoveStep(p) \/ Refuse(p) \/ Crash(p)
  \/ \E q \in PageIds, locked \in BOOLEAN : SetLocked(q, locked)
  \/ Purge

Spec == Init /\ [][Next]_vars

-----------------------------------------------------------------------------
\* Properties.

\* Every variable holds a value of its kind.
TypeOK ==
  /\ page \in [PageIds -> [status : {"none", "live", "deleted"}, key : 0..Top, locked : BOOLEAN]]
  /\ doc \in [there : BOOLEAN, pageCount : Int]
  /\ req \in [Procs -> [at : {"idle", "insert", "move", "write", "remove"},
                        page : PageIds \cup {None}, key : 0..Top, fault : BOOLEAN]]

\* A document's pageCount is the number of its live pages, whatever requests overlap: a page two
\* requests remove is counted once (pages.ts:106).
CountMatches == doc.there => doc.pageCount = Cardinality(LivePages)

\* Pages that got one key from inserts at one place never make a later insert or move fail: the key
\* is worked out between two that differ (keyAfter, pages.ts:26).
KeysNeverCollide == \A p \in Procs : ~req[p].fault
=============================================================================
