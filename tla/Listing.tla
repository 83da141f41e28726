------------------------------- MODULE Listing ------------------------------
(***************************************************************************)
(* A library view read page by page (packages/db library.ts) while its     *)
(* documents are edited, opened, moved in and moved out.  Every database   *)
(* query is a step.  Big views go on at a keyset cursor; small ones are    *)
(* loaded whole and cut after the cursor.                                  *)
(***************************************************************************)
EXTENDS Integers, Sequences, FiniteSets

CONSTANTS Docs,       \* document ids, numbers: they break ties
          Visible,    \* the documents the user may see
          Keys,       \* values of the field sorted by, and times of opening; positive numbers
          Limit,      \* documents on a page
          Batch,      \* how much one query of lastOpenedPage reads
          MaxChanges, \* changes while the view is read, in the model
          None

VARIABLES doc,  \* in: live, in the view and through its filters; key; opened (0: never)
          walk  \* what was read so far

vars == <<doc, walk>>

InView == {d \in Docs : doc[d].in}
Opened == {d \in Docs : doc[d].opened > 0}

\* accessFor: those the user may see.
Accessible(S) == S \cap Visible

\* candidateScope: what a small view loads (the trash, recents, favourites, what is shared with the
\* user, a search), below its cap.
Candidates == InView

-----------------------------------------------------------------------------
\* Places in a sorted view, which are cursors too: a value and an id, and the half of "last opened".

Place(d, v, p) == [v |-> v, id |-> d, p |-> p]
KeyOf(d, p) == Place(d, doc[d].key, p)
OpenOf(d) == Place(d, doc[d].opened, "opened")

\* compare.  `dir` is 1 or -1.
Beyond(a, b, dir) == dir * a.v > dir * b.v \/ (a.v = b.v /\ dir * a.id > dir * b.id)

\* (Mutant: the value alone decides.)
AfterByValue(a, after, dir) == after = None \/ dir * a.v > dir * after.v

KeysetAfter(a, after, dir) == after = None \/ Beyond(a, after, dir)

Take(s, n) == SubSeq(s, 1, IF Len(s) < n THEN Len(s) ELSE n)

\* The members of S in the order R, a set of pairs.
InOrder(S, R) ==
  CHOOSE s \in [1..Cardinality(S) -> S] : \A i, j \in DOMAIN s : i < j => <<s[i], s[j]>> \in R

\* A query's answer: the first n of the places in S after `after`.
Query(S, after, dir, n) ==
  LET found == {a \in S : KeysetAfter(a, after, dir)} IN
  Take(InOrder(found, {e \in found \X found : Beyond(e[2], e[1], dir)}), n)

\* The places in s of the documents in D.
Only(s, D) ==
  LET kept == {i \in DOMAIN s : s[i].id \in D}
      at == InOrder(kept, {e \in kept \X kept : e[1] < e[2]}) IN
  [i \in DOMAIN at |-> s[at[i]]]

-----------------------------------------------------------------------------
\* The browser asks for the first page, then for the one at the cursor it was given.  `loaded` is what a
\* small view holds until it knows when it was opened.

Sorts == {"field", "lastOpened", "memoryField", "memoryOpened"}

Init ==
  /\ doc \in [Docs -> [in : BOOLEAN, key : Keys, opened : Keys \cup {0}]]
  /\ \E sort \in Sorts, dir \in {1, -1} :
       /\ sort = "lastOpened" => dir = -1
       /\ walk = [sort |-> sort, dir |-> dir, at |-> "page", cursor |-> None, after |-> None,
                  batch |-> <<>>, out |-> <<>>, loaded |-> {}, listed |-> <<>>, changed |-> {}, changes |-> 0]

\* The first Limit of what was found go to the browser, without what the user may not see (enrich),
\* and the place of the last of them if there was more.
Answer(found) ==
  LET page == Take(found, Limit)
      shown == Only(page, Accessible(Docs))
      next == IF Len(found) > Limit THEN page[Len(page)] ELSE None IN
  walk' = [walk EXCEPT !.at = IF next = None THEN "done" ELSE "page", !.cursor = next,
                       !.listed = @ \o [i \in DOMAIN shown |-> shown[i].id],
                       !.out = <<>>, !.batch = <<>>, !.loaded = {}, !.after = None]

\* fieldPage.
FieldPage ==
  /\ walk.at = "page" /\ walk.sort = "field"
  /\ Answer(Query({KeyOf(d, "field") : d \in InView}, walk.cursor, walk.dir, Limit + 1))
  /\ UNCHANGED doc

\* The small views: loaded, checked, then sorted and cut at the first place after the cursor.  When the
\* documents were opened is a query of its own.
MemoryAnswer(S) == Answer(Query(S, walk.cursor, walk.dir, Cardinality(S)))

MemoryPage ==
  /\ walk.at = "page"
  /\ \/ walk.sort = "memoryField" /\ MemoryAnswer({KeyOf(d, "field") : d \in Accessible(Candidates)})
     \/ /\ walk.sort = "memoryOpened"
        /\ walk' = [walk EXCEPT !.at = "times", !.loaded = Accessible(Candidates)]
  /\ UNCHANGED doc

MemoryTimes ==
  /\ walk.at = "times"
  /\ MemoryAnswer({OpenOf(d) : d \in walk.loaded})
  /\ UNCHANGED doc

-----------------------------------------------------------------------------
\* lastOpenedPage: the documents the user opened, then the others by their modification.  `out` is the
\* page so far, `batch` what the last query read, `after` where the next one goes on.

Want == Limit + 1

LastOpened ==
  /\ walk.at = "page" /\ walk.sort = "lastOpened"
  /\ walk' = [walk EXCEPT !.after = walk.cursor,
                          !.at = IF walk.cursor # None /\ walk.cursor.p = "rest" THEN "rest" ELSE "states"]
  /\ UNCHANGED doc

\* The states of any of the workspace's documents.
ReadStates ==
  /\ walk.at = "states"
  /\ walk' = [walk EXCEPT !.at = "docs", !.batch = Query({OpenOf(d) : d \in Opened}, walk.after, -1, Batch)]
  /\ UNCHANGED doc

ReadRest ==
  /\ walk.at = "rest"
  /\ walk' = [walk EXCEPT !.at = "opened",
                          !.batch = Query({KeyOf(d, "rest") : d \in InView}, walk.after, -1, Batch)]
  /\ UNCHANGED doc

\* What of the batch is kept: go on after it, with another query (`again`) or as `end` says.
Collect(S, again, end) ==
  LET out == Take(walk.out \o Only(walk.batch, S), Want) IN
  IF Len(out) < Want /\ Len(walk.batch) = Batch
  THEN walk' = [walk EXCEPT !.at = again, !.out = out, !.after = walk.batch[Batch]]
  ELSE IF Len(out) < Want /\ end = "rest"
  THEN walk' = [walk EXCEPT !.at = "rest", !.out = out, !.after = None]
  ELSE Answer(out)

KeepInView == walk.at = "docs" /\ Collect(InView, "states", "rest") /\ UNCHANGED doc
KeepUnopened == walk.at = "opened" /\ Collect(Docs \ Opened, "rest", "answer") /\ UNCHANGED doc

-----------------------------------------------------------------------------
\* Meanwhile a document is edited, opened, moved, trashed, restored or retagged.

Change(d, new) ==
  /\ walk.at # "done" /\ walk.changes < MaxChanges
  /\ new # doc[d]
  /\ doc' = [doc EXCEPT ![d] = new]
  /\ walk' = [walk EXCEPT !.changed = @ \cup {d}, !.changes = @ + 1]

Edit(d) == \E k \in Keys : Change(d, [doc[d] EXCEPT !.key = k])
Open(d) == \E k \in Keys : Change(d, [doc[d] EXCEPT !.opened = k])
MoveInOrOut(d) == Change(d, [doc[d] EXCEPT !.in = ~@])

Read == FieldPage \/ MemoryPage \/ MemoryTimes \/ LastOpened \/ ReadStates \/ KeepInView \/ ReadRest
        \/ KeepUnopened

Next == Read \/ \E d \in Docs : Edit(d) \/ Open(d) \/ MoveInOrOut(d)

Spec == Init /\ [][Next]_vars

-----------------------------------------------------------------------------
\* Properties.

Places == [v : Nat, id : Docs, p : {"field", "opened", "rest"}]

\* Every variable holds a value of its kind.
TypeOK ==
  /\ doc \in [Docs -> [in : BOOLEAN, key : Keys, opened : Keys \cup {0}]]
  /\ walk.at \in {"page", "times", "states", "docs", "rest", "opened", "done"}
  /\ walk.cursor \in Places \cup {None} /\ walk.after \in Places \cup {None}
  /\ walk.loaded \subseteq Visible /\ walk.listed \in Seq(Visible)

Times(d) == Cardinality({i \in DOMAIN walk.listed : walk.listed[i] = d})

\* The order a view promises two documents.
Before(c, d) ==
  CASE walk.sort \in {"field", "memoryField"} -> Beyond(KeyOf(d, "field"), KeyOf(c, "field"), walk.dir)
    [] walk.sort = "memoryOpened" -> Beyond(OpenOf(d), OpenOf(c), walk.dir)
    [] OTHER -> IF {c, d} \cap Opened # {} THEN doc[c].opened > 0 /\ Beyond(OpenOf(d), OpenOf(c), -1)
                ELSE Beyond(KeyOf(d, "rest"), KeyOf(c, "rest"), -1)

\* Whatever happens to others between two pages or two queries, a document that did not change is
\* listed once, and in its place among those that did not change (keysetAfter, lastOpenedPage).
ListedOnceInOrder ==
  /\ \A d \in Visible \ walk.changed :
       Times(d) <= 1 /\ (walk.at = "done" /\ doc[d].in => Times(d) = 1)
  /\ \A i, j \in DOMAIN walk.listed :
       i < j /\ {walk.listed[i], walk.listed[j]} \cap walk.changed = {}
         => Before(walk.listed[i], walk.listed[j])
=============================================================================
