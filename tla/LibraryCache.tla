---------------------------- MODULE LibraryCache ----------------------------
(***************************************************************************)
(* The library in the browser (apps/web hooks use-library-actions.ts, lib  *)
(* library cache.ts): an action changes every cached view at once, asks    *)
(* the server for it a chunk at a time (api documents bulk route.ts), and  *)
(* rolls back what did not work, while views are fetched and documents     *)
(* change elsewhere.  Nothing waits for an action, so that several overlap.*)
(***************************************************************************)
EXTENDS Naturals, FiniteSets

CONSTANTS Docs,
          Folders,    \* places of documents, the top level included
          Shown,      \* the folder that has a cached view
          Views,      \* the cached views: "home", "folder", "favourites" or "trash"
          Acts,       \* actions that may run at once
          MaxBulkIds, \* MAX_BULK_IDS
          MaxEvents,  \* actions, fetches and changes elsewhere, in the model
          None

VARIABLES server,    \* the documents
          view,      \* what each cached view lists: an item, or None
          fetch,     \* the answer on its way to a view, NoFetch if there is none
          act,       \* the actions that run, NoAct where there is none
          doubt,     \* documents of each view that the browser knows nothing certain about
          beside,    \* documents of the actions that overlapped each
          torn,      \* documents of each view that a rollback may have put back against what is known
          events     \* actions, fetches and changes elsewhere so far

vars == <<server, view, fetch, act, doubt, beside, torn, events>>

NoFetch == [view |-> None, items |-> None, doubt |-> {}]
NoAct == [ids |-> {}, todo |-> {}, done |-> {}, failed |-> {}, change |-> None, before |-> None]
UnderWay(p) == act[p] # NoAct
Running == \E p \in Acts : UnderWay(p)
Busy == UNION {act[p].ids : p \in Acts}   \* documents of the actions that run

-----------------------------------------------------------------------------
\* Views, and what a change does to them.

Item(d) == [folder |-> server[d].folder, favourite |-> server[d].favourite]

InScope(v, d) ==
  CASE v = "home" -> server[d].status = "live"
    [] v = "folder" -> server[d].status = "live" /\ server[d].folder = Shown
    [] v = "favourites" -> server[d].status = "live" /\ server[d].favourite
    [] v = "trash" -> server[d].status = "trashed"

Listing(v) == [d \in Docs |-> IF InScope(v, d) THEN Item(d) ELSE None]

Moves == [kind : {"move"}, to : Folders, on : {FALSE}]
Favourites == [kind : {"favourite"}, to : {None}, on : BOOLEAN]
Others == [kind : {"trash", "restore", "purge"}, to : {None}, on : {FALSE}]

\* applyChange: the item after the change, None when it leaves the view.
ApplyChange(v, item, c) ==
  CASE c.kind = "move" -> IF v = "folder" /\ c.to # Shown THEN None ELSE [item EXCEPT !.folder = c.to]
    [] c.kind = "favourite" -> IF v = "favourites" /\ ~c.on THEN None ELSE [item EXCEPT !.favourite = c.on]
    [] c.kind = "trash" -> IF v = "trash" THEN item ELSE None
    [] c.kind \in {"restore", "purge"} -> IF v = "trash" THEN None ELSE item

Changed(views, ids, c) ==
  [v \in Views |-> [d \in Docs |-> IF d \in ids /\ views[v][d] # None
                                   THEN ApplyChange(v, views[v][d], c) ELSE views[v][d]]]

\* runOne on the server, for a document it is allowed for.
Allowed(d, c) == IF c.kind \in {"restore", "purge"} THEN server[d].status = "trashed"
                 ELSE server[d].status = "live"
RunOne(d, c) ==
  CASE c.kind = "move" -> [server[d] EXCEPT !.folder = c.to]
    [] c.kind = "favourite" -> [server[d] EXCEPT !.favourite = c.on]
    [] c.kind = "trash" -> [server[d] EXCEPT !.status = "trashed"]
    [] c.kind = "restore" -> [server[d] EXCEPT !.status = "live"]
    [] c.kind = "purge" -> [server[d] EXCEPT !.status = "gone"]
Served(S, c) == server' = [d \in Docs |-> IF d \in S THEN RunOne(d, c) ELSE server[d]]

Init ==
  /\ server \in [Docs -> [status : {"live", "trashed"}, folder : Folders, favourite : {FALSE}]]
  /\ view = [v \in Views |-> Listing(v)]
  /\ fetch = NoFetch
  /\ act = [p \in Acts |-> NoAct]
  /\ doubt = [v \in Views |-> {}] /\ torn = doubt
  /\ beside = [p \in Acts |-> {}]
  /\ events = 0

-----------------------------------------------------------------------------
\* Fetching a view.  What is read while an action runs may be from before it.

Count == events < MaxEvents /\ events' = events + 1

FetchStart(v) ==
  /\ fetch = NoFetch /\ Count
  /\ fetch' = [view |-> v, items |-> Listing(v), doubt |-> Busy]
  /\ UNCHANGED <<server, view, act, doubt, beside, torn>>

FetchArrives ==
  /\ fetch # NoFetch
  /\ view' = [view EXCEPT ![fetch.view] = fetch.items]
  /\ doubt' = [doubt EXCEPT ![fetch.view] = fetch.doubt \cup IF Running THEN @ ELSE {}]
  /\ torn' = [torn EXCEPT ![fetch.view] = IF Running THEN @ ELSE {}]
  /\ fetch' = NoFetch
  /\ UNCHANGED <<server, act, beside, events>>

FetchFails == /\ fetch # NoFetch
              /\ fetch' = NoFetch
              /\ UNCHANGED <<server, view, act, doubt, beside, torn, events>>

-----------------------------------------------------------------------------
\* An action on documents that a view lists.  Fetches are cancelled (cancelQueries), and all views are
\* kept as they are, with what other actions have changed in them.

Offered(v) == IF v = "trash" THEN {c \in Others : c.kind # "trash"}
              ELSE Moves \cup Favourites \cup {c \in Others : c.kind = "trash"}

Torn(S) == torn' = [v \in Views |-> torn[v] \cup S]

Begin(p, v, ids, c) ==
  /\ ~UnderWay(p) /\ Count
  /\ ids # {} /\ \A d \in ids : view[v][d] # None
  /\ c \in Offered(v)
  /\ fetch' = NoFetch
  /\ act' = [act EXCEPT ![p] = [NoAct EXCEPT !.ids = ids, !.todo = ids, !.change = c, !.before = view]]
  /\ view' = Changed(view, ids, c)
  /\ beside' = [q \in Acts |-> IF q = p THEN Busy ELSE IF UnderWay(q) THEN beside[q] \cup ids ELSE {}]
  /\ Torn(ids \cap Busy)
  /\ UNCHANGED <<server, doubt>>

Ends(p) == /\ act' = [act EXCEPT ![p] = NoAct]
           /\ beside' = [beside EXCEPT ![p] = {}]

\* chunks.
Chunk(p, S) ==
  /\ act[p].todo # {} /\ S \subseteq act[p].todo
  /\ Cardinality(S) = IF Cardinality(act[p].todo) < MaxBulkIds THEN Cardinality(act[p].todo) ELSE MaxBulkIds

\* The answer says which worked; any may be refused.
BulkAnswers(p, S, ok) ==
  /\ Chunk(p, S)
  /\ ok \subseteq {d \in S : Allowed(d, act[p].change)}
  /\ Served(ok, act[p].change)
  /\ act' = [act EXCEPT ![p] = [act[p] EXCEPT !.todo = @ \ S, !.done = @ \cup ok, !.failed = @ \cup (S \ ok)]]
  /\ UNCHANGED <<view, fetch, doubt, beside, torn, events>>

\* No answer: a failure, offline, or one document's unexpected error, with any of the chunk carried out.
\* All views go back to what they were before the action, also where chunks were answered and where other
\* actions have changed them since; nothing is fetched.
BulkThrows(p, S, ok) ==
  /\ Chunk(p, S)
  /\ ok \subseteq {d \in S : Allowed(d, act[p].change)}
  /\ Served(ok, act[p].change)
  /\ view' = act[p].before
  /\ doubt' = [v \in Views |-> doubt[v] \cup S]
  /\ Torn(act[p].done \cup beside[p])
  /\ Ends(p)
  /\ UNCHANGED <<fetch, events>>

\* (Mutant: the change is kept as soon as something worked.)
KeptAll(p) == IF act[p].done # {} THEN view ELSE act[p].before

\* All chunks are answered: the change is kept only where it worked.
Kept(p) == IF act[p].failed = {} THEN view ELSE Changed(act[p].before, act[p].done, act[p].change)

Finish(p) ==
  /\ UnderWay(p) /\ act[p].todo = {}
  /\ view' = Kept(p)
  /\ Torn(IF act[p].failed = {} THEN {} ELSE beside[p])
  /\ Ends(p)
  /\ UNCHANGED <<server, fetch, doubt, events>>

\* Somebody else, or another tab, changes a document.
Elsewhere(d, new) ==
  /\ Count
  /\ server[d].status # "gone" /\ new # server[d]
  /\ server' = [server EXCEPT ![d] = new]
  /\ doubt' = [v \in Views |-> doubt[v] \cup {d}]
  /\ fetch' = IF fetch = NoFetch THEN NoFetch ELSE [fetch EXCEPT !.doubt = @ \cup {d}]
  /\ UNCHANGED <<view, act, beside, torn>>

Next ==
  \/ (\E v \in Views : FetchStart(v)) \/ FetchArrives \/ FetchFails
  \/ \E p \in Acts, v \in Views, ids \in SUBSET Docs, c \in Moves \cup Favourites \cup Others : Begin(p, v, ids, c)
  \/ \E p \in Acts, S, ok \in SUBSET Docs : BulkAnswers(p, S, ok) \/ BulkThrows(p, S, ok)
  \/ \E p \in Acts : Finish(p)
  \/ \E d \in Docs, s \in {"live", "trashed", "gone"}, f \in Folders :
       Elsewhere(d, [server[d] EXCEPT !.status = s, !.folder = f])

Spec == Init /\ [][Next]_vars

-----------------------------------------------------------------------------
\* Properties.

Items == [folder : Folders, favourite : BOOLEAN]

\* Every variable holds a value of its kind.
TypeOK ==
  /\ server \in [Docs -> [status : {"live", "trashed", "gone"}, folder : Folders, favourite : BOOLEAN]]
  /\ view \in [Views -> [Docs -> Items \cup {None}]]
  /\ doubt \in [Views -> SUBSET Docs] /\ torn \in [Views -> SUBSET Docs] /\ beside \in [Acts -> SUBSET Docs]
  /\ \A p \in Acts : /\ act[p].done \cup act[p].failed \cup act[p].todo = act[p].ids
                     /\ act[p].done \cap act[p].failed = {}

\* Listed in v, d belongs there and is as the server has it.
Current(v, d) == view[v][d] # None => InScope(v, d) /\ view[v][d] = Item(d)

\* use-library-actions.ts: each action "updates every cached view at once (optimistic), then asks the
\* server; on failure the views roll back", and keeps "the change only where it worked": when no action
\* runs, what a view lists belongs there and is as the server has it.  Not certain are documents of a chunk
\* that had no answer, that were fetched during an action on them, or that changed elsewhere.
RolledBackIsCurrent == ~Running => \A v \in Views : \A d \in Docs \ doubt[v] : Current(v, d)

\* What is true of it: it also takes out the documents of chunks that were answered before one was not, those of
\* actions that overlapped one that rolled back, and those that two actions were on at once, until the view
\* is fetched.  Whichever documents actions failed for and whatever fetches they overtook, the rest holds.
\* (A document that belongs in a view may be missing there: an action moves nothing into one.)
ListedIsCurrent == ~Running => \A v \in Views : \A d \in Docs \ (doubt[v] \cup torn[v]) : Current(v, d)
=============================================================================
