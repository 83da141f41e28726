-------------------------------- MODULE Tags --------------------------------
(***************************************************************************)
(* The tags of a workspace, the documents that carry them and the smart    *)
(* folders that filter by them (packages/db tags.ts, documents.ts,         *)
(* smart-folders.ts).                                                      *)
(***************************************************************************)
EXTENDS FiniteSets, Naturals

CONSTANTS TagIds, Names, Docs,
          MaxTags,  \* MAX_TAGS
          Procs, None

VARIABLES tag,    \* the name of each tag, None if there is no such tag
          tags,   \* the tags of each document
          smart,  \* the tags the user's smart folder filters by, None if there is none
          req     \* what each request is doing

vars == <<tag, tags, smart, req>>

Exists == {t \in TagIds : tag[t] # None}
NoSmart == {None}

\* `add` and `remove` are what a change asks for, `seen` the document's tags when it was loaded.
Idle == [at |-> "idle", doc |-> None, tag |-> None, name |-> None, add |-> {}, remove |-> {}, seen |-> {}]

Begin(p, r) == req[p] = Idle /\ req' = [req EXCEPT ![p] = r]
Finish(p) == req' = [req EXCEPT ![p] = Idle]

Init ==
  /\ tag = [t \in TagIds |-> None]
  /\ tags = [d \in Docs |-> {}]
  /\ smart = NoSmart
  /\ req = [p \in Procs |-> Idle]

-----------------------------------------------------------------------------
\* Tags.  The unique index on (workspaceId, nameKey) refuses a second tag of a name.

Taken(n, t) == \E u \in TagIds \ {t} : tag[u] = n

Create(t, n) ==
  /\ tag[t] = None /\ ~Taken(n, t)
  /\ tag' = [tag EXCEPT ![t] = n]
  /\ UNCHANGED <<tags, smart, req>>

\* The record is loaded, then replaced: not inserted again if it was deleted since.
UpdateLoad(p, t, n) ==
  /\ t \in Exists
  /\ Begin(p, [Idle EXCEPT !.at = "rename", !.tag = t, !.name = n])
  /\ UNCHANGED <<tag, tags, smart>>

UpdateWrite(p) ==
  /\ req[p].at = "rename"
  /\ tag' = IF req[p].tag \in Exists /\ ~Taken(req[p].name, req[p].tag)
            THEN [tag EXCEPT ![req[p].tag] = req[p].name] ELSE tag
  /\ Finish(p)
  /\ UNCHANGED <<tags, smart>>

DeleteLoad(p, t) ==
  /\ t \in Exists
  /\ Begin(p, [Idle EXCEPT !.at = "delete", !.tag = t])
  /\ UNCHANGED <<tag, tags, smart>>

\* (Mutant: the documents keep the tag.)
With(S, t) == S

\* What the transaction leaves on a document.
Without(S, t) == S \ {t}

\* One transaction: the tag comes off the documents and the smart folders and is deleted.
DeleteWrite(p) ==
  /\ req[p].at = "delete"
  /\ tags' = [d \in Docs |-> Without(tags[d], req[p].tag)]
  /\ smart' = smart \ {req[p].tag}
  /\ tag' = [tag EXCEPT ![req[p].tag] = None]
  /\ Finish(p)

-----------------------------------------------------------------------------
\* Documents: the tags are checked (checkTags), then written.

\* setTags replaces them all.
SetTagsCheck(p, d, S) ==
  /\ S \subseteq Exists /\ Cardinality(S) <= MaxTags
  /\ Begin(p, [Idle EXCEPT !.at = "set", !.doc = d, !.add = S])
  /\ UNCHANGED <<tag, tags, smart>>

SetTagsWrite(p) ==
  /\ req[p].at = "set"
  /\ tags' = [tags EXCEPT ![req[p].doc] = req[p].add]
  /\ Finish(p)
  /\ UNCHANGED <<tag, smart>>

\* changeTags: the document is loaded, the tags to add are counted and checked.
ChangeLoad(p, d, A, R) ==
  /\ Begin(p, [Idle EXCEPT !.at = "change", !.doc = d, !.add = A, !.remove = R, !.seen = tags[d]])
  /\ UNCHANGED <<tag, tags, smart>>

Fits(seen, A) == Cardinality(seen \cup A) <= MaxTags

ChangeCheck(p) ==
  /\ req[p].at = "change"
  /\ IF req[p].add \subseteq Exists /\ Fits(req[p].seen, req[p].add)
     THEN req' = [req EXCEPT ![p].at = "add"] ELSE Finish(p)
  /\ UNCHANGED <<tag, tags, smart>>

\* (Mutant: the tags are added to those the document had when it was loaded.)
AddedToSeen(p) == req[p].seen \cup req[p].add

\* $addToSet and $pull change what the document has by then.
Added(p) == tags[req[p].doc] \cup req[p].add

ChangeAdd(p) ==
  /\ req[p].at = "add"
  /\ tags' = IF req[p].add = {} THEN tags ELSE [tags EXCEPT ![req[p].doc] = Added(p)]
  /\ req' = [req EXCEPT ![p].at = "pull", ![p].add = {}, ![p].seen = {}]
  /\ UNCHANGED <<tag, smart>>

ChangeRemove(p) ==
  /\ req[p].at = "pull"
  /\ tags' = [tags EXCEPT ![req[p].doc] = @ \ req[p].remove]
  /\ Finish(p)
  /\ UNCHANGED <<tag, smart>>

\* duplicate: the source's tags are read, the copy is inserted with them.
DuplicateLoad(p, d) ==
  /\ Begin(p, [Idle EXCEPT !.at = "copy", !.add = tags[d]])
  /\ UNCHANGED <<tag, tags, smart>>

\* The copy takes an empty document of the model.
DuplicateWrite(p, d) ==
  /\ req[p].at = "copy"
  /\ tags[d] = {}
  /\ tags' = [tags EXCEPT ![d] = req[p].add]
  /\ Finish(p)
  /\ UNCHANGED <<tag, smart>>

-----------------------------------------------------------------------------
\* The smart folder: its filters are not checked; an update replaces the record it read.

SmartCreate(S) ==
  /\ smart = NoSmart
  /\ smart' = S
  /\ UNCHANGED <<tag, tags, req>>

SmartLoad(p) ==
  /\ smart # NoSmart
  /\ Begin(p, [Idle EXCEPT !.at = "smart", !.add = smart])
  /\ UNCHANGED <<tag, tags, smart>>

\* The name or the sort changes and the filters stay what they were, or they are given.
SmartWrite(p) ==
  /\ req[p].at = "smart"
  /\ IF smart = NoSmart THEN UNCHANGED smart
     ELSE smart' = req[p].add \/ smart' \in SUBSET Exists
  /\ Finish(p)
  /\ UNCHANGED <<tag, tags>>

SmartDelete == smart # NoSmart /\ smart' = NoSmart /\ UNCHANGED <<tag, tags, req>>

Crash(p) == req[p] # Idle /\ Finish(p) /\ UNCHANGED <<tag, tags, smart>>

TagStep(p) ==
  \/ \E t \in TagIds, n \in Names : UpdateLoad(p, t, n)
  \/ UpdateWrite(p)
  \/ \E t \in TagIds : DeleteLoad(p, t)
  \/ DeleteWrite(p)

DocStep(p) ==
  \/ \E d \in Docs, S \in SUBSET TagIds : SetTagsCheck(p, d, S)
  \/ SetTagsWrite(p)
  \/ \E d \in Docs, A, R \in SUBSET TagIds : ChangeLoad(p, d, A, R)
  \/ ChangeCheck(p) \/ ChangeAdd(p) \/ ChangeRemove(p)
  \/ \E d \in Docs : DuplicateLoad(p, d) \/ DuplicateWrite(p, d)

Next ==
  \/ \E t \in TagIds, n \in Names : Create(t, n)
  \/ \E p \in Procs : TagStep(p) \/ DocStep(p) \/ SmartLoad(p) \/ SmartWrite(p) \/ Crash(p)
  \/ (\E S \in SUBSET Exists : SmartCreate(S)) \/ SmartDelete

Spec == Init /\ [][Next]_vars

-----------------------------------------------------------------------------
\* Properties.

\* Every variable holds a value of its kind.
TypeOK ==
  /\ tag \in [TagIds -> Names \cup {None}]
  /\ tags \in [Docs -> SUBSET TagIds]
  /\ smart \in (SUBSET TagIds) \cup {NoSmart}
  /\ req \in [Procs -> [at : {"idle", "rename", "delete", "set", "change", "add", "pull", "copy", "smart"},
                        doc : Docs \cup {None}, tag : TagIds \cup {None},
                        name : Names \cup {None}, add : SUBSET TagIds, remove : SUBSET TagIds,
                        seen : SUBSET TagIds]]

\* changeTags is "safe for bulk and parallel edits" (documents.ts:285): it touches the tags it was
\* asked to, and whatever else others did to the document in between stays.
ChangeTouchesItsOwn ==
  [][\A p \in Procs, d \in Docs :
       /\ ChangeAdd(p) => tags'[d] \ req[p].add = tags[d] \ req[p].add
       /\ ChangeRemove(p) => tags'[d] \ req[p].remove = tags[d] \ req[p].remove]_vars

\* One request at a time, a deleted tag is on no document, and filters no smart folder.
NoDanglingTag == /\ \A d \in Docs : tags[d] \subseteq Exists
                 /\ smart # NoSmart => smart \subseteq Exists
=============================================================================
