------------------------------ MODULE Templates ------------------------------
(***************************************************************************)
(* Templates: system ones, and those users save from documents (packages/  *)
(* db templates.ts, apps/web templates-tab.tsx), while the document, the   *)
(* templates and the gallery that shows them change.                       *)
(***************************************************************************)
EXTENDS Naturals, Sequences, SequencesExt

CONSTANTS Ids, System,    \* templates users save, and the system's
          SystemPages,    \* the pages of a system template
          Users, Me,      \* the dialog is Me's
          Papers,         \* page specs with a paper background
          MaxPages,       \* of a document, in the model
          TemplatePages,  \* pages a template keeps
          None

VARIABLES pages,     \* of the document templates are made from; "image" is one that is no paper
          template,  \* records
          saving,    \* what a request to save a template knows, per user
          gallery,   \* the templates the dialog shows: TemplateViews
          chosen,
          request,   \* the template asked for, and its view when it was
          made       \* the pages of the document made of it

vars == <<pages, template, saving, gallery, chosen, request, made>>

NoTemplate == [owner |-> None, pages |-> <<>>, live |-> FALSE]
Mine(u) == {id \in Ids : template[id].owner = u /\ template[id].live}

FirstPaper(ps) == IF ps = <<>> THEN None ELSE ps[1]

\* templateView and systemTemplateViews.
View(id, ps) == [id |-> id, count |-> Len(ps), first |-> FirstPaper(ps)]
SystemViews == {View(id, SystemPages) : id \in System}

Init ==
  /\ pages \in {<<>>} \cup {<<p>> : p \in Papers \cup {"image"}}
  /\ template = [id \in Ids |-> NoTemplate]
  /\ saving = [u \in Users |-> None]
  /\ gallery = SystemViews
  /\ chosen = None /\ request = None /\ made = None

-----------------------------------------------------------------------------
\* The document's pages.

InsertPage(i, p) ==
  /\ Len(pages) < MaxPages /\ pages' = InsertAt(pages, i, p)
  /\ UNCHANGED <<template, saving, gallery, chosen, request, made>>

RemovePage(i) == pages' = RemoveAt(pages, i) /\ UNCHANGED <<template, saving, gallery, chosen, request, made>>

-----------------------------------------------------------------------------
\* templates.ts.

IsPaper(p) == p # "image"

\* (Mutant: it is enough that the first page is paper.)
FirstIsPaper(ps) == ps # <<>> => IsPaper(ps[1])

AllPaper(ps) == \A i \in DOMAIN ps : IsPaper(ps[i])

\* saveFromDocument: anyone who sees the document reads its pages ...
SaveRead(u) ==
  /\ saving[u] = None /\ AllPaper(pages)
  /\ saving' = [saving EXCEPT ![u] = SubSeq(pages, 1, Min({Len(pages), TemplatePages}))]
  /\ UNCHANGED <<pages, template, gallery, chosen, request, made>>

\* ... and has them as a template.
SaveInsert(u) ==
  /\ saving[u] # None /\ saving' = [saving EXCEPT ![u] = None]
  /\ \/ \E id \in Ids : template[id].owner = None /\ template' = [template EXCEPT ![id] = [owner |-> u, pages |-> saving[u], live |-> TRUE]]
     \/ UNCHANGED template
  /\ UNCHANGED <<pages, gallery, chosen, request, made>>

Delete(u, id) ==
  /\ id \in Mine(u)
  /\ template' = [template EXCEPT ![id].live = FALSE]
  /\ UNCHANGED <<pages, saving, gallery, chosen, request, made>>

-----------------------------------------------------------------------------
\* templates-tab.tsx.

Load ==
  /\ gallery' = SystemViews \cup {View(id, template[id].pages) : id \in Mine(Me)}
  /\ UNCHANGED <<pages, template, saving, chosen, request, made>>

\* remove: the gallery is read again, or not, after the answer.
RemoveTemplate(v) ==
  /\ v \in gallery /\ v.id \in Mine(Me)
  /\ template' = [template EXCEPT ![v.id].live = FALSE]
  /\ chosen' = IF chosen = v.id THEN None ELSE chosen
  /\ gallery' \in {gallery, gallery \ {v}}
  /\ UNCHANGED <<pages, saving, request, made>>

Choose(v) ==
  /\ v \in gallery /\ chosen' = v.id
  /\ UNCHANGED <<pages, template, saving, gallery, request, made>>

\* The button needs a chosen template that is still in the gallery.
UseTemplate ==
  /\ request = None
  /\ \E v \in gallery : v.id = chosen /\ request' = v
  /\ UNCHANGED <<pages, template, saving, gallery, chosen, made>>

\* creation.ts fromTemplate; someone else's template does not exist for this user.
Create ==
  /\ request # None /\ made = None
  /\ made' = [ok |-> request.id \in System \cup Mine(Me),
              pages |-> IF request.id \in System THEN SystemPages ELSE template[request.id].pages]
  /\ UNCHANGED <<pages, template, saving, gallery, chosen, request>>

\* The error is shown, or the document; the dialog opens again.
Answer ==
  /\ made # None /\ request' = None /\ made' = None /\ chosen' = None
  /\ UNCHANGED <<pages, template, saving, gallery>>

Next ==
  \/ \E p \in Papers \cup {"image"}, i \in 1..Len(pages) + 1 : InsertPage(i, p)
  \/ \E i \in DOMAIN pages : RemovePage(i)
  \/ \E u \in Users : \/ SaveRead(u) \/ SaveInsert(u)
                      \/ \E id \in Ids : Delete(u, id)
  \/ \E v \in gallery : RemoveTemplate(v) \/ Choose(v)
  \/ Load \/ UseTemplate \/ Create \/ Answer

Spec == Init /\ [][Next]_vars

-----------------------------------------------------------------------------
\* Every variable holds a value of its kind.
TypeOK ==
  /\ pages \in Seq(Papers \cup {"image"})
  /\ \A id \in Ids : template[id].owner \in Users \cup {None} /\ template[id].pages \in Seq(Papers)
  /\ {v.id : v \in gallery} \subseteq Ids \cup System
  /\ chosen \in Ids \cup System \cup {None} /\ (made # None => request # None)

\* A document made from a template has as many pages as the gallery showed, beginning with the one it
\* showed, all of them paper, and comes from the system or from the user's own templates, although the
\* gallery may be old and the template deleted, and its document was edited while it was saved
\* (templates.ts saveFromDocument, creation.ts fromTemplate, templates-tab.tsx).
MadeAsShown ==
  made # None /\ made.ok =>
    /\ Len(made.pages) = request.count /\ FirstPaper(made.pages) = request.first
    /\ AllPaper(made.pages)
    /\ request.id \in System \/ template[request.id].owner = Me
=============================================================================
