------------------------------- MODULE Dialogs -------------------------------
(***************************************************************************)
(* The tree of folders in the sidebar and its dialogs (app-sidebar.tsx,    *)
(* library-dialogs.tsx): which folders are open, what a dialog's form      *)
(* holds when it is opened again for something else, and what an answer    *)
(* does that comes after the person went on.  What the calls do to the     *)
(* cache and the server is Sidebar's.                                      *)
(***************************************************************************)
EXTENDS FiniteSets, Naturals

CONSTANTS Folders,
          Labels,    \* tags and smart folders
          Names,
          MaxCalls,  \* calls under way at once
          Top, None

VARIABLES parent,   \* where each folder is, None if it is not there
          named,    \* the name of everything
          open,     \* the folders that are remembered as open
          current,  \* the folder that is looked at, None if it is another page
          form,     \* each dialog's form
          calls,    \* calls under way, with what their caller saw when it called
          typed     \* (history) what the open form is to hold: its subject's name, or what was typed

treeVars == <<parent, named, open, current>>
vars == <<treeVars, form, calls, typed>>

Blank == ""

\* FolderDialog and TagDialog, and RenameDialog.
Forms == {"fields", "rename"}
Closed(saving) == [on |-> None, under |-> Top, draft |-> Blank, saving |-> saving]
New == "new"

There == {f \in Folders : parent[f] # None}

\* What a folder is in: the folder's parent, that one's parent, and so on.
Above(f) == {g \in There \ {f} : \A S \in SUBSET There :
               (f \in S /\ \A s \in S : parent[s] \in There => parent[s] \in S) => g \in S}

\* The folder that is looked at is always visible: what it is in is open.
Expanded(saved) == saved \cup (IF current \in There THEN Above(current) ELSE {})

\* The folders that are drawn.
InSight(saved) == {f \in There : Above(f) \subseteq Expanded(saved)}

-----------------------------------------------------------------------------
\* The tree.

\* toggle, given what was expanded when the caller was drawn.
Toggled(seen, f) == IF f \in seen THEN seen \ {f} ELSE seen \cup {f}

\* (Mutant: the folder something goes into is toggled.)
OpenedAlways(seen, p) == IF p \in Folders THEN Toggled(seen, p) ELSE open

\* The folder something went into is opened, if it was seen closed.
Opened(seen, p) == IF p \in Folders /\ p \notin seen THEN Toggled(seen, p) ELSE open

\* Dialogs are modal.
Idle == \A k \in Forms : form[k].on = None

\* A folder that holds others is expanded or collapsed.
Click(f) == /\ Idle /\ f \in InSight(open) /\ (\E g \in There : parent[g] = f)
            /\ open' = Toggled(Expanded(open), f)
            /\ UNCHANGED <<parent, named, current, form, calls, typed>>

Visit(f) == /\ Idle /\ f \in There \cup {None} /\ current' = f
            /\ UNCHANGED <<parent, named, open, form, calls, typed>>

\* FolderMoveDialog: the folder is moved on the screen at once, and what it goes into is opened.
MoveFolder(f, p) ==
  /\ Idle /\ f \in There /\ p \in There \cup {Top} /\ p # f /\ (p = Top \/ f \notin Above(p))
  /\ open' = Opened(Expanded(open), p)
  /\ parent' = [parent EXCEPT ![f] = p]
  /\ UNCHANGED <<named, current, form, calls, typed>>

Under(f) == {f} \cup {g \in There : f \in Above(g)}

\* "Move to trash", and what follows its answer: the page of the folder is left, if it was the one
\* on the screen when the person confirmed.
Trash(f) ==
  /\ Idle /\ f \in There /\ Cardinality(calls) < MaxCalls
  /\ parent' = [g \in Folders |-> IF g \in Under(f) THEN None ELSE parent[g]]
  /\ calls' = calls \cup {[what |-> "trash", on |-> f, under |-> Top, name |-> Blank, seen |-> {},
                           leave |-> current = f]}
  /\ UNCHANGED <<named, open, current, form, typed>>

TrashAnswered(c) ==
  /\ c.what = "trash" /\ calls' = calls \ {c}
  /\ current' = IF c.leave THEN None ELSE current
  /\ UNCHANGED <<parent, named, open, form, typed>>

-----------------------------------------------------------------------------
\* Forms.

\* (Mutant: a form keeps what was typed in it.)
FormKept(k, on, under, initial) ==
  [form[k] EXCEPT !.on = on, !.under = under, !.draft = IF @ = Blank THEN initial ELSE @]

\* A dialog is opened for something, or closed: either way its form starts anew (lastInitial).
FormOf(k, on, under, initial) == [form[k] EXCEPT !.on = on, !.under = under, !.draft = initial]

Open(k, on, under, initial) ==
  /\ Idle
  /\ form' = [form EXCEPT ![k] = FormOf(k, on, under, initial)]
  /\ typed' = initial
  /\ UNCHANGED <<treeVars, calls>>

OpenNew(p) == p \in There \cup {Top} /\ Open("fields", New, p, Blank)
OpenEdit(f) == f \in There /\ Open("fields", f, Top, named[f])
OpenRename(s) == Open("rename", s, Top, named[s])

TypeName(k, n) ==
  /\ form[k].on # None
  /\ form' = [form EXCEPT ![k].draft = n] /\ typed' = n
  /\ UNCHANGED <<treeVars, calls>>

Close(k) ==
  /\ form[k].on # None
  /\ form' = [form EXCEPT ![k] = FormOf(k, None, Top, Blank)] /\ typed' = Blank
  /\ UNCHANGED <<treeVars, calls>>

\* A name is needed; the form of a folder or tag is sent once at a time.
Submit(k) ==
  /\ form[k].on # None /\ form[k].draft # Blank /\ Cardinality(calls) < MaxCalls
  /\ k = "fields" => ~form[k].saving
  /\ calls' = calls \cup {[what |-> k, on |-> form[k].on, under |-> form[k].under, name |-> form[k].draft,
                           seen |-> Expanded(open), leave |-> FALSE]}
  /\ form' = [form EXCEPT ![k].saving = (k = "fields")]
  /\ UNCHANGED <<treeVars, typed>>

\* It went well: the dialog is closed, whatever it is open for by then.
Saved(c) ==
  /\ c.what \in Forms /\ calls' = calls \ {c}
  /\ form' = [form EXCEPT ![c.what] = [FormOf(c.what, None, Top, Blank) EXCEPT !.saving = FALSE]]
  /\ IF c.on = New
     THEN \/ /\ c.under \in There \cup {Top}
             /\ \E f \in Folders \ There :
                  /\ parent' = [parent EXCEPT ![f] = c.under] /\ named' = [named EXCEPT ![f] = c.name]
                  /\ open' = Opened(c.seen, c.under)
          \/ There = Folders /\ UNCHANGED <<parent, named, open>>
     ELSE named' = [named EXCEPT ![c.on] = c.name] /\ UNCHANGED <<parent, open>>
  /\ typed' = IF form[c.what].on = None THEN typed ELSE Blank
  /\ UNCHANGED current

\* It did not: a message, and the form can be sent again.
NotSaved(c) ==
  /\ c.what \in Forms /\ calls' = calls \ {c}
  /\ form' = [form EXCEPT ![c.what].saving = FALSE]
  /\ UNCHANGED <<treeVars, typed>>

-----------------------------------------------------------------------------
Init ==
  /\ \E f \in Folders : parent = [g \in Folders |-> IF g = f THEN None ELSE Top]
  /\ named = [x \in Folders \cup Labels |-> CHOOSE n \in Names : TRUE]
  /\ open = {} /\ current = None
  /\ form = [k \in Forms |-> Closed(FALSE)]
  /\ calls = {} /\ typed = Blank

Tree == \/ \E f \in Folders : Click(f) \/ Visit(f) \/ Trash(f) \/ \E p \in Folders \cup {Top} : MoveFolder(f, p)
        \/ Visit(None)
        \/ \E c \in calls : TrashAnswered(c)

Fill == \/ \E p \in Folders \cup {Top} : OpenNew(p)
        \/ \E f \in Folders : OpenEdit(f)
        \/ \E s \in Labels : OpenRename(s)
        \/ \E k \in Forms : Close(k) \/ Submit(k) \/ \E n \in Names : TypeName(k, n)
        \/ \E c \in calls : Saved(c) \/ NotSaved(c)

Next == Tree \/ Fill
Spec == Init /\ [][Next]_vars

-----------------------------------------------------------------------------
\* Properties.

\* Every variable holds a value of its kind.
TypeOK ==
  /\ parent \in [Folders -> Folders \cup {Top, None}] /\ named \in [Folders \cup Labels -> Names]
  /\ open \subseteq Folders /\ current \in Folders \cup {None}
  /\ \A k \in Forms : form[k].saving \in BOOLEAN /\ form[k].draft \in Names \cup {Blank}
  /\ Cardinality(calls) <= MaxCalls

\* Whatever a dialog was opened for before, left without saving or closed by a late answer, its form
\* holds what it is opened for now and what was typed since: nothing is saved under another's name
\* (library-dialogs.tsx lastInitial).
DraftIsItsOwn == \A k \in Forms : form[k].on # None => form[k].draft = typed

\* What is moved into a folder can be seen there, and so can what is created there, unless the folder
\* itself cannot be seen or others were opened or closed before the answer came: it brings back what
\* was open when the dialog was sent (app-sidebar.tsx).
ArrivesInSight ==
  [][\A f \in Folders : parent'[f] \in Folders /\ parent'[f] # parent[f] /\ parent'[f] \in InSight(open)
       /\ (calls' # calls => \A c \in calls \ calls' : c.seen = Expanded(open))
       => f \in InSight(open)']_vars
=============================================================================
