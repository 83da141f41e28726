------------------------------- MODULE Sidebar -------------------------------
(***************************************************************************)
(* The sidebar of a workspace in the browser (apps/web hooks               *)
(* use-sidebar-actions.ts, lib library folders.ts): folders, tags and      *)
(* smart folders are changed on the screen at once, rolled back on         *)
(* failure, and read again after every change, while other changes of the  *)
(* same user overlap, answers get lost and others change the workspace.    *)
(***************************************************************************)
EXTENDS Naturals, FiniteSets

CONSTANTS Folders,
          Labels,      \* tags and smart folders, which have no place in a tree
          Names,
          Procs,       \* calls that may be under way at once
          MaxEvents,   \* calls, refetches and changes elsewhere, in the model
          Top, None

VARIABLES server,   \* the entries of the workspace
          shown,    \* the cached sidebar
          stale,    \* the cached sidebar is marked as invalid
          fetch,    \* the sidebar being read, NoFetch if it is not
          call,     \* the call each action waits for
          chosen,   \* where the dialog would move a folder, NoChoice if it is closed
          late,     \* changes whose answer was lost and that the server may still carry out
          doubt,    \* entries that changed without the browser being told
          events

vars == <<server, shown, stale, fetch, call, chosen, late, doubt, events>>

Rows == Folders \cup Labels
Places == Folders \cup {Top}
Trees == [Rows -> [name : Names, parent : Places] \cup {None}]

NoFetch == [at |-> "none", items |-> None, doubt |-> {}]
NoCall == [at |-> "idle", change |-> None, before |-> None]
NoChoice == [folder |-> None, to |-> Top]

-----------------------------------------------------------------------------
\* The tree, as the flat list that is loaded.

In(tree) == {e \in Rows : tree[e] # None}
Children(tree, p) == {f \in Folders \cap In(tree) : tree[f].parent = p}

\* descendantIds: the folder and every folder under it.
Descendants(tree, f) ==
  {g \in Folders : \A S \in SUBSET Folders :
     (f \in S /\ \A s \in S : Children(tree, s) \subseteq S) => g \in S}

\* flattenTree: what can be reached from the top.
Reached(tree) == UNION {Descendants(tree, f) : f \in Children(tree, Top)}

\* moveTargets, and the top level.
MoveTargets(tree, f) == {Top} \cup (Reached(tree) \ Descendants(tree, f))

\* The changes there are.  Only updates tell names apart.
Given == CHOOSE n \in Names : TRUE
Creations == [kind : {"create"}, id : Rows, name : {Given}, to : Places]
Updates == [kind : {"update"}, id : Rows, name : Names \ {Given}, to : {Top}]
Moves == [kind : {"move"}, id : Folders, name : {Given}, to : Places]
Deletions == [kind : {"delete"}, id : Rows, name : {Given}, to : {Top}]

\* What a change makes of a tree: the browser's guess, and the server's result.
Gone(tree, id) == IF id \in Folders THEN Descendants(tree, id) ELSE {id}
Changed(tree, c) ==
  CASE c.kind = "create" -> [tree EXCEPT ![c.id] = [name |-> c.name, parent |-> c.to]]
    [] c.kind = "update" /\ tree[c.id] # None -> [tree EXCEPT ![c.id].name = c.name]
    [] c.kind = "move" /\ tree[c.id] # None -> [tree EXCEPT ![c.id].parent = c.to]
    [] c.kind = "delete" -> [e \in Rows |-> IF e \in Gone(tree, c.id) THEN None ELSE tree[e]]
    [] OTHER -> tree

\* What the server carries out: changes of what exists, into what exists, and no cycles.
Allowed(c) ==
  /\ (c.kind = "create") = (server[c.id] = None)
  /\ c.kind \in {"create", "move"} => c.to \in In(server) \cup {Top}
  /\ c.kind = "move" => c.to \notin Descendants(server, c.id)

Init ==
  /\ server \in Trees
  /\ In(server) = Rows \ {CHOOSE f \in Folders : TRUE}
  /\ \A e \in In(server) : server[e] = [name |-> Given, parent |-> Top]
  /\ shown = server /\ stale = FALSE
  /\ fetch = NoFetch
  /\ call = [p \in Procs |-> NoCall]
  /\ chosen = NoChoice
  /\ late = {} /\ doubt = {}
  /\ events = 0

-----------------------------------------------------------------------------
\* Reading the sidebar.

Count == events < MaxEvents /\ events' = events + 1
Asked == [NoFetch EXCEPT !.at = "asked"]

\* A component that needs it mounts, or the browser is online again.
Refetch == /\ fetch = NoFetch /\ Count
           /\ fetch' = Asked
           /\ UNCHANGED <<server, shown, stale, call, chosen, late, doubt>>

FetchRead == /\ fetch.at = "asked"
             /\ fetch' = [at |-> "read", items |-> server, doubt |-> {}]
             /\ UNCHANGED <<server, shown, stale, call, chosen, late, doubt, events>>

FetchArrives == /\ fetch.at = "read"
                /\ shown' = fetch.items /\ stale' = FALSE
                /\ doubt' = fetch.doubt
                /\ fetch' = NoFetch
                /\ UNCHANGED <<server, call, chosen, late, events>>

\* The retry failed too.
FetchFails == /\ fetch # NoFetch
              /\ fetch' = NoFetch /\ stale' = TRUE
              /\ UNCHANGED <<server, shown, call, chosen, late, doubt, events>>

-----------------------------------------------------------------------------
\* Actions.  optimistic cancels what is being read, changes what is shown, and calls.

Begin(p, c) ==
  /\ call[p] = NoCall /\ Count
  /\ call' = [call EXCEPT ![p] = [at |-> "sent", change |-> c, before |-> shown]]
  /\ IF c.kind = "create" THEN UNCHANGED <<shown, stale, fetch>>
     ELSE shown' = Changed(shown, c) /\ stale' = FALSE /\ fetch' = NoFetch
  /\ UNCHANGED <<server, late, doubt>>

\* The server makes the ids of what is created.
Fresh(id) == /\ shown[id] = None /\ server[id] = None
             /\ \A q \in Procs : call[q] # NoCall => call[q].change.id # id
             /\ \A c \in late : c.id # id

Create(p, c) == /\ Fresh(c.id)
                /\ c.to \in In(shown) \cup {Top} /\ (c.id \in Labels => c.to = Top)
                /\ Begin(p, c) /\ UNCHANGED chosen

UpdateOrDelete(p, c) == c.id \in In(shown) /\ Begin(p, c) /\ UNCHANGED chosen

\* Dropping a folder on another, between two, or on Home: not into its own subtree.
Drop(p, c) == /\ c.id \in In(shown) /\ c.to \in In(shown) \cup {Top}
              /\ c.to \notin Descendants(shown, c.id)
              /\ Begin(p, c) /\ UNCHANGED chosen

\* The dialog remembers where, while the tree may change under it.
OpenMoveDialog(f) == /\ chosen = NoChoice /\ f \in In(shown)
                     /\ chosen' = [folder |-> f, to |-> shown[f].parent]
                     /\ UNCHANGED <<server, shown, stale, fetch, call, late, doubt, events>>
ChooseParent(to) == /\ chosen # NoChoice /\ to \in MoveTargets(shown, chosen.folder)
                    /\ chosen' = [chosen EXCEPT !.to = to]
                    /\ UNCHANGED <<server, shown, stale, fetch, call, late, doubt, events>>
CloseMoveDialog == /\ chosen # NoChoice
                   /\ chosen' = NoChoice
                   /\ UNCHANGED <<server, shown, stale, fetch, call, late, doubt, events>>
MoveChosen(p, c) == /\ chosen # NoChoice /\ c.id = chosen.folder /\ c.to = chosen.to
                    /\ Begin(p, c) /\ chosen' = NoChoice

\* The server carries the change out, or refuses.
Serve(p) ==
  /\ call[p].at = "sent"
  /\ server' = IF Allowed(call[p].change) THEN Changed(server, call[p].change) ELSE server
  /\ call' = [call EXCEPT ![p].at = IF Allowed(call[p].change) THEN "ok" ELSE "failed"]
  /\ UNCHANGED <<shown, stale, fetch, chosen, late, doubt, events>>

\* No answer comes: the change was carried out before, may be later, or never is.
Unknown(S) == doubt' = doubt \cup S /\ fetch' = IF fetch.at = "read" THEN [fetch EXCEPT !.doubt = @ \cup S] ELSE fetch
AnswerLost(p) ==
  /\ call[p].at \in {"sent", "ok"}
  /\ call' = [call EXCEPT ![p].at = "failed"]
  /\ late' = IF call[p].at = "sent" THEN late \cup {call[p].change} ELSE late
  /\ IF call[p].at = "ok" /\ call[p].change.kind = "create" THEN Unknown({call[p].change.id})
     ELSE UNCHANGED <<doubt, fetch>>
  /\ UNCHANGED <<server, shown, stale, chosen, events>>

ServedLate(c) ==
  /\ c \in late /\ Allowed(c)
  /\ late' = late \ {c}
  /\ server' = Changed(server, c)
  /\ Unknown({e \in Rows : server'[e] # server[e]})
  /\ UNCHANGED <<shown, stale, call, chosen, events>>

\* invalidateQueries: what is being read is read again.
Invalidated == stale' = TRUE /\ fetch' = Asked

\* (Mutant: only what worked is read again.)
SettledUnread(c, before, ok) ==
  IF ok THEN shown' = shown /\ Invalidated
  ELSE shown' = before /\ stale' = FALSE /\ UNCHANGED fetch

\* The end of optimistic: a rollback to what was shown before it, and a new reading in any case.
Settled(c, before, ok) == (shown' = IF ok THEN shown ELSE before) /\ Invalidated

\* A creation adds the server's entry, and reads only when it worked.
Added(c, ok) == IF ok THEN shown' = Changed(shown, c) /\ Invalidated ELSE UNCHANGED <<shown, stale, fetch>>

Finish(p) ==
  /\ call[p].at \in {"ok", "failed"}
  /\ IF call[p].change.kind = "create" THEN Added(call[p].change, call[p].at = "ok")
     ELSE Settled(call[p].change, call[p].before, call[p].at = "ok")
  /\ call' = [call EXCEPT ![p] = NoCall]
  /\ UNCHANGED <<server, chosen, late, doubt, events>>

\* Somebody else, or another tab, changes the workspace.
Elsewhere(c) ==
  /\ Count /\ Allowed(c) /\ (c.kind = "create" => Fresh(c.id))
  /\ server' = Changed(server, c)
  /\ Unknown({e \in Rows : server'[e] # server[e]})
  /\ UNCHANGED <<shown, stale, call, chosen, late>>

Next ==
  \/ Refetch \/ FetchRead \/ FetchArrives \/ FetchFails
  \/ \E p \in Procs :
       \/ \E c \in Creations : Create(p, c)
       \/ \E c \in Updates \cup Deletions : UpdateOrDelete(p, c)
       \/ \E c \in Moves : Drop(p, c) \/ MoveChosen(p, c)
       \/ Serve(p) \/ AnswerLost(p) \/ Finish(p)
  \/ (\E f \in Folders : OpenMoveDialog(f)) \/ (\E to \in Places : ChooseParent(to)) \/ CloseMoveDialog
  \/ \E c \in late : ServedLate(c)
  \/ \E c \in Creations \cup Moves \cup Deletions : Elsewhere(c)

Spec == Init /\ [][Next]_vars

-----------------------------------------------------------------------------
\* Properties.

\* Every variable holds a value of its kind.
TypeOK ==
  /\ server \in Trees /\ shown \in Trees
  /\ stale \in BOOLEAN
  /\ fetch.at \in {"none", "asked", "read"} /\ fetch.doubt \subseteq Rows
  /\ \A p \in Procs : call[p].at \in {"idle", "sent", "ok", "failed"}
  /\ chosen.folder \in Folders \cup {None} /\ chosen.to \in Places
  /\ late \subseteq Creations \cup Updates \cup Moves \cup Deletions
  /\ doubt \subseteq Rows

\* When no call and no reading is under way and the last reading did not fail, the sidebar shows what the
\* server has, whichever changes overlapped, failed and rolled each other back, and whatever a reading
\* overtook.  Not certain are entries that others changed since, and creations nobody heard of.
SidebarIsCurrent ==
  (fetch = NoFetch /\ ~stale /\ \A p \in Procs : call[p] = NoCall)
    => \A e \in Rows \ doubt : shown[e] = server[e]
=============================================================================
