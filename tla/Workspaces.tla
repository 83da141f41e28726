----------------------------- MODULE Workspaces -----------------------------
(***************************************************************************)
(* Workspaces and their members (packages/db workspaces.ts): every sign-in *)
(* makes sure the user has a personal workspace, teams are created, and    *)
(* members are added, changed and removed, each database call a step.      *)
(***************************************************************************)
EXTENDS Permissions, FiniteSets

CONSTANTS Users,
          Spaces,    \* workspace ids
          MaxAdds,   \* members added, in the model
          Procs, None

VARIABLES space,    \* workspaces: owner and personal
          member,   \* members of each workspace: role, and a serial number for the record's id
          req,      \* what each request is doing
          ensured,  \* the users for whom ensurePersonalWorkspace returned
          adds      \* members added so far

vars == <<space, member, req, ensured, adds>>

NoSpace == [owner |-> None, personal |-> FALSE]
NoMember == [role |-> "none", id |-> 0]
Personal(u) == {w \in Spaces : space[w].owner = u /\ space[w].personal}

Idle == [at |-> "idle", user |-> None, space |-> None, role |-> "none", id |-> 0]
Begin(p, r) == req[p] = Idle /\ req' = [req EXCEPT ![p] = r]
Finish(p) == req' = [req EXCEPT ![p] = Idle]

Init ==
  /\ space = [w \in Spaces |-> NoSpace]
  /\ member = [w \in Spaces |-> [u \in Users |-> NoMember]]
  /\ req = [p \in Procs |-> Idle]
  /\ ensured = {}
  /\ adds = 0

-----------------------------------------------------------------------------
\* ensurePersonalWorkspace.

EnsureFind(p, u) ==
  /\ \/ Personal(u) = {} /\ Begin(p, [Idle EXCEPT !.at = "insert", !.user = u])
     \/ \E w \in Personal(u) : Begin(p, [Idle EXCEPT !.at = "join", !.user = u, !.space = w])
  /\ UNCHANGED <<space, member, ensured, adds>>

\* (Mutant: there is no unique index.)
Unrefused(u) == FALSE

\* The unique index refuses a second one.
Refused(u) == Personal(u) # {}

EnsureInsert(p) ==
  /\ req[p].at = "insert"
  /\ IF Refused(req[p].user)
     THEN req' = [req EXCEPT ![p].at = "refetch"] /\ UNCHANGED space
     ELSE \E w \in Spaces :
            /\ space[w] = NoSpace
            /\ space' = [space EXCEPT ![w] = [owner |-> req[p].user, personal |-> TRUE]]
            /\ req' = [req EXCEPT ![p].at = "join", ![p].space = w]
  /\ UNCHANGED <<member, ensured, adds>>

\* Lost a race: the winner's.
EnsureRefetch(p) ==
  /\ req[p].at = "refetch"
  /\ \E w \in Personal(req[p].user) : req' = [req EXCEPT ![p].at = "join", ![p].space = w]
  /\ UNCHANGED <<space, member, ensured, adds>>

\* The upsert: $setOnInsert leaves a record that is there alone.
Upserted(p) == member[req[p].space][req[p].user] = NoMember

EnsureJoin(p) ==
  /\ req[p].at = "join"
  /\ member' = IF Upserted(p) THEN [member EXCEPT ![req[p].space][req[p].user] = [role |-> "owner", id |-> 0]]
               ELSE member
  /\ ensured' = ensured \cup {req[p].user}
  /\ Finish(p)
  /\ UNCHANGED <<space, adds>>

\* create: one transaction.
CreateTeam(u, w) ==
  /\ space[w] = NoSpace
  /\ space' = [space EXCEPT ![w] = [owner |-> u, personal |-> FALSE]]
  /\ member' = [member EXCEPT ![w][u] = [role |-> "owner", id |-> 0]]
  /\ UNCHANGED <<req, ensured, adds>>

-----------------------------------------------------------------------------
\* Members: authorized and looked up, then written.

MayManage(u, w) ==
  /\ space[w] # NoSpace
  /\ MayWorkspace([guest |-> FALSE, deleted |-> FALSE, member |-> member[w][u].role,
                   personal |-> space[w].personal], "manageMembers")

Assignable == Ranked \ {"owner"}

AddCheck(p, u, w, v, role) ==
  /\ Begin(p, [Idle EXCEPT !.at = "add", !.user = v, !.space = w, !.role = role])
  /\ member[w][v] = NoMember /\ MayManage(u, w)
  /\ UNCHANGED <<space, member, ensured, adds>>

\* The index on workspace and user refuses a second record.
AddWrite(p) ==
  /\ req[p].at = "add"
  /\ IF member[req[p].space][req[p].user] = NoMember
     THEN /\ adds < MaxAdds /\ adds' = adds + 1
          /\ member' = [member EXCEPT ![req[p].space][req[p].user] = [role |-> req[p].role, id |-> adds + 1]]
     ELSE UNCHANGED <<member, adds>>
  /\ Finish(p)
  /\ UNCHANGED <<space, ensured>>

\* "The owner's role can't be changed", nor the owner removed.
Changeable(w, v) == member[w][v] # NoMember /\ member[w][v].role # "owner"

\* updateMemberRole, or removeMember with "none" for the role: the record that was found.
ChangeCheck(p, u, w, v, role) ==
  /\ Begin(p, [Idle EXCEPT !.at = "change", !.user = v, !.space = w, !.role = role, !.id = member[w][v].id])
  /\ Changeable(w, v) /\ MayManage(u, w)
  /\ UNCHANGED <<space, member, ensured, adds>>

ChangeWrite(p) ==
  LET m == member[req[p].space][req[p].user] IN
  /\ req[p].at = "change"
  /\ member' = IF m = NoMember \/ m.id # req[p].id THEN member
               ELSE [member EXCEPT ![req[p].space][req[p].user] =
                       IF req[p].role = "none" THEN NoMember ELSE [m EXCEPT !.role = req[p].role]]
  /\ Finish(p)
  /\ UNCHANGED <<space, ensured, adds>>

Crash(p) == req[p] # Idle /\ Finish(p) /\ UNCHANGED <<space, member, ensured, adds>>

Ensure(p) == (\E u \in Users : EnsureFind(p, u)) \/ EnsureInsert(p) \/ EnsureRefetch(p) \/ EnsureJoin(p)

Members(p) ==
  \/ \E u, v \in Users, w \in Spaces :
       \/ \E role \in Assignable : AddCheck(p, u, w, v, role)
       \/ \E role \in Assignable \cup {"none"} : ChangeCheck(p, u, w, v, role)
  \/ AddWrite(p) \/ ChangeWrite(p)

Next == \/ \E p \in Procs : Ensure(p) \/ Members(p) \/ Crash(p)
        \/ \E u \in Users, w \in Spaces : CreateTeam(u, w)

Spec == Init /\ [][Next]_vars

-----------------------------------------------------------------------------
\* Properties.

\* Every variable holds a value of its kind.
TypeOK ==
  /\ space \in [Spaces -> [owner : Users, personal : BOOLEAN] \cup {NoSpace}]
  /\ member \in [Spaces -> [Users -> [role : Ranked \cup {"none"}, id : 0..MaxAdds]]]
  /\ req \in [Procs -> [at : {"idle", "insert", "refetch", "join", "add", "change"},
                        user : Users \cup {None}, space : Spaces \cup {None},
                        role : Assignable \cup {"none"}, id : 0..MaxAdds]]
  /\ ensured \subseteq Users /\ adds \in 0..MaxAdds

\* listForActor: the workspaces of a user's memberships.
ListForActor(u) == {w \in Spaces : member[w][u] # NoMember}

\* After a sign-in a user sees one personal workspace for ever, their own and as its owner: several
\* sign-ins at once, and ones that died between the workspace and the membership, leave neither two
\* nor one without its owner (ensurePersonalWorkspace); and every team keeps its owner.
OwnersBelong ==
  /\ \A u \in ensured : \E w \in Spaces :
       /\ {v \in ListForActor(u) : space[v].personal} = {w}
       /\ space[w].owner = u /\ member[w][u].role = "owner"
  /\ \A w \in Spaces : space[w] # NoSpace /\ ~space[w].personal => member[w][space[w].owner].role = "owner"
=============================================================================
