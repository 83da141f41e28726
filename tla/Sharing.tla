------------------------------- MODULE Sharing ------------------------------
(***************************************************************************)
(* Who may do what with a document: the grants and share links of one      *)
(* document and the requests that change them (packages/db documents.ts),  *)
(* each step of a request an action, and what the permission rules make of *)
(* them.                                                                   *)
(***************************************************************************)
EXTENDS Permissions, FiniteSets

CONSTANTS People,     \* users
          Member,     \* their roles in the document's workspace
          Creator,    \* who created the document
          GrantIds,   \* ids of permission records
          Links,      \* ids of share links
          LinkKinds,  \* the links that may be made: [role, expires, signIn, password, download]
          GrantKinds, \* the roles that may be granted
          Principals, \* whom a grant may name: <<"user" or "email", a person>>
          Procs,      \* requests at once
          None

ASSUME PeopleAssumption == Creator \in People /\ None \notin People
ASSUME MemberAssumption == Member \in [People -> Ranked \cup {"none"}]
ASSUME GrantKindsAssumption == GrantKinds \subseteq Ranked
ASSUME PrincipalsAssumption == /\ Principals \subseteq {"user", "email"} \X People
                               /\ <<"user", Creator>> \in Principals
ASSUME LinkKindsAssumption == LinkKinds \subseteq [role : LinkRoles, expires : {"never", "later"},
                                                  signIn : BOOLEAN, password : BOOLEAN,
                                                  download : BOOLEAN]
ASSUME GrantIdsAssumption == IsFiniteSet(GrantIds) /\ GrantIds # {} /\ None \notin GrantIds

VARIABLES doc,    \* the document: isShared, editorsCanShare, deleted
          grant,  \* permission records
          link,   \* share links
          req     \* what each request is doing

vars == <<doc, grant, link, req>>

NoGrant == [who |-> None, role |-> "none", expires |-> "never"]
Granted == {g \in GrantIds : grant[g] # NoGrant}
OwnerGrants == {g \in Granted : grant[g].role = "owner"}
LiveLinks == {l \in Links : link[l].state = "live"}

\* `actor` is the requester's role when it was authorized; `flag`, `grants` and `links` what
\* refreshShared has read so far.
Idle == [at |-> "idle", who |-> None, role |-> "none", actor |-> "none", id |-> None,
         before |-> "none", flag |-> FALSE, grants |-> FALSE, links |-> FALSE]

-----------------------------------------------------------------------------
\* The facts of a request by `u` (None: a guest) through the links in `ls` (at most one).

GrantsOf(u) == {grant[g] : g \in {h \in Granted : grant[h].who[2] = u}}

Facts(u, l, verified) ==
  [guest |-> u = None, member |-> IF u = None THEN "none" ELSE Member[u],
   grants |-> IF u = None THEN {} ELSE GrantsOf(u), link |-> l, verified |-> verified,
   deleted |-> doc.deleted, editorsCanShare |-> doc.editorsCanShare]
Own(u) == Facts(u, NoLink, FALSE)

\* (Mutant: grants that have expired are listed.)
ListableOld(u) == {g \in GrantsOf(u) : g.role # "owner"}

\* listSharedWithMe: an unexpired grant, not as an owner, from outside the workspace.
Listable(u) == {g \in GrantsOf(u) : g.expires # "past" /\ g.role # "owner"}
Listed(u) == ~doc.deleted /\ Listable(u) # {} /\ Member[u] = "none"
ListedRole(u) == Highest({g.role : g \in Listable(u)})

Begin(p, r) == req[p] = Idle /\ req' = [req EXCEPT ![p] = r]
Finish(p) == req' = [req EXCEPT ![p] = Idle]

\* The creator's owner grant is inserted with the document.
Init ==
  /\ doc = [isShared |-> FALSE, editorsCanShare |-> FALSE, deleted |-> FALSE]
  /\ \E first \in GrantIds :
       grant = [g \in GrantIds |-> IF g # first THEN NoGrant ELSE
                  [who |-> <<"user", Creator>>, role |-> "owner", expires |-> "never"]]
  /\ link = [l \in Links |-> NoLink]
  /\ req = [p \in Procs |-> Idle]

-----------------------------------------------------------------------------
\* Giving someone a role.

GrantAuthorize(p, u, who, role) ==
  /\ MayDocument(Own(u), "share")
  /\ Begin(p, [Idle EXCEPT !.at = "find", !.who = who, !.role = role, !.actor = RoleOf(Own(u))])
  /\ UNCHANGED <<doc, grant, link>>

\* findOne: any record of this principal.
GrantFind(p) ==
  LET theirs == {g \in Granted : grant[g].who = req[p].who} IN
  /\ req[p].at = "find"
  /\ \/ theirs = {} /\ req' = [req EXCEPT ![p].at = "guard"]
     \/ \E g \in theirs :
          req' = [req EXCEPT ![p].at = "guard", ![p].id = g, ![p].before = grant[g].role]
  /\ UNCHANGED <<doc, grant, link>>

\* (Mutant: an owner may always be removed.)
NeverLast(p) == FALSE

\* (Mutant: only the new role is compared.)
NewOwnersOnly(p) == req[p].role = "owner" => req[p].actor = "owner"

\* guardOwnerGrant: `role` is the one the record will have, none if it is revoked.
OwnersOnly(p) == (req[p].before = "owner" \/ req[p].role = "owner") => req[p].actor = "owner"
LastOwner(p) == /\ req[p].before = "owner" /\ req[p].role # "owner"
                /\ Cardinality(OwnerGrants) <= 1

Guard(p) ==
  /\ req[p].at = "guard"
  /\ IF OwnersOnly(p) /\ ~LastOwner(p)
     THEN req' = [req EXCEPT ![p].at = IF req[p].role = "none" THEN "delete" ELSE "write"]
     ELSE Finish(p)
  /\ UNCHANGED <<doc, grant, link>>

\* replaceOne with upsert: by the id that was found, or a new one.
GrantWrite(p) ==
  /\ req[p].at = "write"
  /\ \E g \in GrantIds, expires \in {"never", "later"} :
       /\ IF req[p].id = None THEN grant[g] = NoGrant ELSE g = req[p].id
       /\ grant' = [grant EXCEPT ![g] = [who |-> req[p].who, role |-> req[p].role,
                                         expires |-> expires]]
  /\ req' = [req EXCEPT ![p] = [Idle EXCEPT !.at = "load"]]
  /\ UNCHANGED <<doc, link>>

\* Taking a grant back: it is looked up by its id.
RevokeAuthorize(p, u, g) ==
  /\ MayDocument(Own(u), "share")
  /\ grant[g] # NoGrant
  /\ Begin(p, [Idle EXCEPT !.at = "guard", !.id = g, !.before = grant[g].role,
                           !.actor = RoleOf(Own(u))])
  /\ UNCHANGED <<doc, grant, link>>

RevokeDelete(p) ==
  /\ req[p].at = "delete"
  /\ grant' = [grant EXCEPT ![req[p].id] = NoGrant]
  /\ req' = [req EXCEPT ![p] = [Idle EXCEPT !.at = "load"]]
  /\ UNCHANGED <<doc, link>>

-----------------------------------------------------------------------------
\* Share links, and who may share.  Authorizing them is one step with their only write.

CreateShareLink(p, u, l, kind) ==
  /\ MayDocument(Own(u), "share")
  /\ link[l] = NoLink
  /\ link' = [link EXCEPT ![l] = [state |-> "live", role |-> kind.role, expires |-> kind.expires,
                                  signIn |-> kind.signIn, password |-> kind.password,
                                  download |-> kind.download]]
  /\ Begin(p, [Idle EXCEPT !.at = "load"])
  /\ UNCHANGED <<doc, grant>>

RevokeShareLink(p, u, l) ==
  /\ MayDocument(Own(u), "share")
  /\ link' = IF link[l].state = "live" THEN [link EXCEPT ![l].state = "revoked"] ELSE link
  /\ Begin(p, [Idle EXCEPT !.at = "load"])
  /\ UNCHANGED <<doc, grant>>

SetEditorsCanShare(u, allowed) ==
  /\ MayDocument(Own(u), "share") /\ RoleOf(Own(u)) = "owner"
  /\ doc' = [doc EXCEPT !.editorsCanShare = allowed]
  /\ UNCHANGED <<grant, link, req>>

\* The document goes to the trash and back (documents.trash, documents.restore).
SetDeleted(u, deleted) ==
  /\ MayDocument(Own(u), IF deleted THEN "delete" ELSE "restore")
  /\ doc' = [doc EXCEPT !.deleted = deleted]
  /\ UNCHANGED <<grant, link, req>>

-----------------------------------------------------------------------------
\* refreshShared: the document is loaded, the two counts run side by side, then the flag is written.

\* (Mutant: only the grants to users are counted.)
OtherUsers == {g \in Granted : grant[g].who[1] = "user" /\ grant[g].who[2] # Creator}

Others == {g \in Granted : grant[g].who # <<"user", Creator>>}

RefreshLoad(p) ==
  /\ req[p].at = "load"
  /\ req' = [req EXCEPT ![p].at = "count", ![p].flag = doc.isShared]
  /\ UNCHANGED <<doc, grant, link>>

RefreshCount(p) ==
  /\ \/ req[p].at = "count" /\ \/ req' = [req EXCEPT ![p].at = "countLinks", ![p].grants = Others # {}]
                               \/ req' = [req EXCEPT ![p].at = "countGrants", ![p].links = LiveLinks # {}]
     \/ req[p].at = "countLinks" /\ req' = [req EXCEPT ![p].at = "flag", ![p].links = LiveLinks # {}]
     \/ req[p].at = "countGrants" /\ req' = [req EXCEPT ![p].at = "flag", ![p].grants = Others # {}]
  /\ UNCHANGED <<doc, grant, link>>

RefreshWrite(p) ==
  LET isShared == req[p].grants \/ req[p].links IN
  /\ req[p].at = "flag"
  /\ doc' = IF isShared # req[p].flag THEN [doc EXCEPT !.isShared = isShared] ELSE doc
  /\ Finish(p)
  /\ UNCHANGED <<grant, link>>

-----------------------------------------------------------------------------
\* Time, and crashes.

ExpireGrant(g) == /\ grant[g].expires = "later"
                  /\ grant' = [grant EXCEPT ![g].expires = "past"]
                  /\ UNCHANGED <<doc, link, req>>

ExpireLink(l) == /\ link[l] # NoLink /\ link[l].expires = "later"
                 /\ link' = [link EXCEPT ![l].expires = "past"]
                 /\ UNCHANGED <<doc, grant, req>>

Crash(p) == req[p] # Idle /\ Finish(p) /\ UNCHANGED <<doc, grant, link>>

GrantStep(p) == GrantFind(p) \/ Guard(p) \/ GrantWrite(p) \/ RevokeDelete(p)
RefreshStep(p) == RefreshLoad(p) \/ RefreshCount(p) \/ RefreshWrite(p)

Request(p, u) ==
  \/ \E who \in Principals, role \in GrantKinds : GrantAuthorize(p, u, who, role)
  \/ \E g \in GrantIds : RevokeAuthorize(p, u, g)
  \/ \E l \in Links, kind \in LinkKinds : CreateShareLink(p, u, l, kind)
  \/ \E l \in Links : RevokeShareLink(p, u, l)

Setting(u) == \E on \in BOOLEAN : SetEditorsCanShare(u, on) \/ SetDeleted(u, on)

Next ==
  \/ \E p \in Procs : (\E u \in People : Request(p, u)) \/ GrantStep(p) \/ RefreshStep(p) \/ Crash(p)
  \/ \E u \in People : Setting(u)
  \/ (\E g \in GrantIds : ExpireGrant(g)) \/ (\E l \in Links : ExpireLink(l))

Spec == Init /\ [][Next]_vars

-----------------------------------------------------------------------------
\* Properties.

GrantRecords == [who : Principals, role : Ranked, expires : {"never", "later", "past"}]
LinkRecords == [state : {"live", "revoked"}, role : LinkRoles, expires : {"never", "later", "past"},
                signIn : BOOLEAN, password : BOOLEAN, download : BOOLEAN]

\* Every variable holds a value of its kind.
TypeOK ==
  /\ doc \in [isShared : BOOLEAN, editorsCanShare : BOOLEAN, deleted : BOOLEAN]
  /\ grant \in [GrantIds -> GrantRecords \cup {NoGrant}]
  /\ link \in [Links -> LinkRecords \cup {NoLink}]
  /\ req \in [Procs -> [at : {"idle", "find", "guard", "write", "delete", "load", "count",
                              "countLinks", "countGrants", "flag"},
                        who : Principals \cup {None}, role : Ranked \cup {"none"},
                        actor : Ranked \cup {"none"}, id : GrantIds \cup {None},
                        before : Ranked \cup {"none"}, flag : BOOLEAN, grants : BOOLEAN,
                        links : BOOLEAN]]

\* "The last owner grant must stay" (documents.ts:79): grants are changed and revoked one request
\* at a time and in any order, and an owner grant remains.
OwnerRemains == OwnerGrants # {}

\* refreshShared repairs what a crash left behind: when a request comes to its end, `isShared` says
\* whether anyone but the creator has a grant or a link is live (documents.ts:107).
RefreshedIsRight ==
  [][\A p \in Procs : req[p].at = "flag" /\ RefreshWrite(p)
                        => doc'.isShared = ((\E g \in Granted' : grant'[g].who # <<"user", Creator>>)
                                              \/ LiveLinks' # {})]_vars

\* Whoever is not an owner neither makes nor removes one: an editor who may share changes the other
\* grants only (guardOwnerGrant).  The requester's role is the one it was authorized with.
OwnersMakeOwners ==
  [][\A p \in Procs : (GrantWrite(p) \/ RevokeDelete(p)) /\ OwnerGrants' # OwnerGrants
                        => req[p].actor = "owner"]_vars

\* The last two are asked between requests: they depend on the records alone, and a crash brings
\* every one of their states there.
Quiet == \A p \in Procs : req[p] = Idle

\* A link only ever adds: what someone may do without it they may do when they come through it,
\* expired, revoked and download-less links included (decide.ts resolveRole).
LinkTakesNothingAway ==
  Quiet => \A u \in People, l \in Links, verified \in BOOLEAN, locked \in BOOLEAN :
    /\ \A a \in DocumentActions : MayDocument(Own(u), a) => MayDocument(Facts(u, link[l], verified), a)
    /\ \A a \in PageActions : MayPage(Own(u), locked, a) => MayPage(Facts(u, link[l], verified), locked, a)
    /\ \A a \in {"view", "edit"}, ownerOnly \in BOOLEAN :
         MayLayer(Own(u), locked, ownerOnly, a) => MayLayer(Facts(u, link[l], verified), locked, ownerOnly, a)

\* What "Shared with me" lists can be opened, with at least the role it shows (documents.ts:214).
ListedCanBeOpened ==
  Quiet => \A u \in People : Listed(u) => MayDocument(Own(u), "view") /\ AtLeast(RoleOf(Own(u)), ListedRole(u))
=============================================================================
