---------------------------- MODULE SerialProofs ----------------------------
(***************************************************************************)
(* Theorems about what goes on with one request at a time.                 *)
(* Sharing, for any people, grants, links and number of requests at once:  *)
(* what the permission rules promise of every state of a document.  For    *)
(* one request at a time: an owner grant remains, only owners make owners, *)
(* and the shared flag is right when a request ends.                       *)
(* The trash, for one request at a time beside the other parts: what       *)
(* TrashProofs proves of it holds of MCSpec, where it is one part.         *)
(* What is in front of one person, for any browsers, names, askers,        *)
(* images, workspaces, tags, searches, folders and lifetimes: signing in,  *)
(* signed URLs, pages with their addresses and the search box, and the     *)
(* dialogs of the sidebar.                                                 *)
(***************************************************************************)
EXTENDS MCSerial, FiniteSetTheorems, SequenceTheorems, FunctionTheorems, TLAPS

-----------------------------------------------------------------------------
\* Sharing.

Roles == Ranked \cup {"none"}
DocRecords == [isShared : BOOLEAN, editorsCanShare : BOOLEAN, deleted : BOOLEAN]
Steps == {"idle", "find", "guard", "write", "delete", "load", "count", "countLinks", "countGrants",
          "flag"}
Requests == [at : Steps, who : Principals \cup {None}, role : Roles, actor : Roles,
             id : GrantIds \cup {None}, before : Roles, flag : BOOLEAN, grants : BOOLEAN,
             links : BOOLEAN]

LEMMA TypeParts == TypeOK <=> /\ doc \in DocRecords
                              /\ grant \in [GrantIds -> GrantRecords \cup {NoGrant}]
                              /\ link \in [Links -> LinkRecords \cup {NoLink}]
                              /\ req \in [Procs -> Requests]
  BY DEF TypeOK, DocRecords, Requests, Roles, Steps

-----------------------------------------------------------------------------
\* Roles.

LEMMA RankValues == /\ Rank["none"] = 0 /\ Rank["viewer"] = 1 /\ Rank["commenter"] = 2
                    /\ Rank["editor"] = 3 /\ Rank["owner"] = 4
  BY DEF Rank, Ranked

\* The order of roles is one, with none at the bottom and owner at the top.
LEMMA RoleOrder ==
  /\ \A r \in Roles : AtLeast(r, r) /\ AtLeast(r, "none") /\ AtLeast("owner", r)
  /\ \A r, s, t \in Roles : AtLeast(r, s) /\ AtLeast(s, t) => AtLeast(r, t)
  /\ \A r, s \in Roles : AtLeast(r, s) /\ AtLeast(s, r) => r = s
  /\ \A r \in Roles : AtLeast(r, "viewer") <=> r # "none"
  /\ \A r \in Roles : AtLeast(r, "editor") <=> r \in {"editor", "owner"}
  BY RankValues DEF AtLeast, Roles, Ranked

\* Highest is one of the roles, or none, and no role is above it.
LEMMA HighestIsTop ==
  ASSUME NEW S \in SUBSET Roles
  PROVE Highest(S) \in S \cup {"none"} /\ \A q \in S : AtLeast(Highest(S), q)
<1>1. \E r \in S \cup {"none"} : \A q \in S : AtLeast(r, q)
  <2>1. CASE "owner" \in S
    BY <2>1, RankValues DEF AtLeast, Roles, Ranked
  <2>2. CASE "owner" \notin S /\ "editor" \in S
    BY <2>2, RankValues DEF AtLeast, Roles, Ranked
  <2>3. CASE "owner" \notin S /\ "editor" \notin S /\ "commenter" \in S
    BY <2>3, RankValues DEF AtLeast, Roles, Ranked
  <2>4. CASE "owner" \notin S /\ "editor" \notin S /\ "commenter" \notin S /\ "viewer" \in S
    BY <2>4, RankValues DEF AtLeast, Roles, Ranked
  <2>5. CASE S \subseteq {"none"}
    BY <2>5, RankValues DEF AtLeast
  <2> QED
    BY <2>1, <2>2, <2>3, <2>4, <2>5 DEF Roles, Ranked
<1> QED
  BY <1>1 DEF Highest

\* The role of someone's own access, whatever link they come through.
LEMMA DirectRoleIs ==
  ASSUME TypeOK, NEW u \in People \cup {None}, NEW l, NEW v
  PROVE LET f == Facts(u, l, v)
            S == {f.member} \cup {g.role : g \in {h \in f.grants : h.expires # "past"}}
        IN  /\ DirectRole(f) = DirectRole(Own(u))
            /\ DirectRole(f) \in Roles
            /\ u # None => S \in SUBSET Roles /\ DirectRole(f) = Highest(S)
<1> DEFINE f == Facts(u, l, v)
           S == {f.member} \cup {g.role : g \in {h \in f.grants : h.expires # "past"}}
<1>1. DirectRole(f) = DirectRole(Own(u))
  BY DEF Facts, Own, DirectRole
<1>2. ASSUME u # None PROVE S \in SUBSET Roles /\ DirectRole(f) = Highest(S)
  <2>1. f.member \in Roles
    BY <1>2, MemberAssumption DEF Facts, Roles
  <2>2. \A g \in f.grants : g.role \in Roles
    <3>1. f.grants = {grant[g] : g \in {h \in Granted : grant[h].who[2] = u}}
      BY <1>2 DEF Facts, GrantsOf
    <3>2. \A g \in Granted : grant[g] \in GrantRecords
      BY TypeParts DEF Granted
    <3> QED
      BY <3>1, <3>2 DEF GrantRecords, Roles
  <2>3. DirectRole(f) = Highest(S)
    BY <1>2 DEF Facts, DirectRole
  <2> QED
    BY <2>1, <2>2, <2>3
<1>3. DirectRole(f) \in Roles
  <2>1. CASE u = None
    BY <2>1 DEF Facts, DirectRole, Roles
  <2>2. CASE u # None
    BY <1>2, <2>2, HighestIsTop DEF Roles
  <2> QED
    BY <2>1, <2>2
<1> QED
  BY <1>1, <1>2, <1>3

\* Without a link the role is the direct one; with one it is no lower.
LEMMA RoleOfIs ==
  ASSUME TypeOK, NEW u \in People \cup {None}, NEW l \in LinkRecords \cup {NoLink}, NEW v \in BOOLEAN
  PROVE LET d == DirectRole(Own(u))
            r == RoleOf(Facts(u, l, v))
        IN  /\ d \in Roles /\ r \in Roles
            /\ RoleOf(Own(u)) = d
            /\ AtLeast(r, d)
            /\ r = d \/ r \in LinkRoles
<1> DEFINE d == DirectRole(Own(u))
           f == Facts(u, l, v)
           S == {d} \cup (IF LinkOpens(f) THEN {f.link.role} ELSE {})
<1>1. d \in Roles /\ DirectRole(f) = d
  BY DirectRoleIs DEF Own
<1>2. RoleOf(f) = Highest(S)
  BY <1>1 DEF RoleOf
<1>3. LinkOpens(f) => f.link.role \in LinkRoles
  BY DEF LinkOpens, Facts, NoLink, LinkRecords
<1>4. S \in SUBSET Roles
  BY <1>1, <1>3 DEF LinkRoles, Roles, Ranked
<1>5. /\ Highest(S) \in S \cup {"none"}
      /\ \A q \in S : AtLeast(Highest(S), q)
  BY <1>4, HighestIsTop
<1>6. d \in S /\ AtLeast(Highest(S), d) /\ Highest(S) \in Roles
  BY <1>4, <1>5 DEF Roles
<1>7. Highest(S) = d \/ Highest(S) \in LinkRoles
  <2>1. CASE Highest(S) = "none"
    BY <1>1, <1>6, <2>1, RoleOrder DEF Roles
  <2>2. CASE Highest(S) \in S
    BY <1>3, <2>2
  <2> QED
    BY <1>5, <2>1, <2>2
<1>8. RoleOf(Own(u)) = d
  <2>1. RoleOf(Own(u)) = Highest({d})
    BY DEF RoleOf, LinkOpens, Own, Facts, NoLink
  <2>2. Highest({d}) \in {d} \cup {"none"} /\ AtLeast(Highest({d}), d)
    BY <1>1, HighestIsTop
  <2>3. Highest({d}) = "none" => d = "none"
    BY <1>1, <2>2, RoleOrder DEF Roles
  <2> QED
    BY <2>1, <2>2, <2>3
<1> QED
  BY <1>1, <1>2, <1>6, <1>7, <1>8

-----------------------------------------------------------------------------
\* What holds in every state whose variables hold values of their kinds.

\* What is listed as shared can be opened (documents.ts:214).
LEMMA ListedOpens == TypeOK => ListedCanBeOpened
<1> SUFFICES ASSUME TypeOK, NEW u \in People, Listed(u)
             PROVE MayDocument(Own(u), "view") /\ AtLeast(RoleOf(Own(u)), ListedRole(u))
  BY DEF ListedCanBeOpened
<1> DEFINE f == Own(u)
           S == {f.member} \cup {g.role : g \in {h \in f.grants : h.expires # "past"}}
           R == {g.role : g \in Listable(u)}
<1>0. NoLink \in LinkRecords \cup {NoLink} /\ FALSE \in BOOLEAN
  OBVIOUS
<1>1. RoleOf(f) = DirectRole(f) /\ RoleOf(f) \in Roles
  BY <1>0, RoleOfIs
<1>2. \A g \in GrantsOf(u) : g.role \in Ranked
  BY TypeParts DEF GrantsOf, Granted, GrantRecords
<1>3. R \in SUBSET Roles /\ R # {}
  BY <1>2 DEF Listed, Listable, Roles
<1>4. ListedRole(u) = Highest(R) /\ Highest(R) \in R
  <2>1. Highest(R) \in R \cup {"none"} /\ \A q \in R : AtLeast(Highest(R), q)
    BY <1>3, HighestIsTop
  <2>2. PICK q \in R : q \in Ranked
    BY <1>2, <1>3 DEF Listable
  <2>3. ASSUME Highest(R) = "none" PROVE FALSE
    <3>1. q \in Roles /\ "none" \in Roles /\ q # "none"
      BY <2>2 DEF Roles, Ranked
    <3>2. AtLeast("none", q)
      BY <2>1, <2>2, <2>3
    <3> QED
      BY <3>1, <3>2, RoleOrder
  <2> QED
    BY <2>1, <2>3 DEF ListedRole
<1>5. u # None => R \subseteq S
  BY DEF Own, Facts, Listable
<1>6. AtLeast(RoleOf(f), ListedRole(u)) /\ RoleOf(f) # "none"
  <2>1. CASE u # None
    <3>1. S \in SUBSET Roles /\ DirectRole(f) = Highest(S)
      BY <2>1, DirectRoleIs DEF Own
    <3>2. Highest(R) \in S
      BY <1>4, <1>5, <2>1
    <3>3. AtLeast(Highest(S), Highest(R))
      BY <3>1, <3>2, HighestIsTop
    <3>4. Highest(R) \in Ranked
      BY <1>2, <1>4 DEF Listable
    <3> QED
      BY <1>1, <1>4, <3>1, <3>3, <3>4, RankValues DEF AtLeast, Ranked
  <2> QED
    BY <2>1, PeopleAssumption
<1>7. MayDocument(f, "view")
  <2>1. ~f.deleted
    BY DEF Listed, Own, Facts
  <2>2. Required["view"] = "viewer"
    BY DEF Required, DocumentActions
  <2>3. AtLeast(RoleOf(f), "viewer")
    BY <1>1, <1>6, RoleOrder
  <2> QED
    BY <1>6, <2>1, <2>2, <2>3 DEF MayDocument, MayLive
<1> QED
  BY <1>6, <1>7

\* A link takes nothing away (decide.ts resolveRole).
LEMMA LinkAdds == TypeOK => LinkTakesNothingAway
<1> SUFFICES ASSUME TypeOK, NEW u \in People, NEW l \in Links, NEW v \in BOOLEAN, NEW locked \in BOOLEAN
             PROVE /\ \A a \in DocumentActions : MayDocument(Own(u), a) => MayDocument(Facts(u, link[l], v), a)
                   /\ \A a \in PageActions : MayPage(Own(u), locked, a) => MayPage(Facts(u, link[l], v), locked, a)
                   /\ \A a \in {"view", "edit"}, ownerOnly \in BOOLEAN :
                        MayLayer(Own(u), locked, ownerOnly, a)
                          => MayLayer(Facts(u, link[l], v), locked, ownerOnly, a)
  BY DEF LinkTakesNothingAway
<1> DEFINE f == Own(u)
           g == Facts(u, link[l], v)
           d == DirectRole(f)
<1>1. link[l] \in LinkRecords \cup {NoLink}
  BY TypeParts
<1>2. /\ d \in Roles /\ RoleOf(f) = d
      /\ RoleOf(g) \in Roles /\ AtLeast(RoleOf(g), d)
      /\ RoleOf(g) = d \/ RoleOf(g) \in LinkRoles
  BY <1>1, RoleOfIs
<1>3. DirectRole(g) = d
  BY DirectRoleIs
<1>4. /\ g.guest = f.guest /\ g.deleted = f.deleted /\ g.editorsCanShare = f.editorsCanShare
      /\ f.link = NoLink
  BY DEF Own, Facts
<1>5. d # "none" => RoleOf(g) # "none"
  BY <1>2, RoleOrder DEF Roles
<1>6. d = "owner" => RoleOf(g) = "owner"
  BY <1>2, RoleOrder DEF Roles, Ranked
<1>7. \A r \in Roles : AtLeast(d, r) => AtLeast(RoleOf(g), r)
  BY <1>2, RoleOrder
<1>8. MayShare(f) => MayShare(g)
  <2>1. d = "editor" => RoleOf(g) = "editor"
    <3>1. d = "editor" => RoleOf(g) \in {"editor", "owner"}
      BY <1>2, RoleOrder
    <3> QED
      BY <1>2, <3>1 DEF LinkRoles
  <2> QED
    BY <1>2, <1>4, <1>6, <2>1 DEF MayShare
<1> HIDE DEF f, g
<1>9. ASSUME NEW a \in DocumentActions, MayDocument(f, a) PROVE MayDocument(g, a)
  <2>1. CASE f.deleted
    BY <1>2, <1>3, <1>4, <1>5, <1>9, <2>1 DEF MayDocument, MayTrashed
  <2>2. CASE ~f.deleted
    <3>1. RoleOf(g) # "none" /\ MayLive(f, a)
      BY <1>2, <1>5, <1>9, <2>2 DEF MayDocument
    <3>2. CASE a = "share"
      BY <1>4, <1>8, <2>2, <3>1, <3>2 DEF MayDocument, MayLive
    <3>3. CASE a # "share"
      <4>1. a \notin {"restore", "purge"} /\ (g.guest => a # "delete") /\ AtLeast(d, Required[a])
        BY <1>2, <1>4, <3>1, <3>3 DEF MayLive
      <4>2. Required[a] \in Roles /\ Required["download"] = "viewer"
        BY <3>3 DEF Required, DocumentActions, Roles, Ranked
      <4>3. AtLeast(RoleOf(g), Required[a])
        BY <1>7, <4>1, <4>2
      <4>4. a = "download" => ~DownloadOff(g)
        BY <1>3, <4>1, <4>2 DEF DownloadOff
      <4> QED
        BY <1>4, <2>2, <3>1, <3>3, <4>1, <4>3, <4>4 DEF MayDocument, MayLive
    <3> QED
      BY <3>2, <3>3
  <2> QED
    BY <2>1, <2>2
<1>10. ASSUME NEW a \in PageActions, MayPage(f, locked, a) PROVE MayPage(g, locked, a)
  <2>1. /\ "view" \in DocumentActions /\ "managePages" \in DocumentActions
        /\ a \notin {"view", "lock"} => a \in DocumentActions
    BY DEF DocumentActions, PageActions
  <2> QED
    BY <1>2, <1>6, <1>9, <1>10, <2>1 DEF MayPage
<1>11. ASSUME NEW a \in {"view", "edit"}, NEW ownerOnly \in BOOLEAN, MayLayer(f, locked, ownerOnly, a)
       PROVE MayLayer(g, locked, ownerOnly, a)
  <2>1. "view" \in DocumentActions /\ "edit" \in PageActions
    BY DEF DocumentActions, PageActions
  <2> QED
    BY <1>2, <1>6, <1>9, <1>10, <1>11, <2>1 DEF MayLayer
<1> QED
  BY <1>9, <1>10, <1>11 DEF f, g
-----------------------------------------------------------------------------
\* Types.

\* A request that grants has a principal and a role; one that takes back has neither, but an id.
ReqInv ==
  \A p \in Procs :
    /\ req[p].at \in {"find", "write"} => req[p].role # "none"
    /\ req[p].at \in {"find", "guard", "write"} /\ req[p].role # "none" => req[p].who \in Principals
    /\ req[p].at \in {"guard", "delete"} /\ req[p].role = "none" => req[p].id # None
    /\ req[p].at = "delete" => req[p].role = "none"

TInv == TypeOK /\ ReqInv

LEMMA IdleType == Idle \in Requests
  BY DEF Idle, Requests, Roles, Steps

LEMMA ActorType == ASSUME TypeOK, NEW u \in People PROVE RoleOf(Own(u)) \in Roles
  BY RoleOfIs DEF LinkRoles, Roles, Ranked

\* A step of p that leaves the records of the right kind.
LEMMA Keeps ==
  ASSUME TInv, doc' \in DocRecords, grant' \in [GrantIds -> GrantRecords \cup {NoGrant}],
         link' \in [Links -> LinkRecords \cup {NoLink}],
         NEW p \in Procs, NEW r \in Requests, req' = [req EXCEPT ![p] = r],
         /\ r.at \in {"find", "write"} => r.role # "none"
         /\ r.at \in {"find", "guard", "write"} /\ r.role # "none" => r.who \in Principals
         /\ r.at \in {"guard", "delete"} /\ r.role = "none" => r.id # None
         /\ r.at = "delete" => r.role = "none"
  PROVE TInv'
<1>1. req \in [Procs -> Requests]
  BY TypeParts DEF TInv
<1>2. req' \in [Procs -> Requests] /\ req'[p] = r /\ \A q \in Procs \ {p} : req'[q] = req[q]
  BY <1>1
<1>3. TypeOK'
  BY <1>2 DEF TypeOK, DocRecords, Requests, Roles, Steps
<1>4. ReqInv'
  BY <1>2 DEF TInv, ReqInv
<1> QED
  BY <1>3, <1>4 DEF TInv

LEMMA Kinds == TInv => /\ doc \in DocRecords
                       /\ grant \in [GrantIds -> GrantRecords \cup {NoGrant}]
                       /\ link \in [Links -> LinkRecords \cup {NoLink}]
                       /\ req \in [Procs -> Requests]
  BY TypeParts DEF TInv

LEMMA TypeInit == Init => TInv
<1> SUFFICES ASSUME Init PROVE TInv
  OBVIOUS
<1>1. doc \in DocRecords /\ link \in [Links -> LinkRecords \cup {NoLink}]
  BY DEF Init, DocRecords
<1>2. grant \in [GrantIds -> GrantRecords \cup {NoGrant}]
  BY PrincipalsAssumption DEF Init, GrantRecords, Ranked
<1>3. req \in [Procs -> Requests] /\ \A p \in Procs : req[p].at = "idle"
  BY IdleType DEF Init, Idle
<1> QED
  BY <1>1, <1>2, <1>3, TypeParts DEF TInv, ReqInv

LEMMA TypeRequest ==
  ASSUME TInv, NEW p \in Procs, NEW u \in People, Request(p, u)
  PROVE TInv'
<1>1. /\ doc \in DocRecords /\ grant \in [GrantIds -> GrantRecords \cup {NoGrant}]
      /\ link \in [Links -> LinkRecords \cup {NoLink}] /\ req \in [Procs -> Requests]
  BY Kinds
<1>2. RoleOf(Own(u)) \in Roles
  BY ActorType DEF TInv
<1>3. ASSUME NEW who \in Principals, NEW role \in GrantKinds, GrantAuthorize(p, u, who, role) PROVE TInv'
  <2> DEFINE r == [Idle EXCEPT !.at = "find", !.who = who, !.role = role, !.actor = RoleOf(Own(u))]
  <2>1. role \in Ranked /\ role # "none"
    BY GrantKindsAssumption DEF Ranked
  <2>2. r \in Requests /\ r.at = "find" /\ r.role = role /\ r.who = who
    BY <1>2, <2>1, IdleType DEF Requests, Roles, Steps
  <2>3. req' = [req EXCEPT ![p] = r] /\ UNCHANGED <<doc, grant, link>>
    BY <1>3 DEF GrantAuthorize, Begin
  <2> HIDE DEF r
  <2> QED
    BY <1>1, <2>1, <2>2, <2>3, Keeps
<1>4. ASSUME NEW g \in GrantIds, RevokeAuthorize(p, u, g) PROVE TInv'
  <2> DEFINE r == [Idle EXCEPT !.at = "guard", !.id = g, !.before = grant[g].role, !.actor = RoleOf(Own(u))]
  <2>1. grant[g].role \in Roles
    BY <1>1, <1>4 DEF RevokeAuthorize, GrantRecords, Roles
  <2>2. r \in Requests /\ r.at = "guard" /\ r.role = "none" /\ r.id # None
    BY <1>2, <2>1, IdleType, GrantIdsAssumption DEF Requests, Roles, Steps, Idle
  <2>3. req' = [req EXCEPT ![p] = r] /\ UNCHANGED <<doc, grant, link>>
    BY <1>4 DEF RevokeAuthorize, Begin
  <2> HIDE DEF r
  <2> QED
    BY <1>1, <2>2, <2>3, Keeps
<1>5. ASSUME link' \in [Links -> LinkRecords \cup {NoLink}], UNCHANGED <<doc, grant>>,
             Begin(p, [Idle EXCEPT !.at = "load"])
      PROVE TInv'
  <2> DEFINE r == [Idle EXCEPT !.at = "load"]
  <2>1. r \in Requests /\ r.at = "load"
    BY IdleType DEF Requests, Steps
  <2>2. req' = [req EXCEPT ![p] = r]
    BY <1>5 DEF Begin
  <2> HIDE DEF r
  <2> QED
    BY <1>1, <1>5, <2>1, <2>2, Keeps
<1>6. ASSUME NEW l \in Links, NEW kind \in LinkKinds, CreateShareLink(p, u, l, kind) PROVE TInv'
  <2>1. link' \in [Links -> LinkRecords \cup {NoLink}]
    BY <1>1, <1>6, LinkKindsAssumption DEF CreateShareLink, LinkRecords
  <2> QED
    BY <1>5, <1>6, <2>1 DEF CreateShareLink
<1>7. ASSUME NEW l \in Links, RevokeShareLink(p, u, l) PROVE TInv'
  <2>1. link[l].state = "live" => [link[l] EXCEPT !.state = "revoked"] \in LinkRecords
    BY <1>1 DEF LinkRecords, NoLink
  <2>2. link' = link \/ (link[l].state = "live" /\ link' = [link EXCEPT ![l] = [link[l] EXCEPT !.state = "revoked"]])
    BY <1>1, <1>7 DEF RevokeShareLink
  <2>3. link' \in [Links -> LinkRecords \cup {NoLink}]
    BY <1>1, <2>1, <2>2
  <2> QED
    BY <1>5, <1>7, <2>3 DEF RevokeShareLink
<1> QED
  BY <1>3, <1>4, <1>6, <1>7 DEF Request

LEMMA TypeGrantStep ==
  ASSUME TInv, NEW p \in Procs, GrantStep(p)
  PROVE TInv'
<1>1. /\ doc \in DocRecords /\ grant \in [GrantIds -> GrantRecords \cup {NoGrant}]
      /\ link \in [Links -> LinkRecords \cup {NoLink}] /\ req \in [Procs -> Requests]
      /\ req[p] \in Requests
  BY Kinds
<1>2. CASE GrantFind(p)
  <2>1. req[p].role # "none" /\ req[p].who \in Principals
    BY <1>2 DEF GrantFind, TInv, ReqInv
  <2>2. PICK i \in GrantIds \cup {None}, b \in Roles :
          req' = [req EXCEPT ![p] = [req[p] EXCEPT !.at = "guard", !.id = i, !.before = b]]
    <3>1. CASE req' = [req EXCEPT ![p].at = "guard"]
      <4>1. req' = [req EXCEPT ![p] = [req[p] EXCEPT !.at = "guard", !.id = req[p].id, !.before = req[p].before]]
        BY <1>1, <3>1 DEF Requests
      <4>2. req[p].id \in GrantIds \cup {None} /\ req[p].before \in Roles
        BY <1>1 DEF Requests
      <4> QED
        BY <4>1, <4>2
    <3>2. ASSUME NEW g \in Granted,
                 req' = [req EXCEPT ![p].at = "guard", ![p].id = g, ![p].before = grant[g].role]
          PROVE \E i \in GrantIds \cup {None}, b \in Roles :
                  req' = [req EXCEPT ![p] = [req[p] EXCEPT !.at = "guard", !.id = i, !.before = b]]
      <4>1. g \in GrantIds /\ grant[g].role \in Roles
        BY <1>1 DEF Granted, GrantRecords, Roles
      <4>2. req' = [req EXCEPT ![p] = [req[p] EXCEPT !.at = "guard", !.id = g, !.before = grant[g].role]]
        BY <1>1, <3>2
      <4> QED
        BY <4>1, <4>2
    <3> QED
      BY <1>2, <3>1, <3>2 DEF GrantFind
  <2> DEFINE r == [req[p] EXCEPT !.at = "guard", !.id = i, !.before = b]
  <2>3. r \in Requests /\ r.at = "guard" /\ r.role = req[p].role /\ r.who = req[p].who
    BY <1>1 DEF Requests, Steps
  <2>4. req' = [req EXCEPT ![p] = r] /\ UNCHANGED <<doc, grant, link>>
    BY <1>2, <2>2 DEF GrantFind
  <2> HIDE DEF r
  <2> QED
    BY <1>1, <2>1, <2>3, <2>4, Keeps
<1>3. CASE Guard(p)
  <2>1. CASE Finish(p)
    <3>1. req' = [req EXCEPT ![p] = Idle] /\ Idle.at = "idle"
      BY <2>1 DEF Finish, Idle
    <3> QED
      BY <1>1, <1>3, <3>1, IdleType, Keeps DEF Guard
  <2>2. CASE ~Finish(p)
    <3> DEFINE s == IF req[p].role = "none" THEN "delete" ELSE "write"
               r == [req[p] EXCEPT !.at = s]
    <3>1. req' = [req EXCEPT ![p] = r] /\ UNCHANGED <<doc, grant, link>> /\ req[p].at = "guard"
      BY <1>1, <1>3, <2>2 DEF Guard
    <3>2. r \in Requests /\ r.at = s /\ r.role = req[p].role /\ r.who = req[p].who /\ r.id = req[p].id
      BY <1>1 DEF Requests, Steps
    <3>3. /\ r.at = "delete" => r.role = "none" /\ r.id # None
          /\ r.at = "write" => r.role # "none" /\ r.who \in Principals
          /\ r.at \in {"delete", "write"}
      BY <3>1, <3>2 DEF TInv, ReqInv
    <3> HIDE DEF r, s
    <3> QED
      BY <1>1, <3>1, <3>2, <3>3, Keeps
  <2> QED
    BY <2>1, <2>2
<1>4. ASSUME grant' \in [GrantIds -> GrantRecords \cup {NoGrant}], UNCHANGED <<doc, link>>,
             req' = [req EXCEPT ![p] = [Idle EXCEPT !.at = "load"]]
      PROVE TInv'
  <2> DEFINE r == [Idle EXCEPT !.at = "load"]
  <2>1. r \in Requests /\ r.at = "load"
    BY IdleType DEF Requests, Steps
  <2>2. req' = [req EXCEPT ![p] = r]
    BY <1>4
  <2> HIDE DEF r
  <2> QED
    BY <1>1, <1>4, <2>1, <2>2, Keeps
<1>5. CASE GrantWrite(p)
  <2>1. req[p].who \in Principals /\ req[p].role \in Ranked
    BY <1>1, <1>5 DEF GrantWrite, TInv, ReqInv, Requests, Roles
  <2>2. PICK g \in GrantIds, expires \in {"never", "later"} :
          grant' = [grant EXCEPT ![g] = [who |-> req[p].who, role |-> req[p].role, expires |-> expires]]
    BY <1>5 DEF GrantWrite
  <2>3. [who |-> req[p].who, role |-> req[p].role, expires |-> expires] \in GrantRecords
    BY <2>1 DEF GrantRecords
  <2>4. grant' \in [GrantIds -> GrantRecords \cup {NoGrant}]
    BY <1>1, <2>2, <2>3
  <2> QED
    BY <1>4, <1>5, <2>4 DEF GrantWrite
<1>6. CASE RevokeDelete(p)
  BY <1>1, <1>4, <1>6 DEF RevokeDelete
<1> QED
  BY <1>2, <1>3, <1>5, <1>6 DEF GrantStep

LEMMA TypeRefresh ==
  ASSUME TInv, NEW p \in Procs, RefreshStep(p) \/ Crash(p)
  PROVE TInv'
<1>1. /\ doc \in DocRecords /\ grant \in [GrantIds -> GrantRecords \cup {NoGrant}]
      /\ link \in [Links -> LinkRecords \cup {NoLink}] /\ req \in [Procs -> Requests]
      /\ req[p] \in Requests
  BY Kinds
<1>2. ASSUME Finish(p), doc' \in DocRecords, UNCHANGED <<grant, link>> PROVE TInv'
  <2>1. req' = [req EXCEPT ![p] = Idle] /\ Idle.at = "idle"
    BY <1>2 DEF Finish, Idle
  <2> QED
    BY <1>1, <1>2, <2>1, IdleType, Keeps
<1>3. CASE RefreshLoad(p) \/ RefreshCount(p)
  <2>1. PICK s \in {"count", "countLinks", "countGrants", "flag"}, fl \in BOOLEAN, gr \in BOOLEAN, li \in BOOLEAN :
          req' = [req EXCEPT ![p] = [req[p] EXCEPT !.at = s, !.flag = fl, !.grants = gr, !.links = li]]
    <3>1. req[p].flag \in BOOLEAN /\ req[p].grants \in BOOLEAN /\ req[p].links \in BOOLEAN
      BY <1>1 DEF Requests
    <3>2. CASE RefreshLoad(p)
      <4>1. req' = [req EXCEPT ![p] = [req[p] EXCEPT !.at = "count", !.flag = doc.isShared,
                                                     !.grants = req[p].grants, !.links = req[p].links]]
        BY <1>1, <3>2 DEF RefreshLoad, Requests
      <4>2. doc.isShared \in BOOLEAN
        BY <1>1 DEF DocRecords
      <4> QED
        BY <3>1, <4>1, <4>2
    <3>3. CASE RefreshCount(p)
      <4>1. ASSUME NEW s \in {"count", "countLinks", "countGrants", "flag"},
                   req' = [req EXCEPT ![p].at = s, ![p].grants = Others # {}]
            PROVE req' = [req EXCEPT ![p] = [req[p] EXCEPT !.at = s, !.flag = req[p].flag,
                                                           !.grants = Others # {}, !.links = req[p].links]]
        BY <1>1, <4>1 DEF Requests
      <4>2. ASSUME NEW s \in {"count", "countLinks", "countGrants", "flag"},
                   req' = [req EXCEPT ![p].at = s, ![p].links = LiveLinks # {}]
            PROVE req' = [req EXCEPT ![p] = [req[p] EXCEPT !.at = s, !.flag = req[p].flag,
                                                           !.grants = req[p].grants, !.links = LiveLinks # {}]]
        BY <1>1, <4>2 DEF Requests
      <4>3. \E s \in {"count", "countLinks", "countGrants", "flag"} :
              \/ req' = [req EXCEPT ![p].at = s, ![p].grants = Others # {}]
              \/ req' = [req EXCEPT ![p].at = s, ![p].links = LiveLinks # {}]
        BY <3>3 DEF RefreshCount
      <4>4. (Others # {}) \in BOOLEAN /\ (LiveLinks # {}) \in BOOLEAN
        OBVIOUS
      <4>5. PICK t \in {"count", "countLinks", "countGrants", "flag"} :
              \/ req' = [req EXCEPT ![p].at = t, ![p].grants = Others # {}]
              \/ req' = [req EXCEPT ![p].at = t, ![p].links = LiveLinks # {}]
        BY <4>3
      <4>6. \/ req' = [req EXCEPT ![p] = [req[p] EXCEPT !.at = t, !.flag = req[p].flag,
                                                       !.grants = Others # {}, !.links = req[p].links]]
            \/ req' = [req EXCEPT ![p] = [req[p] EXCEPT !.at = t, !.flag = req[p].flag,
                                                       !.grants = req[p].grants, !.links = LiveLinks # {}]]
        BY <4>1, <4>2, <4>5, Zenon
      <4> QED
        BY <3>1, <4>4, <4>6, Zenon
    <3> QED
      BY <1>3, <3>2, <3>3
  <2> DEFINE r == [req[p] EXCEPT !.at = s, !.flag = fl, !.grants = gr, !.links = li]
  <2>2. r \in Requests /\ r.at = s
    BY <1>1 DEF Requests, Steps
  <2>3. req' = [req EXCEPT ![p] = r] /\ UNCHANGED <<doc, grant, link>>
    BY <1>3, <2>1 DEF RefreshLoad, RefreshCount
  <2> HIDE DEF r
  <2> QED
    BY <1>1, <2>2, <2>3, Keeps
<1>4. CASE RefreshWrite(p)
  <2>1. doc' \in DocRecords
    BY <1>1, <1>4 DEF RefreshWrite, DocRecords, Requests
  <2> QED
    BY <1>2, <1>4, <2>1 DEF RefreshWrite
<1>5. CASE Crash(p)
  BY <1>1, <1>2, <1>5 DEF Crash
<1> QED
  BY <1>3, <1>4, <1>5 DEF RefreshStep

\* Settings and time leave the requests alone.
LEMMA TypeRest ==
  ASSUME TInv, \/ \E u \in People : Setting(u)
               \/ (\E g \in GrantIds : ExpireGrant(g)) \/ (\E l \in Links : ExpireLink(l))
  PROVE TInv'
<1>1. /\ doc \in DocRecords /\ grant \in [GrantIds -> GrantRecords \cup {NoGrant}]
      /\ link \in [Links -> LinkRecords \cup {NoLink}] /\ req \in [Procs -> Requests]
  BY Kinds
<1>2. ASSUME doc' \in DocRecords, grant' \in [GrantIds -> GrantRecords \cup {NoGrant}],
             link' \in [Links -> LinkRecords \cup {NoLink}], req' = req
      PROVE TInv'
  BY <1>1, <1>2 DEF TInv, TypeOK, ReqInv, DocRecords, Requests, Roles, Steps
<1>3. ASSUME NEW u \in People, Setting(u) PROVE TInv'
  <2>1. doc' \in DocRecords /\ UNCHANGED <<grant, link, req>>
    BY <1>1, <1>3 DEF Setting, SetEditorsCanShare, SetDeleted, DocRecords
  <2> QED
    BY <1>1, <1>2, <2>1
<1>4. ASSUME NEW g \in GrantIds, ExpireGrant(g) PROVE TInv'
  <2>1. grant[g] \in GrantRecords
    BY <1>1, <1>4 DEF ExpireGrant, NoGrant
  <2>2. [grant[g] EXCEPT !.expires = "past"] \in GrantRecords
    BY <2>1 DEF GrantRecords
  <2>3. grant' \in [GrantIds -> GrantRecords \cup {NoGrant}]
    BY <1>1, <1>4, <2>2 DEF ExpireGrant
  <2> QED
    BY <1>1, <1>2, <1>4, <2>3 DEF ExpireGrant
<1>5. ASSUME NEW l \in Links, ExpireLink(l) PROVE TInv'
  <2>1. link[l] \in LinkRecords
    BY <1>1, <1>5 DEF ExpireLink
  <2>2. [link[l] EXCEPT !.expires = "past"] \in LinkRecords
    BY <2>1 DEF LinkRecords
  <2>3. link' \in [Links -> LinkRecords \cup {NoLink}]
    BY <1>1, <1>5, <2>2 DEF ExpireLink
  <2> QED
    BY <1>1, <1>2, <1>5, <2>3 DEF ExpireLink
<1> QED
  BY <1>3, <1>4, <1>5

LEMMA TypeNext == TInv /\ [Next]_vars => TInv'
<1>1. TInv /\ UNCHANGED vars => TInv'
  BY DEF TInv, TypeOK, ReqInv, vars
<1>2. ASSUME TInv, Next PROVE TInv'
  BY <1>2, TypeRequest, TypeGrantStep, TypeRefresh, TypeRest DEF Next
<1> QED
  BY <1>1, <1>2

\* Every variable keeps its kind.
THEOREM SharingTyped == Spec => []TypeOK
<1>1. TInv => TypeOK
  BY DEF TInv
<1> QED
  BY <1>1, TypeInit, TypeNext, PTL DEF Spec

\* What "Shared with me" lists can be opened.
THEOREM ListedIsOpen == Spec => []ListedCanBeOpened
  BY SharingTyped, ListedOpens, PTL

\* Coming through a link takes nothing away.
THEOREM LinksAdd == Spec => []LinkTakesNothingAway
  BY SharingTyped, LinkAdds, PTL
-----------------------------------------------------------------------------
\* One request at a time.

OneAtATime == \A p, q \in Procs : p = q

\* What the request knows of the record it will write or delete, and of the flag, is still so.
\* Once guarded, an owner was there to remove or make one, and another stays.
OInv ==
  /\ OwnerRemains
  /\ \A p \in Procs :
       /\ req[p].at \in {"guard", "write", "delete"} =>
            req[p].before = IF req[p].id = None THEN "none" ELSE grant[req[p].id].role
       /\ req[p].at = "find" => req[p].before = "none" /\ req[p].id = None
       /\ req[p].at \in {"write", "delete"} =>
            /\ req[p].before = "owner" \/ req[p].role = "owner" => req[p].actor = "owner"
            /\ req[p].before = "owner" /\ req[p].role # "owner" => OwnerGrants # {req[p].id}
       /\ req[p].at \in {"count", "countLinks", "countGrants", "flag"} => req[p].flag = doc.isShared
       /\ req[p].at \in {"countLinks", "flag"} => req[p].grants = (Others # {})
       /\ req[p].at \in {"countGrants", "flag"} => req[p].links = (LiveLinks # {})

IInv == TInv /\ OInv

LEMMA OwnerGrantsAre == TypeOK => OwnerGrants = {g \in GrantIds : grant[g].role = "owner"}
  BY TypeParts DEF OwnerGrants, Granted, NoGrant

LEMMA OwnerInit == Init => OInv
<1> SUFFICES ASSUME Init PROVE OInv
  OBVIOUS
<1>1. TypeOK
  BY TypeInit DEF TInv
<1>2. \A p \in Procs : req[p].at = "idle"
  BY DEF Init, Idle
<1>3. OwnerRemains
  BY <1>1, OwnerGrantsAre DEF Init, OwnerRemains
<1> QED
  BY <1>2, <1>3 DEF OInv

\* What the only request does leaves the rest of OInv to say about that request.
LEMMA OwnerKeeps ==
  ASSUME OneAtATime, IInv, NEW p \in Procs, NEW r \in Requests, req' = [req EXCEPT ![p] = r],
         OwnerRemains',
         r.at \in {"guard", "write", "delete"} => r.before = IF r.id = None THEN "none" ELSE grant'[r.id].role,
         r.at = "find" => r.before = "none" /\ r.id = None,
         r.at \in {"write", "delete"} =>
            /\ r.before = "owner" \/ r.role = "owner" => r.actor = "owner"
            /\ r.before = "owner" /\ r.role # "owner" => OwnerGrants' # {r.id},
         r.at \in {"count", "countLinks", "countGrants", "flag"} => r.flag = doc'.isShared,
         r.at \in {"countLinks", "flag"} => r.grants = (Others' # {}),
         r.at \in {"countGrants", "flag"} => r.links = (LiveLinks' # {})
  PROVE OInv'
<1>1. req \in [Procs -> Requests]
  BY Kinds DEF IInv
<1>2. \A q \in Procs : req'[q] = r
  BY <1>1 DEF OneAtATime
<1> QED
  BY <1>2 DEF OInv

LEMMA OwnerEnds ==
  ASSUME OneAtATime, IInv, NEW p \in Procs, NEW s \in {"idle", "load"},
         req' = [req EXCEPT ![p] = [Idle EXCEPT !.at = s]], OwnerRemains'
  PROVE OInv'
<1> DEFINE r == [Idle EXCEPT !.at = s]
<1>1. r \in Requests /\ r.at = s
  BY IdleType DEF Requests, Steps
<1>2. req' = [req EXCEPT ![p] = r]
  OBVIOUS
<1> HIDE DEF r
<1> QED
  BY <1>1, <1>2, OwnerKeeps

LEMMA Same == ASSUME IInv, grant' = grant PROVE /\ OwnerRemains' /\ OwnerGrants' = OwnerGrants
                                                /\ Others' = Others
  BY DEF IInv, OInv, OwnerRemains, OwnerGrants, Granted, Others

LEMMA OwnerRequest ==
  ASSUME OneAtATime, IInv, NEW p \in Procs, NEW u \in People, Request(p, u)
  PROVE OInv'
<1>1. /\ doc \in DocRecords /\ grant \in [GrantIds -> GrantRecords \cup {NoGrant}]
      /\ link \in [Links -> LinkRecords \cup {NoLink}] /\ req \in [Procs -> Requests]
  BY Kinds DEF IInv
<1>2. RoleOf(Own(u)) \in Roles
  BY ActorType DEF IInv, TInv
<1>3. ASSUME NEW who \in Principals, NEW role \in GrantKinds, GrantAuthorize(p, u, who, role) PROVE OInv'
  <2> DEFINE r == [Idle EXCEPT !.at = "find", !.who = who, !.role = role, !.actor = RoleOf(Own(u))]
  <2>1. role \in Ranked
    BY GrantKindsAssumption
  <2>2. r \in Requests
    BY <1>2, <2>1, IdleType DEF Requests, Roles, Steps
  <2>3. r.at = "find" /\ r.before = "none" /\ r.id = None
    BY DEF Idle
  <2>4. req' = [req EXCEPT ![p] = r] /\ grant' = grant
    BY <1>3 DEF GrantAuthorize, Begin
  <2> HIDE DEF r
  <2> QED
    BY <2>2, <2>3, <2>4, Same, OwnerKeeps
<1>4. ASSUME NEW g \in GrantIds, RevokeAuthorize(p, u, g) PROVE OInv'
  <2> DEFINE r == [Idle EXCEPT !.at = "guard", !.id = g, !.before = grant[g].role, !.actor = RoleOf(Own(u))]
  <2>1. grant[g].role \in Roles
    BY <1>1, <1>4 DEF RevokeAuthorize, GrantRecords, Roles
  <2>2. r \in Requests /\ r.at = "guard" /\ r.id = g /\ r.before = grant[g].role
    BY <1>2, <2>1, IdleType DEF Requests, Roles, Steps
  <2>3. req' = [req EXCEPT ![p] = r] /\ grant' = grant /\ g # None
    BY <1>4, GrantIdsAssumption DEF RevokeAuthorize, Begin
  <2> HIDE DEF r
  <2> QED
    BY <2>2, <2>3, Same, OwnerKeeps
<1>5. ASSUME grant' = grant, Begin(p, [Idle EXCEPT !.at = "load"]) PROVE OInv'
  <2>1. req' = [req EXCEPT ![p] = [Idle EXCEPT !.at = "load"]]
    BY <1>5 DEF Begin
  <2> QED
    BY <1>5, <2>1, Same, OwnerEnds
<1> QED
  BY <1>3, <1>4, <1>5 DEF Request, CreateShareLink, RevokeShareLink

\* A guarded write or deletion leaves an owner, and changes who owns only for an owner.
LEMMA OwnerStaysOn ==
  ASSUME IInv, NEW p \in Procs, GrantWrite(p) \/ RevokeDelete(p)
  PROVE OwnerRemains' /\ (OwnerGrants' # OwnerGrants => req[p].actor = "owner")
<1>1. /\ grant \in [GrantIds -> GrantRecords \cup {NoGrant}] /\ req[p] \in Requests
      /\ OwnerGrants = {g \in GrantIds : grant[g].role = "owner"} /\ OwnerGrants # {}
  BY Kinds, OwnerGrantsAre DEF IInv, TInv, OInv, OwnerRemains
<1>2. grant' \in [GrantIds -> GrantRecords \cup {NoGrant}]
      /\ OwnerGrants' = {g \in GrantIds : grant'[g].role = "owner"}
  <2>1. TypeOK'
    BY TypeGrantStep DEF GrantStep, IInv, TInv
  <2>2. grant' \in [GrantIds -> GrantRecords \cup {NoGrant}]
    BY <2>1 DEF TypeOK
  <2> QED
    BY <2>2 DEF OwnerGrants, Granted, NoGrant
<1> DEFINE b == req[p].before
<1>3. /\ b = "owner" \/ req[p].role = "owner" => req[p].actor = "owner"
      /\ b = "owner" /\ req[p].role # "owner" => OwnerGrants # {req[p].id}
      /\ b = IF req[p].id = None THEN "none" ELSE grant[req[p].id].role
  BY DEF IInv, OInv, GrantWrite, RevokeDelete
<1>4. PICK g \in GrantIds, new \in GrantRecords \cup {NoGrant} :
        /\ grant' = [grant EXCEPT ![g] = new] /\ new.role = req[p].role
        /\ IF req[p].id = None THEN grant[g] = NoGrant ELSE g = req[p].id
  <2>1. CASE GrantWrite(p)
    <3>1. PICK g \in GrantIds, expires \in {"never", "later"} :
            /\ IF req[p].id = None THEN grant[g] = NoGrant ELSE g = req[p].id
            /\ grant' = [grant EXCEPT ![g] = [who |-> req[p].who, role |-> req[p].role, expires |-> expires]]
      BY <2>1 DEF GrantWrite
    <3>2. req[p].who \in Principals /\ req[p].role \in Ranked
      <4>1. req[p].role # "none" /\ req[p].who \in Principals
        BY <2>1 DEF GrantWrite, IInv, TInv, ReqInv
      <4>2. req[p].role \in Roles
        BY <1>1 DEF Requests
      <4> QED
        BY <4>1, <4>2 DEF Roles
    <3>3. [who |-> req[p].who, role |-> req[p].role, expires |-> expires] \in GrantRecords
      BY <3>2 DEF GrantRecords
    <3> QED
      <4> DEFINE new == [who |-> req[p].who, role |-> req[p].role, expires |-> expires]
      <4>1. new \in GrantRecords \cup {NoGrant} /\ new.role = req[p].role
        BY <3>3
      <4>2. grant' = [grant EXCEPT ![g] = new]
        BY <3>1
      <4> HIDE DEF new
      <4> QED
        BY <3>1, <4>1, <4>2
  <2>2. CASE RevokeDelete(p)
    <3>1. req[p].role = "none" /\ req[p].id # None /\ req[p].id \in GrantIds
      BY <1>1, <2>2 DEF RevokeDelete, IInv, TInv, ReqInv, Requests
    <3>2. grant' = [grant EXCEPT ![req[p].id] = NoGrant] /\ NoGrant.role = "none"
      BY <2>2 DEF RevokeDelete, NoGrant
    <3> QED
      BY <3>1, <3>2
  <2> QED
    BY <2>1, <2>2
<1>5. b = grant[g].role
  BY <1>3, <1>4 DEF NoGrant
<1>6. \A h \in GrantIds : grant'[h].role = IF h = g THEN req[p].role ELSE grant[h].role
  BY <1>1, <1>4
<1>7. OwnerGrants' # {}
  <2>1. CASE b # "owner"
    BY <1>1, <1>2, <1>5, <1>6, <2>1
  <2>2. CASE req[p].role = "owner"
    BY <1>2, <1>6, <2>2
  <2>3. CASE b = "owner" /\ req[p].role # "owner"
    <3>1. req[p].id = g
      BY <1>3, <1>4, <2>3
    <3>2. PICK h \in OwnerGrants : h # g
      BY <1>1, <1>3, <2>3, <3>1
    <3> QED
      BY <1>1, <1>2, <1>6, <3>2
  <2> QED
    BY <2>1, <2>2, <2>3
<1>8. OwnerGrants' # OwnerGrants => b = "owner" \/ req[p].role = "owner"
  BY <1>1, <1>2, <1>5, <1>6
<1> QED
  BY <1>3, <1>7, <1>8 DEF OwnerRemains

LEMMA OwnerGrantStep ==
  ASSUME OneAtATime, IInv, NEW p \in Procs, GrantStep(p)
  PROVE OInv'
<1>1. /\ grant \in [GrantIds -> GrantRecords \cup {NoGrant}] /\ req \in [Procs -> Requests]
      /\ req[p] \in Requests
  BY Kinds DEF IInv
<1>2. CASE GrantFind(p)
  <2>1. grant' = grant /\ req[p].id = None /\ req[p].before = "none"
    BY <1>2 DEF GrantFind, IInv, OInv
  <2>2. CASE req' = [req EXCEPT ![p].at = "guard"]
    <3> DEFINE r == [req[p] EXCEPT !.at = "guard"]
    <3>1. r \in Requests /\ r.at = "guard" /\ r.id = None /\ r.before = "none"
      BY <1>1, <2>1 DEF Requests, Steps
    <3>2. req' = [req EXCEPT ![p] = r]
      BY <1>1, <2>2
    <3> HIDE DEF r
    <3> QED
      BY <2>1, <3>1, <3>2, Same, OwnerKeeps
  <2>3. ASSUME NEW g \in Granted,
               req' = [req EXCEPT ![p].at = "guard", ![p].id = g, ![p].before = grant[g].role]
        PROVE OInv'
    <3> DEFINE r == [req[p] EXCEPT !.at = "guard", !.id = g, !.before = grant[g].role]
    <3>1. g \in GrantIds /\ grant[g].role \in Roles /\ g # None
      BY <1>1, GrantIdsAssumption DEF Granted, GrantRecords, Roles
    <3>2. r \in Requests /\ r.at = "guard" /\ r.id = g /\ r.before = grant[g].role
      BY <1>1, <3>1 DEF Requests, Steps
    <3>3. req' = [req EXCEPT ![p] = r]
      BY <1>1, <2>3
    <3> HIDE DEF r
    <3> QED
      BY <2>1, <3>1, <3>2, <3>3, Same, OwnerKeeps
  <2> QED
    BY <1>2, <2>2, <2>3 DEF GrantFind
<1>3. CASE Guard(p)
  <2>1. grant' = grant /\ req[p].at = "guard"
    BY <1>3 DEF Guard
  <2>2. CASE Finish(p)
    <3>1. req' = [req EXCEPT ![p] = [Idle EXCEPT !.at = "idle"]]
      BY <2>2 DEF Finish, Idle
    <3> QED
      BY <2>1, <3>1, Same, OwnerEnds
  <2>3. CASE ~Finish(p)
    <3> DEFINE s == IF req[p].role = "none" THEN "delete" ELSE "write"
               r == [req[p] EXCEPT !.at = s]
    <3>1. req' = [req EXCEPT ![p] = r] /\ OwnersOnly(p) /\ ~LastOwner(p)
      BY <1>1, <1>3, <2>3 DEF Guard
    <3>2. r \in Requests /\ r.at = s /\ r.role = req[p].role /\ r.id = req[p].id
          /\ r.before = req[p].before /\ r.actor = req[p].actor /\ r.at \in {"write", "delete"}
      BY <1>1 DEF Requests, Steps
    <3>3. r.before = IF r.id = None THEN "none" ELSE grant[r.id].role
      BY <2>1, <3>2 DEF IInv, OInv
    <3>4. r.before = "owner" \/ r.role = "owner" => r.actor = "owner"
      BY <3>1, <3>2 DEF OwnersOnly
    <3>5. r.before = "owner" /\ r.role # "owner" => OwnerGrants # {r.id}
      <4>1. Cardinality({r.id}) = 1
        BY FS_Singleton
      <4> QED
        BY <3>1, <3>2, <4>1 DEF LastOwner
    <3> HIDE DEF r, s
    <3> QED
      BY <2>1, <3>1, <3>2, <3>3, <3>4, <3>5, Same, OwnerKeeps
  <2> QED
    BY <2>2, <2>3
<1>4. CASE GrantWrite(p) \/ RevokeDelete(p)
  <2>1. req' = [req EXCEPT ![p] = [Idle EXCEPT !.at = "load"]]
    BY <1>4 DEF GrantWrite, RevokeDelete
  <2> QED
    BY <1>4, <2>1, OwnerStaysOn, OwnerEnds
<1> QED
  BY <1>2, <1>3, <1>4 DEF GrantStep

LEMMA OwnerRefresh ==
  ASSUME OneAtATime, IInv, NEW p \in Procs, RefreshStep(p) \/ Crash(p)
  PROVE OInv'
<1>1. /\ doc \in DocRecords /\ grant \in [GrantIds -> GrantRecords \cup {NoGrant}]
      /\ req \in [Procs -> Requests] /\ req[p] \in Requests
  BY Kinds DEF IInv
<1>2. grant' = grant /\ link' = link
  BY DEF RefreshStep, RefreshLoad, RefreshCount, RefreshWrite, Crash
<1>3. OwnerRemains' /\ OwnerGrants' = OwnerGrants /\ Others' = Others /\ LiveLinks' = LiveLinks
  BY <1>2, Same DEF LiveLinks
<1>4. CASE RefreshWrite(p) \/ Crash(p)
  <2>1. req' = [req EXCEPT ![p] = [Idle EXCEPT !.at = "idle"]]
    BY <1>4 DEF RefreshWrite, Crash, Finish, Idle
  <2> QED
    BY <1>3, <2>1, OwnerEnds
<1>5. CASE RefreshLoad(p)
  <2> DEFINE r == [req[p] EXCEPT !.at = "count", !.flag = doc.isShared]
  <2>1. r \in Requests /\ r.at = "count" /\ r.flag = doc.isShared
    BY <1>1 DEF Requests, Steps, DocRecords
  <2>2. req' = [req EXCEPT ![p] = r] /\ doc' = doc
    BY <1>1, <1>5 DEF RefreshLoad
  <2> HIDE DEF r
  <2> QED
    BY <1>3, <2>1, <2>2, OwnerKeeps
<1>6. CASE RefreshCount(p)
  <2>1. doc' = doc
    BY <1>6 DEF RefreshCount
  <2>2. /\ req[p].at \in {"count", "countLinks", "countGrants"}
        /\ req[p].flag = doc.isShared
        /\ req[p].at = "countLinks" => req[p].grants = (Others # {})
        /\ req[p].at = "countGrants" => req[p].links = (LiveLinks # {})
    BY <1>6 DEF RefreshCount, IInv, OInv
  <2>3. ASSUME NEW s \in {"countLinks", "flag"}, req' = [req EXCEPT ![p].at = s, ![p].grants = Others # {}],
               s = "flag" => req[p].at = "countGrants"
        PROVE OInv'
    <3> DEFINE r == [req[p] EXCEPT !.at = s, !.grants = Others # {}]
    <3>1. r \in Requests /\ r.at = s /\ r.grants = (Others # {}) /\ r.links = req[p].links
          /\ r.flag = req[p].flag
      BY <1>1 DEF Requests, Steps
    <3>2. req' = [req EXCEPT ![p] = r]
      BY <1>1, <2>3
    <3>3. r.at \in {"countGrants", "flag"} => r.links = (LiveLinks # {})
      BY <2>2, <2>3, <3>1
    <3> HIDE DEF r
    <3> QED
      BY <1>3, <2>1, <2>2, <3>1, <3>2, <3>3, OwnerKeeps
  <2>4. ASSUME NEW s \in {"countGrants", "flag"}, req' = [req EXCEPT ![p].at = s, ![p].links = LiveLinks # {}],
               s = "flag" => req[p].at = "countLinks"
        PROVE OInv'
    <3> DEFINE r == [req[p] EXCEPT !.at = s, !.links = LiveLinks # {}]
    <3>1. r \in Requests /\ r.at = s /\ r.links = (LiveLinks # {}) /\ r.grants = req[p].grants
          /\ r.flag = req[p].flag
      BY <1>1 DEF Requests, Steps
    <3>2. req' = [req EXCEPT ![p] = r]
      BY <1>1, <2>4
    <3>3. r.at \in {"countLinks", "flag"} => r.grants = (Others # {})
      BY <2>2, <2>4, <3>1
    <3> HIDE DEF r
    <3> QED
      BY <1>3, <2>1, <2>2, <3>1, <3>2, <3>3, OwnerKeeps
  <2> QED
    BY <1>6, <2>3, <2>4 DEF RefreshCount
<1> QED
  BY <1>4, <1>5, <1>6 DEF RefreshStep

\* Settings and time change neither who owns nor who is counted.
LEMMA OwnerRest ==
  ASSUME IInv, \/ \E u \in People : Setting(u)
               \/ (\E g \in GrantIds : ExpireGrant(g)) \/ (\E l \in Links : ExpireLink(l))
  PROVE OInv'
<1>1. /\ doc \in DocRecords /\ grant \in [GrantIds -> GrantRecords \cup {NoGrant}]
      /\ link \in [Links -> LinkRecords \cup {NoLink}] /\ req \in [Procs -> Requests]
  BY Kinds DEF IInv
<1>2. ASSUME req' = req, doc'.isShared = doc.isShared,
             \A g \in GrantIds : /\ grant'[g].role = grant[g].role /\ grant'[g].who = grant[g].who
                                 /\ grant'[g] = NoGrant <=> grant[g] = NoGrant,
             \A l \in Links : link'[l].state = link[l].state
      PROVE OInv'
  <2>1. OwnerGrants' = OwnerGrants /\ Others' = Others /\ LiveLinks' = LiveLinks
    BY <1>2 DEF OwnerGrants, Granted, Others, LiveLinks
  <2>2. \A p \in Procs : req[p].id # None => req[p].id \in GrantIds
    BY <1>1 DEF Requests
  <2> QED
    BY <1>2, <2>1, <2>2 DEF IInv, OInv, OwnerRemains
<1>3. ASSUME NEW u \in People, Setting(u) PROVE OInv'
  <2>1. doc'.isShared = doc.isShared /\ UNCHANGED <<grant, link, req>>
    BY <1>1, <1>3 DEF Setting, SetEditorsCanShare, SetDeleted, DocRecords
  <2> QED
    BY <1>2, <2>1
<1>4. ASSUME NEW g \in GrantIds, ExpireGrant(g) PROVE OInv'
  <2>1. grant[g] \in GrantRecords
    BY <1>1, <1>4 DEF ExpireGrant, NoGrant
  <2> DEFINE new == [grant[g] EXCEPT !.expires = "past"]
  <2>2. grant' = [grant EXCEPT ![g] = new] /\ UNCHANGED <<doc, link, req>>
    BY <1>4 DEF ExpireGrant
  <2>3. new.role = grant[g].role /\ new.who = grant[g].who /\ new # NoGrant /\ grant[g] # NoGrant
    BY <2>1 DEF GrantRecords, NoGrant, Ranked
  <2> HIDE DEF new
  <2> QED
    BY <1>1, <1>2, <2>2, <2>3
<1>5. ASSUME NEW l \in Links, ExpireLink(l) PROVE OInv'
  <2>1. link[l] \in LinkRecords
    BY <1>1, <1>5 DEF ExpireLink
  <2> DEFINE new == [link[l] EXCEPT !.expires = "past"]
  <2>2. link' = [link EXCEPT ![l] = new] /\ UNCHANGED <<doc, grant, req>>
    BY <1>5 DEF ExpireLink
  <2>3. new.state = link[l].state
    BY <2>1 DEF LinkRecords
  <2> HIDE DEF new
  <2> QED
    BY <1>1, <1>2, <2>2, <2>3
<1> QED
  BY <1>3, <1>4, <1>5

LEMMA OwnerNext == ASSUME OneAtATime PROVE IInv /\ [Next]_vars => IInv'
<1>1. IInv /\ UNCHANGED vars => OInv'
  BY DEF IInv, OInv, OwnerRemains, OwnerGrants, Granted, Others, LiveLinks, vars
<1>2. ASSUME IInv, Next PROVE OInv'
  BY <1>2, OwnerRequest, OwnerGrantStep, OwnerRefresh, OwnerRest DEF Next
<1> QED
  BY <1>1, <1>2, TypeNext DEF IInv

\* One request at a time, an owner grant remains (guardOwnerGrant).
THEOREM OwnerStays == ASSUME OneAtATime PROVE Spec => []OwnerRemains
<1>1. Init => IInv
  BY TypeInit, OwnerInit DEF IInv
<1>2. IInv /\ [Next]_vars => IInv'
  BY OwnerNext
<1>3. IInv => OwnerRemains
  BY DEF IInv, OInv
<1> QED
  BY <1>1, <1>2, <1>3, PTL DEF Spec

\* One request at a time, only owners make and remove owners (guardOwnerGrant).
THEOREM OwnersOfOwners == ASSUME OneAtATime PROVE Spec => OwnersMakeOwners
<1>1. Init => IInv
  BY TypeInit, OwnerInit DEF IInv
<1>2. IInv /\ [Next]_vars => IInv'
  BY OwnerNext
<1>3. IInv => \A p \in Procs : (GrantWrite(p) \/ RevokeDelete(p)) /\ OwnerGrants' # OwnerGrants
                                 => req[p].actor = "owner"
  BY OwnerStaysOn
<1> QED
  BY <1>1, <1>2, <1>3, PTL DEF Spec, OwnersMakeOwners

\* One request at a time, isShared is right when a request has refreshed it (refreshShared).
THEOREM FlagRefreshed == ASSUME OneAtATime PROVE Spec => RefreshedIsRight
<1>1. Init => IInv
  BY TypeInit, OwnerInit DEF IInv
<1>2. IInv /\ [Next]_vars => IInv'
  BY OwnerNext
<1>3. IInv => \A p \in Procs : req[p].at = "flag" /\ RefreshWrite(p)
                                 => doc'.isShared = ((\E g \in Granted' : grant'[g].who # <<"user", Creator>>)
                                                       \/ LiveLinks' # {})
  <2> SUFFICES ASSUME IInv, NEW p \in Procs, req[p].at = "flag", RefreshWrite(p)
               PROVE doc'.isShared = ((\E g \in Granted' : grant'[g].who # <<"user", Creator>>)
                                        \/ LiveLinks' # {})
    OBVIOUS
  <2>1. /\ req[p].flag = doc.isShared /\ req[p].grants = (Others # {}) /\ req[p].links = (LiveLinks # {})
    BY DEF IInv, OInv
  <2>2. Others' = Others /\ LiveLinks' = LiveLinks
    BY DEF RefreshWrite, Others, Granted, LiveLinks
  <2>3. doc'.isShared = (req[p].grants \/ req[p].links)
    <3>1. doc \in DocRecords
      BY Kinds DEF IInv
    <3>2. CASE (req[p].grants \/ req[p].links) = req[p].flag
      BY <2>1, <3>2 DEF RefreshWrite
    <3>3. CASE (req[p].grants \/ req[p].links) # req[p].flag
      BY <3>1, <3>3 DEF RefreshWrite, DocRecords
    <3> QED
      BY <3>2, <3>3
  <2>4. Others' # {} <=> \E g \in Granted' : grant'[g].who # <<"user", Creator>>
    BY DEF Others
  <2> QED
    BY <2>1, <2>2, <2>3, <2>4
<1> QED
  BY <1>1, <1>2, <1>3, PTL DEF Spec, RefreshedIsRight

-----------------------------------------------------------------------------
\* The trash, as a part of MCSpec: its steps are those that TrashProofs is about.

TP == INSTANCE TrashProofs WITH req <- cascade

LEMMA SameStart == T!Init <=> TP!Init
  BY DEF T!Init, TP!Init, T!Idle, TP!Idle

LEMMA SameSteps == T!Next <=> TP!Next
  BY Zenon
  DEF T!Next, TP!Next, T!FileStep, TP!FileStep, T!DocStep, TP!DocStep, T!PurgeStep, TP!PurgeStep,
      T!CompleteCheck, TP!CompleteCheck, T!Register, TP!Register, T!RegisterOwned, TP!RegisterOwned,
      T!RegisterUnowned, TP!RegisterUnowned, T!RegisterFetched, TP!RegisterFetched, T!Verify, TP!Verify,
      T!Reject, TP!Reject, T!CreateRead, TP!CreateRead, T!DuplicateRead, TP!DuplicateRead, T!Insert, TP!Insert,
      T!SetStatus, TP!SetStatus, T!TrashDoc, TP!TrashDoc, T!RestoreDoc, TP!RestoreDoc, T!Age, TP!Age,
      T!PurgeCheck, TP!PurgeCheck, T!SweepFind, TP!SweepFind, T!Snapshot, TP!Snapshot, T!Conflict, TP!Conflict,
      T!Commit, TP!Commit, T!RemoveObject, TP!RemoveObject, T!Crash, TP!Crash, T!Idle, TP!Idle,
      T!Exists, TP!Exists, T!Stored, TP!Stored, T!Live, TP!Live, T!Sizes, TP!Sizes, T!Wrote, TP!Wrote,
      T!OwnedBy, TP!OwnedBy, T!UsedBy, TP!UsedBy, T!OnlyUsedBy, TP!OnlyUsedBy, T!Charged, TP!Charged,
      T!Refunded, TP!Refunded, T!Written, TP!Written, T!AssetsAfter, TP!AssetsAfter, T!Removing, TP!Removing,
      T!InTrash, TP!InTrash, T!TotalBytes, TP!TotalBytes, T!Bytes, TP!Bytes, T!Cardinality, TP!Cardinality

LEMMA TrashBehaves == MCSpec => TP!Spec
<1>1. MCInit => TP!Init
  BY SameStart DEF MCInit
<1>2. [MCNext]_allVars => T!Next \/ UNCHANGED trashVars
  BY DEF MCNext, allVars
<1>3. [MCNext]_allVars => [TP!Next]_TP!vars
  BY <1>2, SameSteps DEF trashVars, TP!vars
<1> QED
  BY <1>1, <1>3, PTL DEF MCSpec, TP!Spec

\* With one request or purge at a time, and whatever the other parts do, a document's files stay stored
\* for as long as it exists (cascade.ts).
THEOREM SerialFilesStay == ASSUME OneAtATime PROVE MCSpec => []NoDanglingFile
<1>1. TP!Spec => []TP!NoDanglingFile
  BY TP!FilesStay, TrashAssumption DEF OneAtATime, TP!OneAtATime
<1>2. TP!NoDanglingFile => NoDanglingFile
  BY DEF NoDanglingFile, T!NoDanglingFile, TP!NoDanglingFile, T!Exists, TP!Exists, T!Stored, TP!Stored
<1> QED
  BY <1>1, <1>2, TrashBehaves, PTL

\* Nor does a file that stays belong to a document that is gone (cascade.ts).
THEOREM SerialOwnersStay == ASSUME OneAtATime PROVE MCSpec => []OwnerExists
<1>1. TP!Spec => []TP!OwnerExists
  BY TP!OwnersStay, TrashAssumption DEF OneAtATime, TP!OneAtATime
<1>2. TP!OwnerExists => OwnerExists
  BY DEF OwnerExists, T!OwnerExists, TP!OwnerExists, T!Exists, TP!Exists, T!Stored, TP!Stored
<1> QED
  BY <1>1, <1>2, TrashBehaves, PTL
-----------------------------------------------------------------------------
\* Signing in.

\* Addresses, with what they turn into; what a browser shows, and what is in the mailbox.
Spots == E!Places \cup {"/app/search?q=a&b"}
Screens == [at : {"site", "sign-in", "verify", "app"}, place : Spots, name : Names \cup {E!Nameless},
            error : {"none", "expired", "cancelled"}, pending : {"none", "link", "google"}]
Mails == [n : Nat, to : Spots, error : Spots, left : Nat, headed : Spots]

\* Nobody waits for an answer on a page of the site, and every link knows where it was asked for.
MailOK ==
  /\ mailbox \subseteq Mails /\ IsFiniteSet(mailbox) /\ Cardinality(mailbox) <= MaxLinks
  /\ \A l \in mailbox : l.headed \in E!Plain => l.to = l.headed /\ l.error = l.headed

ScreensOK ==
  /\ screen \in [Browsers -> Screens] /\ headed \in [Browsers -> Spots]
  /\ \A d \in Browsers : screen[d].pending # "none" => screen[d].at # "site"
  /\ \A d \in Browsers : screen[d].at # "site" /\ headed[d] \in E!Plain => screen[d].place = headed[d]

\* There is a session, a copy of one or a token only of an account, and what carries another name than
\* the account's is gone by the time that renamed counts down to.
NamesOK ==
  /\ account \in {None} \cup [name : Names \cup {E!Nameless}] /\ signedIn \subseteq Browsers
  /\ cookie \in [Browsers -> {None} \cup [name : Names \cup {E!Nameless}, left : 1..CookieLife]]
  /\ token \in [Browsers -> {None} \cup [name : Names, left : 0..TokenLife]]
  /\ peer \in [Browsers -> Names \cup {None}] /\ renamed \in 0..(CookieLife + TokenLife)
  /\ account = None => signedIn = {} /\ \A d \in Browsers : cookie[d] = None /\ token[d] = None
  /\ \A d \in Browsers : cookie[d] # None /\ cookie[d].name # account.name => renamed >= TokenLife + cookie[d].left
  /\ \A d \in Browsers : token[d] # None /\ token[d].name # account.name => renamed >= token[d].left

SignInInv == MailOK /\ ScreensOK /\ NamesOK

LEMMA SignInStart == E!Init => SignInInv
<1> SUFFICES ASSUME E!Init PROVE MailOK /\ ScreensOK /\ NamesOK
  BY DEF SignInInv
<1>1. MailOK
  BY FS_EmptySet, SignInAssumption DEF E!Init, MailOK
<1>2. ScreensOK
  BY DEF E!Init, ScreensOK, E!Site, E!Library, E!Places, E!Plain, Spots, Screens
<1>3. NamesOK
  BY SignInAssumption DEF E!Init, NamesOK
<1> QED
  BY <1>1, <1>2, <1>3

LEMMA Callbacks ==
  /\ \A p \in Spots : E!SafeCallback(p) \in Spots /\ (p \in E!Plain => E!SafeCallback(p) = p)
  /\ E!SafeCallback(None) = "/app" /\ "/app" \in Spots /\ "/app" \in E!Plain
  BY SignInAssumption DEF E!SafeCallback, E!Decoded, E!Library, E!Places, E!Plain, Spots

\* What getSession answers has a name of the account, or a copy's.
LEMMA SessionsNamed ==
  ASSUME NamesOK, NEW d \in Browsers, E!Session(d) # None
  PROVE /\ E!Session(d).name \in Names \cup {E!Nameless}
        /\ account # None
        /\ E!Session(d).name # account.name => renamed >= TokenLife
<1>1. CASE cookie[d] # None
  <2>1. E!Session(d) = [name |-> cookie[d].name]
    BY <1>1 DEF E!Session
  <2>2. cookie[d] \in [name : Names \cup {E!Nameless}, left : 1..CookieLife] /\ renamed \in Nat
    BY <1>1, SignInAssumption DEF NamesOK
  <2> QED
    BY <1>1, <2>1, <2>2, SignInAssumption DEF NamesOK
<1>2. CASE cookie[d] = None
  <2>1. d \in signedIn /\ E!Session(d) = [name |-> account.name]
    BY <1>2 DEF E!Session
  <2>2. account # None /\ account \in [name : Names \cup {E!Nameless}]
    BY <2>1 DEF NamesOK
  <2> QED
    BY <2>1, <2>2
<1> QED
  BY <1>1, <1>2

\* A page of the app, or the sign-in page in its stead, is about the place that was asked for.
About(s, p) == s \in Screens /\ s.pending = "none" /\ (p \in E!Plain => s.place = p)

LEMMA AppPages ==
  ASSUME NamesOK, NEW d \in Browsers, NEW p \in Spots
  PROVE About(E!AppPage(d, p), p)
<1>1. CASE E!Session(d) # None
  <2>1. E!Session(d).name \in Names \cup {E!Nameless}
    BY <1>1, SessionsNamed
  <2>2. E!AppPage(d, p) = [at |-> "app", place |-> p, name |-> E!Session(d).name, error |-> "none", pending |-> "none"]
    BY <1>1 DEF E!AppPage, E!Site
  <2> QED
    BY <2>1, <2>2 DEF About, Screens
<1>2. CASE E!Session(d) = None
  <2>1. E!AppPage(d, p) = [at |-> "sign-in", place |-> E!SafeCallback(p), name |-> E!Nameless, error |-> "none", pending |-> "none"]
    BY <1>2 DEF E!AppPage, E!Site
  <2> QED
    BY <2>1, Callbacks DEF About, Screens
<1> QED
  BY <1>1, <1>2

LEMMA SignInPages ==
  ASSUME NamesOK, NEW d \in Browsers, NEW p \in Spots, NEW to, E!SafeCallback(to) = E!SafeCallback(p),
         NEW error \in {"none", "expired", "cancelled"}
  PROVE About(E!SignInPage(d, to, error), p)
<1>1. E!SafeCallback(p) \in Spots /\ (p \in E!Plain => E!SafeCallback(p) = p)
  BY Callbacks
<1>2. About(E!AppPage(d, E!SafeCallback(p)), E!SafeCallback(p))
  BY <1>1, AppPages
<1>3. CASE error = "none" /\ E!Session(d) # None
  <2>1. E!SignInPage(d, to, error) = E!AppPage(d, E!SafeCallback(p))
    BY <1>3 DEF E!SignInPage
  <2> QED
    BY <1>1, <1>2, <2>1 DEF About
<1>4. CASE ~(error = "none" /\ E!Session(d) # None)
  <2>1. E!SignInPage(d, to, error)
          = [at |-> "sign-in", place |-> E!SafeCallback(p), name |-> E!Nameless, error |-> error, pending |-> "none"]
    BY <1>4 DEF E!SignInPage, E!Site
  <2> QED
    BY <1>1, <2>1 DEF About, Screens
<1> QED
  BY <1>3, <1>4

\* One browser's screen changes, on the way to h.
LEMMA ScreenChanges ==
  ASSUME ScreensOK, NEW d \in Browsers, NEW s \in Screens, NEW h \in Spots,
         screen' = [screen EXCEPT ![d] = s], headed' = [headed EXCEPT ![d] = h],
         s.pending # "none" => s.at # "site",
         s.at # "site" /\ h \in E!Plain => s.place = h
  PROVE ScreensOK'
<1>1. screen' \in [Browsers -> Screens] /\ headed' \in [Browsers -> Spots]
  BY DEF ScreensOK
<1>2. \A b \in Browsers : /\ screen'[b] = IF b = d THEN s ELSE screen[b]
                          /\ headed'[b] = IF b = d THEN h ELSE headed[b]
  BY DEF ScreensOK
<1> QED
  BY <1>1, <1>2 DEF ScreensOK

LEMMA ScreenShows ==
  ASSUME ScreensOK, NEW d \in Browsers, NEW s, NEW h \in Spots, About(s, h),
         E!Show(d, s), headed' = [headed EXCEPT ![d] = h]
  PROVE ScreensOK'
<1>1. s \in Screens /\ s.pending = "none" /\ (h \in E!Plain => s.place = h)
  BY DEF About
<1> QED
  BY <1>1, ScreenChanges DEF E!Show

\* Mail and screens, step by step.
LEMMA MailGrows ==
  ASSUME MailOK, NEW l \in Mails, l.headed \in E!Plain => l.to = l.headed /\ l.error = l.headed,
         NEW rest \in SUBSET mailbox, mailbox' = rest \cup {l}, rest # mailbox \/ Cardinality(mailbox) < MaxLinks
  PROVE MailOK'
<1>1. IsFiniteSet(rest) /\ Cardinality(rest) <= Cardinality(mailbox) /\ (rest # mailbox => Cardinality(rest) # Cardinality(mailbox))
  BY FS_Subset DEF MailOK
<1>2. Cardinality(rest) \in Nat /\ Cardinality(mailbox) \in Nat /\ MaxLinks \in Nat
  BY <1>1, FS_CardinalityType, SignInAssumption DEF MailOK
<1>3. IsFiniteSet(mailbox') /\ Cardinality(mailbox') <= Cardinality(rest) + 1
  <2>1. /\ IsFiniteSet(rest \cup {l})
        /\ Cardinality(rest \cup {l}) = IF l \in rest THEN Cardinality(rest) ELSE Cardinality(rest) + 1
    BY <1>1, FS_AddElement
  <2> QED
    BY <1>2, <2>1
<1>4. Cardinality(mailbox') \in Nat
  BY <1>3, FS_CardinalityType
<1>5. Cardinality(mailbox') <= MaxLinks
  <2>1. Cardinality(mailbox) <= MaxLinks
    BY DEF MailOK
  <2> QED
    BY <1>1, <1>2, <1>3, <1>4, <2>1
<1>6. mailbox' \subseteq Mails /\ \A m \in mailbox' : m.headed \in E!Plain => m.to = m.headed /\ m.error = m.headed
  BY DEF MailOK
<1> QED
  BY <1>3, <1>5, <1>6 DEF MailOK

LEMMA MailAges ==
  ASSUME MailOK, mailbox' = {[l EXCEPT !.left = E!Less(@)] : l \in mailbox}
  PROVE MailOK'
<1> DEFINE f == [l \in mailbox |-> [l EXCEPT !.left = E!Less(@)]]
<1>1. f \in Surjection(mailbox, mailbox')
  BY DEF Surjection
<1>2. IsFiniteSet(mailbox') /\ Cardinality(mailbox') <= Cardinality(mailbox)
  <2> HIDE DEF f
  <2> QED
    BY <1>1, FS_Surjection DEF MailOK
<1>3. Cardinality(mailbox') \in Nat /\ Cardinality(mailbox) \in Nat
  BY <1>2, FS_CardinalityType DEF MailOK
<1>4. ASSUME NEW m \in mailbox'
      PROVE m \in Mails /\ (m.headed \in E!Plain => m.to = m.headed /\ m.error = m.headed)
  <2>1. PICK l \in mailbox : m = [l EXCEPT !.left = E!Less(@)]
    OBVIOUS
  <2>2. l \in Mails /\ (l.headed \in E!Plain => l.to = l.headed /\ l.error = l.headed)
    BY DEF MailOK
  <2>3. l.left \in Nat /\ E!Less(l.left) \in Nat
    BY <2>2 DEF Mails, E!Less
  <2>4. m = [n |-> l.n, to |-> l.to, error |-> l.error, left |-> E!Less(l.left), headed |-> l.headed]
    BY <2>1, <2>2 DEF Mails
  <2> QED
    BY <2>2, <2>3, <2>4 DEF Mails
<1>5. Cardinality(mailbox') <= MaxLinks
  BY <1>2, <1>3, SignInAssumption DEF MailOK
<1> QED
  BY <1>2, <1>4, <1>5 DEF MailOK

LEMMA ScreenKinds ==
  ASSUME ScreensOK, NEW d \in Browsers
  PROVE /\ screen[d] \in Screens /\ headed[d] \in Spots
        /\ headed' = headed => headed' = [headed EXCEPT ![d] = headed[d]]
        /\ screen[d] = [at |-> screen[d].at, place |-> screen[d].place, name |-> screen[d].name,
                        error |-> screen[d].error, pending |-> screen[d].pending]
        /\ screen[d].place \in Spots
        /\ screen[d].pending # "none" => screen[d].at # "site"
        /\ screen[d].at # "site" /\ headed[d] \in E!Plain => screen[d].place = headed[d]
  BY DEF ScreensOK, Screens

LEMMA AskSteps ==
  ASSUME SignInInv, NEW d \in Browsers, (\E p \in E!Places : E!Ask(d, p)) \/ E!VisitSignIn(d) \/ E!UseAnother(d)
  PROVE ScreensOK'
<1>0. ScreensOK /\ NamesOK
  BY DEF SignInInv
<1>1. ASSUME NEW p \in E!Places, E!Ask(d, p) PROVE ScreensOK'
  <2>1. p \in Spots
    BY DEF Spots
  <2>2. About(E!AppPage(d, p), p)
    BY <1>0, <2>1, AppPages
  <2> QED
    BY <1>0, <1>1, <2>1, <2>2, ScreenShows DEF E!Ask
<1>2. CASE E!VisitSignIn(d)
  <2>1. E!SafeCallback(None) = E!SafeCallback("/app") /\ "/app" \in Spots
    BY Callbacks
  <2>2. About(E!SignInPage(d, None, "none"), "/app")
    BY <1>0, <2>1, SignInPages
  <2>3. E!Show(d, E!SignInPage(d, None, "none")) /\ headed' = [headed EXCEPT ![d] = "/app"]
    BY <1>2 DEF E!VisitSignIn, E!Library
  <2> QED
    BY <1>0, <2>1, <2>2, <2>3, ScreenShows
<1>3. CASE E!UseAnother(d)
  <2>1. About(E!SignInPage(d, screen[d].place, "none"), screen[d].place)
    BY <1>0, ScreenKinds, SignInPages
  <2>2. E!Show(d, E!SignInPage(d, screen[d].place, "none")) /\ headed' = headed /\ screen[d].at # "site"
    BY <1>3 DEF E!UseAnother
  <2>3. About(E!SignInPage(d, screen[d].place, "none"), headed[d])
    BY <1>0, <2>1, <2>2, ScreenKinds DEF About
  <2> QED
    BY <1>0, <2>2, <2>3, ScreenKinds, ScreenShows
<1> QED
  BY <1>1, <1>2, <1>3

\* A request begins or is refused: only what is waited for changes.
LEMMA PendingSteps ==
  ASSUME ScreensOK, NEW d \in Browsers, NEW w \in {"none", "link", "google"}, w # "none" => screen[d].at # "site",
         E!Show(d, [screen[d] EXCEPT !.pending = w]), headed' = headed
  PROVE ScreensOK'
<1> DEFINE s == [screen[d] EXCEPT !.pending = w]
<1>1. /\ screen[d] \in Screens /\ headed[d] \in Spots /\ headed' = [headed EXCEPT ![d] = headed[d]]
      /\ screen[d].at # "site" /\ headed[d] \in E!Plain => screen[d].place = headed[d]
  BY ScreenKinds
<1>2. s \in Screens /\ s.at = screen[d].at /\ s.place = screen[d].place /\ s.pending = w
  BY <1>1 DEF Screens
<1>3. screen' = [screen EXCEPT ![d] = s]
  BY DEF E!Show
<1> HIDE DEF s
<1> QED
  BY <1>1, <1>2, <1>3, ScreenChanges

LEMMA LinkSent ==
  ASSUME MailOK, ScreensOK, NEW d \in Browsers, E!SendLink(d)
  PROVE MailOK' /\ ScreensOK'
<1> DEFINE to == screen[d].place
           s == [E!Site EXCEPT !.at = "verify",
                               !.place = IF screen[d].at = "verify" THEN to ELSE E!SafeCallback(to)]
           l == [n |-> 1 + E!Cardinality(mailbox), to |-> to, error |-> to, left |-> LinkLife, headed |-> headed[d]]
<1>1. to \in Spots /\ headed[d] \in Spots /\ screen[d].at # "site"
  BY ScreenKinds DEF E!SendLink
<1>2. headed[d] \in E!Plain => to = headed[d] /\ E!SafeCallback(to) = to
  BY <1>1, Callbacks, ScreenKinds
<1>3. E!Cardinality(mailbox) = Cardinality(mailbox)
  BY DEF E!Cardinality, Cardinality
<1>4. MailOK'
  <2>1. l \in Mails /\ (l.headed \in E!Plain => l.to = l.headed /\ l.error = l.headed)
    BY <1>1, <1>2, <1>3, FS_CardinalityType, SignInAssumption DEF Mails, MailOK
  <2>2. mailbox' = mailbox \cup {l} /\ Cardinality(mailbox) < MaxLinks
    BY <1>3 DEF E!SendLink, E!ErrorCallback
  <2> HIDE DEF l
  <2> QED
    BY <2>1, <2>2, MailGrows
<1>5. ScreensOK'
  <2>1. s = [at |-> "verify", place |-> IF screen[d].at = "verify" THEN to ELSE E!SafeCallback(to),
             name |-> E!Nameless, error |-> "none", pending |-> "none"]
    <3>1. [E!Site EXCEPT !.at = "verify"]
            = [at |-> "verify", place |-> E!Library, name |-> E!Nameless, error |-> "none", pending |-> "none"]
      BY DEF E!Site
    <3>2. \A r, p : r = [at |-> "verify", place |-> E!Library, name |-> E!Nameless, error |-> "none", pending |-> "none"]
             => [r EXCEPT !.place = p]
                  = [at |-> "verify", place |-> p, name |-> E!Nameless, error |-> "none", pending |-> "none"]
      OBVIOUS
    <3> QED
      BY <3>1, <3>2, Zenon
  <2>2. About(s, headed[d])
    BY <1>1, <1>2, <2>1, Callbacks, ScreenKinds DEF About, Screens
  <2>3. E!Show(d, s) /\ headed' = headed
    BY DEF E!SendLink
  <2> HIDE DEF s
  <2> QED
    BY <2>2, <2>3, ScreenKinds, ScreenShows
<1> QED
  BY <1>4, <1>5

LEMMA AppScreen ==
  ASSUME NEW p, NEW m
  PROVE [E!Site EXCEPT !.at = "app", !.place = p, !.name = m]
          = [at |-> "app", place |-> p, name |-> m, error |-> "none", pending |-> "none"]
<1>1. [E!Site EXCEPT !.at = "app"]
        = [at |-> "app", place |-> E!Library, name |-> E!Nameless, error |-> "none", pending |-> "none"]
  BY DEF E!Site
<1>2. \A s : s = [at |-> "app", place |-> E!Library, name |-> E!Nameless, error |-> "none", pending |-> "none"]
         => [s EXCEPT !.place = p] = [at |-> "app", place |-> p, name |-> E!Nameless, error |-> "none", pending |-> "none"]
  OBVIOUS
<1>3. \A s : s = [at |-> "app", place |-> p, name |-> E!Nameless, error |-> "none", pending |-> "none"]
         => [s EXCEPT !.name = m] = [at |-> "app", place |-> p, name |-> m, error |-> "none", pending |-> "none"]
  OBVIOUS
<1> QED
  BY <1>1, <1>2, <1>3, Zenon

\* What starting a session does to one screen.
LEMMA SessionShows ==
  ASSUME SignInInv, NEW d \in Browsers, NEW n \in Names \cup {E!Nameless}, NEW p \in Spots, NEW h \in Spots,
         h \in E!Plain => p = h, E!StartSession(d, n, p), headed' = [headed EXCEPT ![d] = h]
  PROVE ScreensOK'
<1>1. PICK m : screen' = [screen EXCEPT ![d] = [E!Site EXCEPT !.at = "app", !.place = p, !.name = m]]
               /\ m = IF account = None THEN n ELSE account.name
  BY DEF E!StartSession
<1>2. m \in Names \cup {E!Nameless}
  BY <1>1 DEF SignInInv, NamesOK
<1> DEFINE s == [E!Site EXCEPT !.at = "app", !.place = p, !.name = m]
<1>3. s = [at |-> "app", place |-> p, name |-> m, error |-> "none", pending |-> "none"]
  BY AppScreen
<1>4. About(s, h)
  BY <1>2, <1>3 DEF About, Screens
<1>5. E!Show(d, s) /\ ScreensOK
  BY <1>1 DEF E!Show, SignInInv
<1> HIDE DEF s
<1> QED
  BY <1>4, <1>5, ScreenShows

LEMMA LinkOpened ==
  ASSUME SignInInv, NEW d \in Browsers, NEW l \in mailbox, E!OpenLink(d, l)
  PROVE MailOK' /\ ScreensOK'
<1>0. MailOK /\ ScreensOK /\ NamesOK
  BY DEF SignInInv
<1>1. l \in Mails /\ (l.headed \in E!Plain => l.to = l.headed /\ l.error = l.headed)
  BY <1>0 DEF MailOK
<1>2. /\ l = [n |-> l.n, to |-> l.to, error |-> l.error, left |-> l.left, headed |-> l.headed]
      /\ {l.to, l.error, l.headed} \subseteq Spots /\ l.n \in Nat
  BY <1>1 DEF Mails
<1>3. headed' = [headed EXCEPT ![d] = l.headed]
  BY DEF E!OpenLink
<1>4. CASE l.left > 0 /\ E!StartSession(d, E!Nameless, l.to) /\ mailbox' = (mailbox \ {l}) \cup {[l EXCEPT !.left = 0]}
  <2>1. ScreensOK'
    BY <1>1, <1>2, <1>3, <1>4, SessionShows
  <2> DEFINE m == [l EXCEPT !.left = 0]
  <2>2. m = [n |-> l.n, to |-> l.to, error |-> l.error, left |-> 0, headed |-> l.headed]
    BY <1>2
  <2>3. m \in Mails /\ (m.headed \in E!Plain => m.to = m.headed /\ m.error = m.headed)
    BY <1>1, <1>2, <2>2 DEF Mails
  <2>4. mailbox' = (mailbox \ {l}) \cup {m} /\ mailbox \ {l} # mailbox
    BY <1>4
  <2> HIDE DEF m
  <2>5. MailOK'
    BY <1>0, <2>3, <2>4, MailGrows
  <2> QED
    BY <2>1, <2>5
<1>5. CASE E!Show(d, E!SignInPage(d, l.error, "expired")) /\ mailbox' = mailbox
  <2>1. About(E!SignInPage(d, l.error, "expired"), l.error)
    BY <1>0, <1>2, SignInPages
  <2>2. About(E!SignInPage(d, l.error, "expired"), l.headed)
    BY <1>1, <2>1 DEF About
  <2>3. ScreensOK'
    BY <1>0, <1>2, <1>3, <1>5, <2>2, ScreenShows
  <2> QED
    BY <1>0, <1>5, <2>3 DEF MailOK
<1> QED
  BY <1>4, <1>5 DEF E!OpenLink, E!unchangedButScreen

LEMMA GoogleAnswers ==
  ASSUME SignInInv, NEW d \in Browsers, E!BackFromGoogle(d)
  PROVE ScreensOK'
<1>0. ScreensOK /\ NamesOK
  BY DEF SignInInv
<1> DEFINE p == screen[d].place
<1>1. p \in Spots /\ headed[d] \in Spots /\ (headed[d] \in E!Plain => p = headed[d])
      /\ headed' = [headed EXCEPT ![d] = headed[d]]
  BY <1>0, ScreenKinds DEF E!BackFromGoogle
<1>2. ASSUME NEW n \in Names, E!StartSession(d, n, p) PROVE ScreensOK'
  BY <1>1, <1>2, SessionShows
<1>3. CASE E!Show(d, E!SignInPage(d, E!ErrorCallback(p), "cancelled"))
  <2>1. About(E!SignInPage(d, p, "cancelled"), p)
    BY <1>0, <1>1, SignInPages
  <2>2. About(E!SignInPage(d, p, "cancelled"), headed[d])
    BY <1>1, <2>1 DEF About
  <2>3. E!Show(d, E!SignInPage(d, p, "cancelled"))
    BY <1>3 DEF E!ErrorCallback
  <2> QED
    BY <1>0, <1>1, <2>2, <2>3, ScreenShows
<1> QED
  BY <1>2, <1>3 DEF E!BackFromGoogle

LEMMA SignedOut ==
  ASSUME ScreensOK, NEW d \in Browsers, E!SignOut(d)
  PROVE ScreensOK'
<1>1. E!Site \in Screens /\ E!Site.at = "site" /\ E!Site.pending = "none" /\ "/app" \in Spots
  BY DEF E!Site, E!Library, E!Places, Spots, Screens
<1>2. screen' = [screen EXCEPT ![d] = E!Site] /\ headed' = [headed EXCEPT ![d] = "/app"]
  BY DEF E!SignOut, E!Show, E!Library
<1> QED
  BY <1>1, <1>2, ScreenChanges

LEMMA NameShown ==
  ASSUME ScreensOK, NEW d \in Browsers, NEW n \in Names, E!SaveName(d, n)
  PROVE ScreensOK'
<1> DEFINE s == [screen[d] EXCEPT !.name = n]
<1>0. headed' = headed
  BY DEF E!SaveName
<1>1. /\ screen[d] \in Screens /\ headed[d] \in Spots /\ headed' = [headed EXCEPT ![d] = headed[d]]
      /\ screen[d].pending # "none" => screen[d].at # "site"
      /\ screen[d].at # "site" /\ headed[d] \in E!Plain => screen[d].place = headed[d]
  BY <1>0, ScreenKinds
<1>2. s \in Screens /\ s.at = screen[d].at /\ s.place = screen[d].place /\ s.pending = screen[d].pending
  BY <1>1 DEF Screens
<1>3. screen' = [screen EXCEPT ![d] = s]
  BY DEF E!SaveName
<1> HIDE DEF s
<1> QED
  BY <1>1, <1>2, <1>3, ScreenChanges

\* Names, step by step.
LEMMA SessionNamed ==
  ASSUME NamesOK, NEW d \in Browsers, NEW n \in Names \cup {E!Nameless}, NEW p, E!StartSession(d, n, p)
  PROVE NamesOK'
<1> DEFINE m == IF account = None THEN n ELSE account.name
           own == [name |-> m, left |-> CookieLife]
<1>1. /\ account' = [name |-> m] /\ signedIn' = signedIn \cup {d} /\ cookie' = [cookie EXCEPT ![d] = own]
      /\ UNCHANGED <<token, peer, renamed>>
  BY DEF E!StartSession
<1>2. m \in Names \cup {E!Nameless} /\ account' # None /\ account'.name = m /\ (account # None => account'.name = account.name)
  BY <1>1, SignInAssumption DEF NamesOK
<1>3. own \in [name : Names \cup {E!Nameless}, left : 1..CookieLife] /\ own.name = m
  BY <1>2, SignInAssumption
<1> HIDE DEF m, own
<1>4. cookie' \in [Browsers -> {None} \cup [name : Names \cup {E!Nameless}, left : 1..CookieLife]]
  BY <1>1, <1>3 DEF NamesOK
<1>5. ASSUME NEW b \in Browsers, cookie'[b] # None, cookie'[b].name # account'.name
      PROVE renamed' >= TokenLife + cookie'[b].left
  <2>1. b # d /\ cookie'[b] = cookie[b]
    BY <1>1, <1>2, <1>3, <1>5 DEF NamesOK
  <2> QED
    BY <1>1, <1>2, <1>5, <2>1 DEF NamesOK
<1>6. \A b \in Browsers : token'[b] # None /\ token'[b].name # account'.name => renamed' >= token'[b].left
  BY <1>1, <1>2 DEF NamesOK
<1>7. account' \in [name : Names \cup {E!Nameless}] /\ signedIn' \subseteq Browsers
  BY <1>1, <1>2 DEF NamesOK
<1> QED
  BY <1>1, <1>2, <1>4, <1>5, <1>6, <1>7 DEF NamesOK

LEMMA NameSaved ==
  ASSUME NamesOK, NEW d \in Browsers, NEW n \in Names, E!SaveName(d, n)
  PROVE NamesOK'
<1> DEFINE own == [name |-> n, left |-> CookieLife]
<1>1. /\ account' = [name |-> n] /\ signedIn' = signedIn /\ cookie' = [cookie EXCEPT ![d] = own]
      /\ renamed' = (IF n = account.name THEN renamed ELSE CookieLife + TokenLife)
      /\ UNCHANGED <<token, peer>> /\ d \in signedIn
  BY DEF E!SaveName
<1>2. account # None /\ account' # None /\ account'.name = n
  BY <1>1, SignInAssumption DEF NamesOK
<1>3. own \in [name : Names \cup {E!Nameless}, left : 1..CookieLife] /\ own.name = n
  BY SignInAssumption
<1> HIDE DEF own
<1>4. cookie' \in [Browsers -> {None} \cup [name : Names \cup {E!Nameless}, left : 1..CookieLife]]
  BY <1>1, <1>3 DEF NamesOK
<1>5. ASSUME NEW b \in Browsers, cookie'[b] # None, cookie'[b].name # account'.name
      PROVE renamed' >= TokenLife + cookie'[b].left
  <2>1. b # d /\ cookie'[b] = cookie[b]
    BY <1>1, <1>2, <1>3, <1>5 DEF NamesOK
  <2>2. cookie'[b].left \in 1..CookieLife
    BY <1>4, <1>5
  <2>3. CASE n = account.name
    BY <1>1, <1>2, <1>5, <2>1, <2>3 DEF NamesOK
  <2>4. CASE n # account.name
    BY <1>1, <2>2, <2>4, SignInAssumption
  <2> QED
    BY <2>3, <2>4
<1>6. ASSUME NEW b \in Browsers, token'[b] # None, token'[b].name # account'.name
      PROVE renamed' >= token'[b].left
  <2>1. token[b].left \in 0..TokenLife /\ token'[b] = token[b]
    BY <1>1, <1>6 DEF NamesOK
  <2>2. CASE n = account.name
    BY <1>1, <1>2, <1>6, <2>2 DEF NamesOK
  <2>3. CASE n # account.name
    BY <1>1, <2>1, <2>3, SignInAssumption
  <2> QED
    BY <2>2, <2>3
<1>7. account' \in [name : Names \cup {E!Nameless}] /\ renamed' \in 0..(CookieLife + TokenLife)
  BY <1>1, SignInAssumption DEF NamesOK
<1> QED
  BY <1>1, <1>2, <1>4, <1>5, <1>6, <1>7 DEF NamesOK

LEMMA TokenNamed ==
  ASSUME NamesOK, NEW d \in Browsers, E!GetToken(d)
  PROVE NamesOK'
<1>1. E!Session(d) # None /\ E!Session(d).name # E!Nameless
  BY DEF E!GetToken, E!MayConnect
<1>2. E!Session(d).name \in Names /\ account # None /\ (E!Session(d).name # account.name => renamed >= TokenLife)
  BY <1>1, SessionsNamed
<1> DEFINE own == [name |-> E!Session(d).name, left |-> TokenLife]
<1>3. token' = [token EXCEPT ![d] = own] /\ UNCHANGED <<account, signedIn, cookie, peer, renamed>>
  BY <1>1 DEF E!GetToken
<1>4. own \in [name : Names, left : 0..TokenLife] /\ own.name = E!Session(d).name /\ own.left = TokenLife
  BY <1>2, SignInAssumption
<1> HIDE DEF own
<1>5. token' \in [Browsers -> {None} \cup [name : Names, left : 0..TokenLife]]
  BY <1>3, <1>4 DEF NamesOK
<1>6. ASSUME NEW b \in Browsers, token'[b] # None, token'[b].name # account'.name
      PROVE renamed' >= token'[b].left
  BY <1>2, <1>3, <1>4, <1>6 DEF NamesOK
<1> QED
  BY <1>2, <1>3, <1>5, <1>6 DEF NamesOK

LEMMA SessionGone ==
  ASSUME NamesOK, NEW d \in Browsers, E!SignOut(d) \/ E!EndSession(d)
  PROVE NamesOK'
<1>1. /\ signedIn' \subseteq signedIn /\ UNCHANGED <<account, token, peer, renamed>>
      /\ cookie' \in {cookie, [cookie EXCEPT ![d] = None]}
  BY DEF E!SignOut, E!EndSession
<1>2. /\ cookie' \in [Browsers -> {None} \cup [name : Names \cup {E!Nameless}, left : 1..CookieLife]]
      /\ \A b \in Browsers : cookie'[b] = None \/ cookie'[b] = cookie[b]
  BY <1>1 DEF NamesOK
<1> QED
  BY <1>1, <1>2 DEF NamesOK

LEMMA NamesAge ==
  ASSUME NamesOK, E!Tick
  PROVE NamesOK'
<1>1. /\ cookie' = [d \in Browsers |-> IF cookie[d] = None \/ cookie[d].left = 1 THEN None
                                       ELSE [cookie[d] EXCEPT !.left = @ - 1]]
      /\ token' = [d \in Browsers |-> IF token[d] = None THEN None ELSE [token[d] EXCEPT !.left = E!Less(@)]]
      /\ renamed' = E!Less(renamed) /\ UNCHANGED <<account, signedIn, peer>>
  BY DEF E!Tick
<1>2. renamed \in Nat /\ TokenLife \in Nat /\ CookieLife \in Nat
  BY SignInAssumption DEF NamesOK
<1>3. \A b \in Browsers : cookie'[b] # None
         => /\ cookie[b] # None /\ cookie'[b] \in [name : Names \cup {E!Nameless}, left : 1..CookieLife]
            /\ cookie'[b].name = cookie[b].name
            /\ cookie[b].left \in Nat /\ cookie[b].left > 1 /\ cookie'[b].left = cookie[b].left - 1
  <2> SUFFICES ASSUME NEW b \in Browsers, cookie'[b] # None
               PROVE /\ cookie[b] # None /\ cookie'[b] \in [name : Names \cup {E!Nameless}, left : 1..CookieLife]
                     /\ cookie'[b].name = cookie[b].name
                     /\ cookie[b].left \in Nat /\ cookie[b].left > 1 /\ cookie'[b].left = cookie[b].left - 1
    OBVIOUS
  <2>1. cookie[b] # None /\ cookie[b].left # 1 /\ cookie'[b] = [cookie[b] EXCEPT !.left = @ - 1]
    BY <1>1
  <2>2. cookie[b] \in [name : Names \cup {E!Nameless}, left : 1..CookieLife]
    BY <2>1 DEF NamesOK
  <2> QED
    BY <1>2, <2>1, <2>2
<1>4. \A b \in Browsers : token'[b] # None
         => /\ token[b] # None /\ token'[b] \in [name : Names, left : 0..TokenLife]
            /\ token'[b].name = token[b].name
            /\ token[b].left \in Nat /\ token'[b].left = E!Less(token[b].left)
  <2> SUFFICES ASSUME NEW b \in Browsers, token'[b] # None
               PROVE /\ token[b] # None /\ token'[b] \in [name : Names, left : 0..TokenLife]
                     /\ token'[b].name = token[b].name
                     /\ token[b].left \in Nat /\ token'[b].left = E!Less(token[b].left)
    OBVIOUS
  <2>1. token[b] # None /\ token'[b] = [token[b] EXCEPT !.left = E!Less(@)]
    BY <1>1
  <2>2. token[b] \in [name : Names, left : 0..TokenLife]
    BY <2>1 DEF NamesOK
  <2>3. token[b].left \in Nat /\ E!Less(token[b].left) \in 0..TokenLife
    BY <1>2, <2>2 DEF E!Less
  <2> QED
    BY <2>1, <2>2, <2>3
<1>5. cookie' \in [Browsers -> {None} \cup [name : Names \cup {E!Nameless}, left : 1..CookieLife]]
  <2>1. \A b \in Browsers : cookie'[b] \in {None} \cup [name : Names \cup {E!Nameless}, left : 1..CookieLife]
    BY <1>3
  <2> QED
    BY <1>1, <2>1
<1>6. token' \in [Browsers -> {None} \cup [name : Names, left : 0..TokenLife]]
  <2>1. \A b \in Browsers : token'[b] \in {None} \cup [name : Names, left : 0..TokenLife]
    BY <1>4
  <2> QED
    BY <1>1, <2>1
<1>7. ASSUME NEW b \in Browsers, cookie'[b] # None, cookie'[b].name # account'.name
      PROVE renamed' >= TokenLife + cookie'[b].left
  <2>1. cookie'[b].name = cookie[b].name /\ cookie'[b].left = cookie[b].left - 1 /\ cookie[b].left \in Nat /\ cookie[b].left > 1
    BY <1>2, <1>3, <1>7
  <2>2. renamed >= TokenLife + cookie[b].left
    BY <1>1, <1>3, <1>7, <2>1 DEF NamesOK
  <2> QED
    BY <1>1, <1>2, <2>1, <2>2 DEF E!Less
<1>8. ASSUME NEW b \in Browsers, token'[b] # None, token'[b].name # account'.name
      PROVE renamed' >= token'[b].left
  <2>1. token'[b].name = token[b].name /\ token'[b].left = E!Less(token[b].left) /\ token[b].left \in Nat
    BY <1>2, <1>4, <1>8
  <2>2. renamed >= token[b].left
    BY <1>1, <1>4, <1>8, <2>1 DEF NamesOK
  <2> QED
    BY <1>1, <1>2, <2>1, <2>2 DEF E!Less
<1>9. renamed' \in 0..(CookieLife + TokenLife)
  <2>1. renamed \in 0..(CookieLife + TokenLife) /\ renamed' = E!Less(renamed)
    BY <1>1 DEF NamesOK
  <2> QED
    BY <1>2, <2>1 DEF E!Less
<1>10. account = None => \A b \in Browsers : cookie'[b] = None /\ token'[b] = None
  BY <1>1 DEF NamesOK
<1> QED
  BY <1>1, <1>5, <1>6, <1>7, <1>8, <1>9, <1>10 DEF NamesOK

\* Every step, whoever takes it.
LEMMA EnterSteps == ASSUME SignInInv, NEW d \in Browsers, E!Enter(d) PROVE SignInInv'
<1>0. MailOK /\ ScreensOK /\ NamesOK
  BY DEF SignInInv
<1>1. ASSUME (\E p \in E!Places : E!Ask(d, p)) \/ E!VisitSignIn(d) \/ E!UseAnother(d) PROVE SignInInv'
  <2>1. ScreensOK'
    BY <1>1, AskSteps
  <2>2. UNCHANGED <<account, signedIn, cookie, mailbox, token, peer, renamed>>
    BY <1>1 DEF E!Ask, E!VisitSignIn, E!UseAnother, E!unchangedButScreen
  <2> QED
    BY <1>0, <2>1, <2>2 DEF SignInInv, MailOK, NamesOK
<1>2. ASSUME E!AskForLink(d) \/ E!AskGoogle(d) \/ E!Refuse(d) PROVE SignInInv'
  <2>1. PICK w \in {"none", "link", "google"} :
          E!Show(d, [screen[d] EXCEPT !.pending = w]) /\ (w # "none" => screen[d].at # "site")
    BY <1>2 DEF E!AskForLink, E!AskGoogle, E!Refuse
  <2>2. UNCHANGED <<account, signedIn, cookie, mailbox, token, peer, renamed, headed>>
    BY <1>2 DEF E!AskForLink, E!AskGoogle, E!Refuse, E!unchangedButScreen
  <2>3. ScreensOK'
    BY <1>0, <2>1, <2>2, PendingSteps
  <2> QED
    BY <1>0, <2>2, <2>3 DEF SignInInv, MailOK, NamesOK
<1>3. ASSUME E!SendLink(d) PROVE SignInInv'
  <2>1. UNCHANGED <<account, signedIn, cookie, token, peer, renamed>>
    BY <1>3 DEF E!SendLink
  <2> QED
    BY <1>0, <1>3, <2>1, LinkSent DEF SignInInv, NamesOK
<1>4. ASSUME E!BackFromGoogle(d) PROVE SignInInv'
  <2>1. ScreensOK' /\ mailbox' = mailbox
    BY <1>4, GoogleAnswers DEF E!BackFromGoogle
  <2>2. CASE UNCHANGED <<account, signedIn, cookie, token, peer, renamed>>
    BY <1>0, <2>1, <2>2 DEF SignInInv, MailOK, NamesOK
  <2>3. ASSUME NEW n \in Names, E!StartSession(d, n, screen[d].place) PROVE SignInInv'
    BY <1>0, <2>1, <2>3, SessionNamed DEF SignInInv, MailOK
  <2> QED
    BY <1>4, <2>2, <2>3 DEF E!BackFromGoogle
<1>5. ASSUME NEW l \in mailbox, E!OpenLink(d, l) PROVE SignInInv'
  <2>1. MailOK' /\ ScreensOK'
    BY <1>5, LinkOpened
  <2>2. CASE E!StartSession(d, E!Nameless, l.to)
    BY <1>0, <2>1, <2>2, SessionNamed DEF SignInInv
  <2>3. CASE UNCHANGED <<account, signedIn, cookie, token, peer, renamed>>
    BY <1>0, <2>1, <2>3 DEF SignInInv, NamesOK
  <2> QED
    BY <1>5, <2>2, <2>3 DEF E!OpenLink, E!unchangedButScreen
<1> QED
  BY <1>1, <1>2, <1>3, <1>4, <1>5 DEF E!Enter

LEMMA LeaveSteps == ASSUME SignInInv, NEW d \in Browsers, E!Leave(d) PROVE SignInInv'
<1>1. MailOK /\ ScreensOK /\ NamesOK
  BY DEF SignInInv
<1>2. NamesOK' /\ mailbox' = mailbox
  BY <1>1, SessionGone DEF E!Leave, E!SignOut, E!EndSession
<1>3. ScreensOK'
  <2>1. CASE E!SignOut(d)
    BY <1>1, <2>1, SignedOut
  <2>2. CASE E!EndSession(d)
    BY <1>1, <2>2 DEF E!EndSession, ScreensOK
  <2> QED
    BY <2>1, <2>2 DEF E!Leave
<1> QED
  BY <1>1, <1>2, <1>3 DEF SignInInv, MailOK

LEMMA JoinSteps == ASSUME SignInInv, NEW d \in Browsers, E!Join(d) PROVE SignInInv'
<1>1. MailOK /\ ScreensOK /\ NamesOK
  BY DEF SignInInv
<1>2. CASE E!GetToken(d)
  BY <1>1, <1>2, TokenNamed DEF E!GetToken, SignInInv, MailOK, ScreensOK
<1>3. CASE E!Connect(d) \/ E!Disconnect(d)
  <2>1. UNCHANGED <<account, signedIn, cookie, screen, mailbox, token, headed, renamed>>
    BY <1>3 DEF E!Connect, E!Disconnect
  <2>2. peer' \in [Browsers -> Names \cup {None}]
    BY <1>1, <1>3 DEF E!Connect, E!Disconnect, NamesOK
  <2>3. NamesOK'
    BY <1>1, <2>1, <2>2 DEF NamesOK
  <2> QED
    BY <1>1, <2>1, <2>3 DEF SignInInv, MailOK, ScreensOK
<1>4. ASSUME NEW n \in Names, E!SaveName(d, n) PROVE SignInInv'
  <2>1. mailbox' = mailbox
    BY <1>4 DEF E!SaveName
  <2> QED
    BY <1>1, <1>4, <2>1, NameShown, NameSaved DEF SignInInv, MailOK
<1> QED
  BY <1>2, <1>3, <1>4 DEF E!Join

LEMMA SignInSteps == ASSUME SignInInv, E!Next PROVE SignInInv'
<1>1. CASE E!Tick
  <2>1. MailOK /\ ScreensOK /\ NamesOK
    BY DEF SignInInv
  <2>2. MailOK'
    BY <1>1, <2>1, MailAges DEF E!Tick
  <2>3. ScreensOK'
    BY <1>1, <2>1 DEF E!Tick, ScreensOK
  <2> QED
    BY <1>1, <2>1, <2>2, <2>3, NamesAge DEF SignInInv
<1> QED
  BY <1>1, EnterSteps, LeaveSteps, JoinSteps DEF E!Next

LEMMA SignInStands == ASSUME SignInInv, UNCHANGED signInVars PROVE SignInInv'
  BY DEF SignInInv, signInVars, MailOK, ScreensOK, NamesOK

LEMMA SignInTyped == SignInInv => E!TypeOK
<1> SUFFICES ASSUME SignInInv PROVE E!TypeOK
  OBVIOUS
<1>1. E!Cardinality(mailbox) = Cardinality(mailbox)
  BY DEF E!Cardinality, Cardinality
<1>2. \A d \in Browsers : /\ cookie[d] = None \/ cookie[d].left \in 1..CookieLife
                          /\ token[d] = None \/ token[d].left \in 0..TokenLife
  BY DEF SignInInv, NamesOK
<1>3. \A d \in Browsers : /\ screen[d].at \in {"site", "sign-in", "verify", "app"}
                          /\ screen[d].pending \in {"none", "link", "google"}
  BY DEF SignInInv, ScreensOK, Screens
<1> QED
  BY <1>1, <1>2, <1>3 DEF SignInInv, MailOK, NamesOK, E!TypeOK

LEMMA SignInOnTheWay == SignInInv => E!OnTheWay
  BY DEF SignInInv, ScreensOK, E!OnTheWay

\* Only Connect lets a browser in.
LEMMA JoinedByName ==
  ASSUME SignInInv, E!Next, NEW d \in Browsers, peer'[d] # peer[d], peer'[d] # None
  PROVE peer'[d] \in Names /\ (renamed = 0 => peer'[d] = account.name)
<1>1. NamesOK /\ peer \in [Browsers -> Names \cup {None}]
  BY DEF SignInInv, NamesOK
<1>2. PICK b \in Browsers : E!Connect(b) \/ E!Disconnect(b)
  BY DEF E!Next, E!Tick, E!Enter, E!Leave, E!Join, E!VisitSignIn, E!AskForLink, E!SendLink, E!Refuse, E!UseAnother,
         E!AskGoogle, E!BackFromGoogle, E!Ask, E!OpenLink, E!StartSession, E!SignOut, E!EndSession, E!GetToken,
         E!SaveName, E!unchangedButScreen
<1>3. E!Connect(d)
  BY <1>1, <1>2 DEF E!Connect, E!Disconnect
<1>4. peer'[d] = token[d].name /\ token[d] # None /\ token[d].left > 0
  BY <1>1, <1>3 DEF E!Connect
<1>5. token[d] \in [name : Names, left : 0..TokenLife]
  BY <1>1, <1>4 DEF NamesOK
<1>6. token[d].name # account.name => renamed >= token[d].left
  BY <1>1, <1>4 DEF NamesOK
<1> QED
  BY <1>4, <1>5, <1>6, SignInAssumption

-----------------------------------------------------------------------------
\* Signed URLs.

\* Where somebody asks, at least one exchange is allowed (TypeOK).
LEMMA SomeAsker == /\ U!Cardinality(Askers) \in Nat
                   /\ \A r \in Askers : U!Cardinality(Askers) >= 1
<1>1. IsFiniteSet(Askers)
  BY UrlAssumption
<1>2. Cardinality(Askers) \in Nat /\ (Askers # {} => Cardinality(Askers) # 0)
  BY <1>1, FS_CardinalityType, FS_EmptySet
<1>3. U!Cardinality(Askers) = Cardinality(Askers)
  BY DEF U!Cardinality, Cardinality
<1> QED
  BY <1>2, <1>3

\* The steps of the credentials leave the pages alone, and those of the pages the credentials.
CredentialsOK ==
  /\ session \in {None} \cup 0..SessionLife /\ renewing \in BOOLEAN /\ exchanges \in 0..U!Cardinality(Askers)
  /\ waiting \subseteq Askers /\ refused \subseteq Askers
  /\ urls \subseteq [left : 1..UrlLife, session : 0..SessionLife]
  /\ exchanges = (IF renewing THEN 1 ELSE 0) /\ (waiting # {} => renewing)
  /\ \A u \in urls : u.session >= u.left

ImagesOK ==
  /\ cached \in {None} \cup 0..(ReadLife + 1) /\ query \in {"idle", "asked", "refused"}
  /\ near \subseteq Sheets
  /\ image \in [Sheets -> {"none", "drawn", "broken", "expired"}]
  /\ \A s \in Sheets : image[s] # "none" => s \in near
  /\ \A s \in Sheets : image[s] = "expired" => query # "idle"

\* What the three promises say, and what they rest on: nobody waits but for the exchange under way, the
\* only one, and a page that is not near the screen shows nothing.
UrlInv == CredentialsOK /\ ImagesOK

LEMMA UrlStart == U!Init => UrlInv
<1> SUFFICES ASSUME U!Init PROVE CredentialsOK /\ ImagesOK
  BY DEF UrlInv
<1>1. 0 \in 0..U!Cardinality(Askers)
  BY SomeAsker
<1>2. CredentialsOK
  BY <1>1 DEF U!Init, CredentialsOK
<1>3. ImagesOK
  BY DEF U!Init, ImagesOK
<1> QED
  BY <1>2, <1>3

\* A URL is signed by a session that is fresh, or new, and outlives it.
LEMMA SignedLasts ==
  ASSUME NEW left \in 0..SessionLife, left >= UrlLife
  PROVE U!Signed(left) \in [left : 1..UrlLife, session : 0..SessionLife] /\ U!Signed(left).session >= U!Signed(left).left
  BY UrlAssumption DEF U!Signed

LEMMA CredentialSteps ==
  ASSUME CredentialsOK, (\E r \in Askers : U!NeedUrl(r)) \/ U!Renewed \/ U!ExchangeFails \/ U!HalfHour
  PROVE CredentialsOK'
<1> USE DEF CredentialsOK
<1>1. ASSUME NEW r \in Askers, U!NeedUrl(r) PROVE CredentialsOK'
  <2>1. CASE U!Fresh /\ urls' = urls \cup {U!Signed(session)} /\ UNCHANGED <<waiting, renewing, exchanges>>
    <3>1. session \in 0..SessionLife /\ session >= UrlLife
      BY <2>1, UrlAssumption DEF U!Fresh
    <3>2. U!Signed(session) \in [left : 1..UrlLife, session : 0..SessionLife]
          /\ U!Signed(session).session >= U!Signed(session).left
      BY <3>1, SignedLasts
    <3> QED
      BY <1>1, <2>1, <3>2 DEF U!NeedUrl
  <2>2. CASE U!JoinExchange(r) /\ UNCHANGED urls
    BY <1>1, <2>2, SomeAsker DEF U!NeedUrl, U!JoinExchange
  <2> QED
    BY <1>1, <2>1, <2>2 DEF U!NeedUrl
<1>2. CASE U!Renewed
  <2>1. SessionLife \in 0..SessionLife /\ SessionLife >= UrlLife
    BY UrlAssumption
  <2>2. U!Signed(SessionLife) \in [left : 1..UrlLife, session : 0..SessionLife]
        /\ U!Signed(SessionLife).session >= U!Signed(SessionLife).left
    BY <2>1, SignedLasts
  <2>3. exchanges = 1 /\ exchanges' = 0 /\ waiting' = {} /\ renewing' = FALSE
    BY <1>2 DEF U!Renewed
  <2>4. urls' \subseteq urls \cup {U!Signed(SessionLife)} /\ session' = SessionLife /\ refused' = refused
    BY <1>2 DEF U!Renewed
  <2>5. \A u \in urls' : u \in [left : 1..UrlLife, session : 0..SessionLife] /\ u.session >= u.left
    BY <2>2, <2>4
  <2>6. 0 \in 0..U!Cardinality(Askers)
    BY SomeAsker
  <2>7. refused' \subseteq Askers /\ session' \in {None} \cup 0..SessionLife
    BY <2>1, <2>4
  <2> HIDE DEF CredentialsOK
  <2> QED
    BY <2>3, <2>5, <2>6, <2>7 DEF CredentialsOK
<1>3. CASE U!ExchangeFails
  <2>1. exchanges = 1 /\ exchanges' = 0 /\ waiting' = {} /\ renewing' = FALSE
    BY <1>3 DEF U!ExchangeFails
  <2>2. 0 \in 0..U!Cardinality(Askers)
    BY SomeAsker
  <2>3. refused' \subseteq Askers /\ session' = session /\ urls' = urls
    BY <1>3 DEF U!ExchangeFails
  <2>4. session' \in {None} \cup 0..SessionLife /\ urls' \subseteq [left : 1..UrlLife, session : 0..SessionLife]
        /\ \A u \in urls' : u.session >= u.left
    BY <2>3
  <2> HIDE DEF CredentialsOK
  <2> QED
    BY <2>1, <2>2, <2>3, <2>4 DEF CredentialsOK
<1>4. CASE U!HalfHour
  <2>1. session' \in {None} \cup 0..SessionLife
    BY <1>4, UrlAssumption DEF U!HalfHour, U!Less
  <2>2. ASSUME NEW u \in urls'
        PROVE u \in [left : 1..UrlLife, session : 0..SessionLife] /\ u.session >= u.left
    <3>1. PICK v \in urls : v.left > 1 /\ u = [left |-> v.left - 1, session |-> U!Less(v.session)]
      BY <1>4, <2>2 DEF U!HalfHour
    <3>2. v.left \in 1..UrlLife /\ v.session \in 0..SessionLife /\ v.session >= v.left
      OBVIOUS
    <3>3. U!Less(v.session) = v.session - 1
      BY <3>1, <3>2, UrlAssumption DEF U!Less
    <3> QED
      BY <3>1, <3>2, <3>3, UrlAssumption
  <2> QED
    BY <1>4, <2>1, <2>2 DEF U!HalfHour
<1> QED
  BY <1>1, <1>2, <1>3, <1>4

LEMMA ImageSteps ==
  ASSUME ImagesOK, (\E s \in Sheets : U!ComesNear(s)) \/ U!UrlArrives \/ U!UrlRefused \/ U!CloseDocument \/ U!FiveMinutes
  PROVE ImagesOK'
<1> USE DEF ImagesOK
<1>0. \A age \in Nat : U!Outcomes(age) \subseteq {"drawn", "broken", "expired"}
                       /\ ("expired" \in U!Outcomes(age) => age >= ReadLife)
  BY UrlAssumption DEF U!Outcomes
<1>1. ASSUME NEW s \in Sheets, U!ComesNear(s) PROVE ImagesOK'
  <2>1. PICK o \in IF cached = None THEN {"none"} ELSE U!Outcomes(cached) : image' = [image EXCEPT ![s] = o]
    BY <1>1 DEF U!ComesNear
  <2>2. o \in {"none", "drawn", "broken", "expired"} /\ (o = "expired" => cached # None /\ cached >= ReadLife)
    BY <1>0, <2>1, UrlAssumption
  <2>3. o = "expired" => query' = "asked"
    BY <1>1, <2>2, UrlAssumption DEF U!ComesNear, U!Stale
  <2>4. query' \in {query, "asked"} /\ near' = near \cup {s} /\ cached' = cached
    BY <1>1 DEF U!ComesNear
  <2> QED
    BY <2>1, <2>2, <2>3, <2>4
<1>2. CASE U!UrlArrives
  <2>1. PICK o \in U!Outcomes(0) :
          image' = [s \in Sheets |-> IF s \notin near \/ image[s] = "drawn" THEN image[s] ELSE o]
    BY <1>2 DEF U!UrlArrives
  <2>2. o \in {"drawn", "broken"}
    BY <1>0, <2>1, UrlAssumption
  <2>3. cached' = 0 /\ query' = "idle" /\ near' = near
    BY <1>2 DEF U!UrlArrives
  <2> QED
    BY <2>1, <2>2, <2>3, UrlAssumption
<1>3. CASE U!UrlRefused
  BY <1>3 DEF U!UrlRefused
<1>4. CASE U!CloseDocument
  BY <1>4 DEF U!CloseDocument
<1>5. CASE U!FiveMinutes
  BY <1>5, UrlAssumption DEF U!FiveMinutes
<1> QED
  BY <1>1, <1>2, <1>3, <1>4, <1>5

LEMMA UrlSteps == ASSUME UrlInv, U!Next PROVE UrlInv'
<1>1. CredentialsOK /\ ImagesOK
  BY DEF UrlInv
<1>2. CASE (\E r \in Askers : U!NeedUrl(r)) \/ U!Renewed \/ U!ExchangeFails \/ U!HalfHour
  <2>1. CredentialsOK'
    BY <1>1, <1>2, CredentialSteps
  <2>2. UNCHANGED <<cached, query, near, image>>
    BY <1>2 DEF U!NeedUrl, U!Renewed, U!ExchangeFails, U!HalfHour, U!pageVars
  <2>3. ImagesOK'
    BY <1>1, <2>2 DEF ImagesOK
  <2> QED
    BY <2>1, <2>3 DEF UrlInv
<1>3. CASE (\E s \in Sheets : U!ComesNear(s)) \/ U!UrlArrives \/ U!UrlRefused \/ U!CloseDocument \/ U!FiveMinutes
  <2>1. ImagesOK'
    BY <1>1, <1>3, ImageSteps
  <2>2. UNCHANGED <<session, renewing, exchanges, waiting, refused, urls>>
    BY <1>3 DEF U!ComesNear, U!UrlArrives, U!UrlRefused, U!CloseDocument, U!FiveMinutes, U!credentialVars
  <2>3. CredentialsOK'
    BY <1>1, <2>2 DEF CredentialsOK
  <2> QED
    BY <2>1, <2>3 DEF UrlInv
<1> QED
  BY <1>2, <1>3 DEF U!Next

LEMMA UrlStands == ASSUME UrlInv, UNCHANGED urlVars PROVE UrlInv'
  BY DEF UrlInv, urlVars, CredentialsOK, ImagesOK

LEMMA UrlShown == UrlInv => U!LastsItsLife /\ U!OneExchange /\ U!ExpiredIsReplaced /\ U!TypeOK
  BY DEF UrlInv, CredentialsOK, ImagesOK, U!LastsItsLife, U!OneExchange, U!ExpiredIsReplaced, U!TypeOK

-----------------------------------------------------------------------------
\* Pages, their addresses, and the search box.

PageKinds == {"home", "folder", "recents", "smart", "search"}
LibraryPages == [kind : PageKinds, ws : Workspaces \cup {None}, q : Texts \cup {None}, asked : Titles \cup {None},
                 selected : Titles \cup {None}]
Views == [sort : N!Sorts, dir : {"asc", "desc"}, tags : SUBSET FilterTags]
Params == [sort : N!Sorts \cup {None}, dir : {"asc", "desc", None}, tags : SUBSET FilterTags]
PostKinds == [ws : Workspaces, then : {"nothing", "home", "refresh"}]

\* A view that the toolbar of such a page can show.
Showable(v, kind) == v \in Views /\ v.sort \in N!SortsFor(kind)
                     /\ (v.sort \in N!FixedDirection => v.dir = N!DefaultDir(v.sort))

ViewsOK ==
  /\ page \in LibraryPages /\ url \in Params
  /\ Showable(view, N!Kind(page)) /\ Showable(opened, N!Kind(page)) /\ Showable(saved, "home")

\* The sidebar is in the workspace of the page, even while requests to remember it are under way.
PlacesOK ==
  /\ {remembered, sidebar, layout} \subseteq Workspaces
  /\ posts \in Seq(PostKinds) /\ Len(posts) <= MaxPosts + 3
  /\ page.ws # None => sidebar = page.ws

SearchOK == {text, asked} \subseteq Texts \cup {N!Blank} /\ lit \in Nat

NavInv == ViewsOK /\ PlacesOK /\ SearchOK

\* The parts differ in what they do: nothing follows a request in one, and nobody searches in the others.
NothingFollows == \A i \in DOMAIN posts : posts[i].then = "nothing"
PartOK == /\ part = "search" => NothingFollows
          /\ part \in {"toolbar", "places"} => page.kind # "search"

\* What an action that changes the view does to the address.
Reads ==
  view' # view /\ N!Accepted(view') /\ (page'.kind = "smart" => url' # N!NoParams) =>
       N!ViewFromParams(url', N!Kind(page')) = view'

Picks ==
  page' # page /\ page'.kind = "search" /\ text = asked /\ remembered = sidebar /\ ~N!SameScope(page, page') =>
       page'.selected = page'.asked

LEMMA SomeOfThem ==
  ASSUME NEW S, IsFiniteSet(S), NEW n \in Nat, ~(Cardinality(S) <= n)
  PROVE \E R \in SUBSET S : Cardinality(R) = n
<1>1. Cardinality(S) \in Nat /\ ExistsBijection(1..Cardinality(S), S)
  BY FS_CardinalityType
<1>2. PICK f \in Bijection(1..Cardinality(S), S) : TRUE
  BY <1>1 DEF ExistsBijection
<1>3. f \in [1..Cardinality(S) -> S]
      /\ \A i, j \in 1..Cardinality(S) : f[i] = f[j] => i = j
  BY <1>2 DEF Bijection, Injection, IsInjective
<1> DEFINE R == {f[i] : i \in 1..n}
           g == [i \in 1..n |-> f[i]]
<1>4. 1..n \subseteq 1..Cardinality(S)
  BY <1>1
<1>5. R \in SUBSET S
  BY <1>3, <1>4
<1>6. g \in [1..n -> R] /\ (\A i, j \in 1..n : g[i] = g[j] => i = j) /\ \A y \in R : \E i \in 1..n : g[i] = y
  BY <1>3, <1>4
<1>7. g \in Bijection(1..n, R)
  BY <1>6 DEF Bijection, Injection, IsInjective, Surjection
<1>8. ExistsBijection(1..n, R)
  BY <1>7 DEF ExistsBijection
<1>9. Cardinality(R) = n
  BY <1>8, FS_CountingElements
<1> QED
  BY <1>5, <1>9

LEMMA CutOff ==
  ASSUME NEW tags \in SUBSET FilterTags, ~(N!Cardinality(tags) <= TagLimit)
  PROVE (CHOOSE R \in SUBSET tags : N!Cardinality(R) = TagLimit) \in SUBSET FilterTags
<1>1. \A R : N!Cardinality(R) = Cardinality(R)
  BY DEF N!Cardinality, Cardinality
<1>2. IsFiniteSet(tags)
  BY FS_Subset, PageAssumption
<1>3. ~(Cardinality(tags) <= TagLimit) /\ TagLimit \in Nat
  BY <1>1, PageAssumption
<1>4. \E R \in SUBSET tags : Cardinality(R) = TagLimit
  BY <1>2, <1>3, SomeOfThem
<1>5. \E R \in SUBSET tags : N!Cardinality(R) = TagLimit
  BY <1>1, <1>4
<1> QED
  BY <1>5

\* Whatever an address says, it is the address of a view; the address of a view reads back as that view.
LEMMA AddressRead ==
  ASSUME NEW p \in Params, NEW kind \in PageKinds
  PROVE Showable(N!ViewFromParams(p, kind), kind)
<1> DEFINE sort == IF p.sort \in N!SortsFor(kind) THEN p.sort ELSE N!DefaultSort(kind)
           dir == IF p.dir # None /\ sort \notin N!FixedDirection THEN p.dir ELSE N!DefaultDir(sort)
           tags == IF N!Cardinality(p.tags) <= TagLimit THEN p.tags
                   ELSE CHOOSE R \in SUBSET p.tags : N!Cardinality(R) = TagLimit
<1>1. sort \in N!SortsFor(kind) /\ sort \in N!Sorts
  BY DEF N!SortsFor, N!DefaultSort, N!Sorts, PageKinds
<1>2. dir \in {"asc", "desc"} /\ (sort \in N!FixedDirection => dir = N!DefaultDir(sort))
  BY DEF Params, N!DefaultDir
<1>3. p.tags \in SUBSET FilterTags
  BY DEF Params
<1>4. tags \in SUBSET FilterTags
  BY <1>3, CutOff
<1>5. N!ViewFromParams(p, kind) = [sort |-> sort, dir |-> dir, tags |-> tags]
  BY DEF N!ViewFromParams
<1> HIDE DEF sort, dir, tags
<1> QED
  BY <1>1, <1>2, <1>4, <1>5 DEF Showable, Views

LEMMA AddressMade ==
  ASSUME NEW v, NEW kind \in PageKinds, Showable(v, kind)
  PROVE /\ N!ViewToParams(v, kind) \in Params
        /\ N!Accepted(v) => N!ViewFromParams(N!ViewToParams(v, kind), kind) = v
<1> DEFINE p == N!ViewToParams(v, kind)
<1>1. v \in Views /\ v.sort \in N!SortsFor(kind) /\ v.sort \in N!Sorts
      /\ (v.sort \in N!FixedDirection => v.dir = N!DefaultDir(v.sort))
  BY DEF Showable, Views
<1>2. p = [sort |-> IF v.sort = N!DefaultSort(kind) THEN None ELSE v.sort,
           dir |-> IF v.dir = N!DefaultDir(v.sort) THEN None ELSE v.dir, tags |-> v.tags]
  BY DEF N!ViewToParams
<1>3. p \in Params
  BY <1>1, <1>2 DEF Params, Views
<1>4. ASSUME N!Accepted(v) PROVE N!ViewFromParams(p, kind) = v
  <2>1. None \notin N!Sorts \cup {"asc", "desc"} /\ N!SortsFor(kind) \subseteq N!Sorts
    BY PageAssumption DEF N!SortsFor
  <2>2. (IF p.sort \in N!SortsFor(kind) THEN p.sort ELSE N!DefaultSort(kind)) = v.sort
    BY <1>1, <1>2, <2>1
  <2>3. (IF p.dir # None /\ v.sort \notin N!FixedDirection THEN p.dir ELSE N!DefaultDir(v.sort)) = v.dir
    BY <1>1, <1>2, <2>1 DEF Views
  <2>4. p.tags = v.tags /\ N!Cardinality(v.tags) <= TagLimit
    BY <1>2, <1>4 DEF N!Accepted
  <2>5. v = [sort |-> v.sort, dir |-> v.dir, tags |-> v.tags]
    BY <1>1 DEF Views
  <2> HIDE DEF p
  <2>6. N!ViewFromParams(p, kind) = [sort |-> v.sort, dir |-> v.dir, tags |-> v.tags]
    BY <2>2, <2>3, <2>4 DEF N!ViewFromParams
  <2> QED
    BY <2>5, <2>6
<1> QED
  BY <1>3, <1>4

LEMMA KindsOfPages == \A pg \in LibraryPages : N!Kind(pg) \in PageKinds /\ (pg.kind = "smart" => N!Kind(pg) = "home")
  BY DEF N!Kind, LibraryPages, PageKinds

LEMMA FirstShown ==
  ASSUME ViewsOK, NEW p \in Params, NEW pg \in LibraryPages
  PROVE Showable(N!FirstPage(p, pg), N!Kind(pg))
<1>1. CASE pg.kind = "smart" /\ p = N!NoParams
  BY <1>1, KindsOfPages DEF N!FirstPage, ViewsOK
<1>2. CASE ~(pg.kind = "smart" /\ p = N!NoParams)
  BY <1>2, KindsOfPages, AddressRead DEF N!FirstPage
<1> QED
  BY <1>1, <1>2

LEMMA PageChanges ==
  ASSUME NEW r \in LibraryPages
  PROVE /\ \A w \in Workspaces : /\ [r EXCEPT !.ws = w] \in LibraryPages /\ [r EXCEPT !.ws = w].kind = r.kind
                                 /\ [r EXCEPT !.ws = w].ws = w
        /\ \A s \in Titles \cup {None} : /\ [r EXCEPT !.selected = s] \in LibraryPages
                                         /\ [r EXCEPT !.selected = s].kind = r.kind
                                         /\ [r EXCEPT !.selected = s].ws = r.ws
                                         /\ [r EXCEPT !.selected = s].q = r.q
        /\ \A s \in Titles \cup {None} : /\ [r EXCEPT !.asked = s] \in LibraryPages
                                         /\ [r EXCEPT !.asked = s].kind = r.kind
                                         /\ [r EXCEPT !.asked = s].ws = r.ws
  BY DEF LibraryPages

LEMMA Rendered ==
  ASSUME ViewsOK, NEW p \in Params, NEW pg \in LibraryPages, N!Render(pg, p)
  PROVE /\ page' \in LibraryPages /\ page'.kind = pg.kind /\ page'.ws = pg.ws /\ url' \in Params
        /\ Showable(view', N!Kind(page')) /\ Showable(opened', N!Kind(page'))
        /\ Reads
        /\ page' = pg \/ N!SameScope(page, page')
<1> DEFINE v == N!FirstPage(p, pg)
           kept == N!SameScope(pg, page) /\ v = opened
<1>1. /\ page' = IF N!SameScope(pg, page) THEN [pg EXCEPT !.selected = page.selected] ELSE pg
      /\ opened' = v /\ view' = (IF kept THEN view ELSE v)
      /\ url' = IF kept THEN p ELSE N!ViewToParams(v, N!Kind(pg))
  BY DEF N!Render
<1>2. Showable(v, N!Kind(pg)) /\ N!Kind(pg) \in PageKinds
  BY FirstShown, KindsOfPages
<1>3. page \in LibraryPages /\ page.selected \in Titles \cup {None}
  BY DEF ViewsOK, LibraryPages
<1> HIDE DEF v
<1>4. page' \in LibraryPages /\ page'.kind = pg.kind /\ page'.ws = pg.ws /\ (page' # pg => page'.q = pg.q)
  <2>1. CASE N!SameScope(pg, page)
    BY <1>1, <1>3, <2>1, PageChanges
  <2>2. CASE ~N!SameScope(pg, page)
    BY <1>1, <2>2
  <2> QED
    BY <2>1, <2>2
<1>5. N!Kind(page') = N!Kind(pg)
  BY <1>4 DEF N!Kind
<1>6. kept => N!Kind(pg) = N!Kind(page)
  BY DEF N!Kind, N!SameScope
<1>7. Showable(view', N!Kind(pg)) /\ Showable(opened', N!Kind(pg))
  BY <1>1, <1>2, <1>6 DEF ViewsOK
<1>8. url' \in Params
  BY <1>1, <1>2, AddressMade
<1>9. Reads
  <2>1. SUFFICES ASSUME view' # view, N!Accepted(view')
                 PROVE N!ViewFromParams(url', N!Kind(pg)) = view'
    BY <1>5 DEF Reads
  <2>2. url' = N!ViewToParams(v, N!Kind(pg)) /\ view' = v
    BY <1>1, <2>1
  <2> QED
    BY <1>2, <2>1, <2>2, AddressMade
<1>10. page' = pg \/ N!SameScope(page, page')
  <2>1. CASE ~N!SameScope(pg, page)
    BY <1>1, <2>1
  <2>2. CASE N!SameScope(pg, page) /\ page' # pg
    BY <1>4, <2>2 DEF N!SameScope
  <2> QED
    BY <2>1, <2>2
<1> QED
  BY <1>4, <1>5, <1>7, <1>8, <1>9, <1>10

\* Requests to remember a workspace: what a page adds to them, and what an answer leaves.
LEMMA Follows ==
  ASSUME NEW ws \in Workspaces \cup {None}, NEW pg, pg.ws = ws, NEW active \in Workspaces,
         NEW sent \in Seq(PostKinds), N!Follow(pg, active, sent)
  PROVE /\ sidebar' \in Workspaces /\ posts' \in Seq(PostKinds) /\ Len(posts') <= Len(sent) + 1
        /\ pg.ws # None => sidebar' = pg.ws
        /\ (\A i \in DOMAIN sent : sent[i].then = "nothing") => NothingFollows'
<1>1. CASE pg.ws \in {None, active}
  BY <1>1 DEF N!Follow, NothingFollows
<1>2. CASE pg.ws \notin {None, active}
  <2> DEFINE x == N!Post(pg.ws, "nothing")
  <2>1. sidebar' = pg.ws /\ pg.ws \in Workspaces
    BY <1>2 DEF N!Follow
  <2>2. posts' = Append(sent, x)
    BY <1>2 DEF N!Follow
  <2>3. x \in PostKinds /\ x.then = "nothing"
    BY <2>1 DEF N!Post, PostKinds
  <2> HIDE DEF x
  <2>4. posts' \in Seq(PostKinds) /\ Len(posts') = Len(sent) + 1
    BY <2>2, <2>3
  <2>5. \A i \in DOMAIN posts' : posts'[i] = x \/ (i \in DOMAIN sent /\ posts'[i] = sent[i])
    BY <2>2, <2>3
  <2> QED
    BY <2>1, <2>3, <2>4, <2>5 DEF NothingFollows
<1> QED
  BY <1>1, <1>2

LEMMA Answered ==
  ASSUME NEW sent \in Seq(PostKinds), NEW i \in DOMAIN sent
  PROVE /\ N!RemoveAt(sent, i) \in Seq(PostKinds) /\ Len(N!RemoveAt(sent, i)) = Len(sent) - 1
        /\ (\A k \in DOMAIN sent : sent[k].then = "nothing")
             => \A k \in DOMAIN N!RemoveAt(sent, i) : N!RemoveAt(sent, i)[k].then = "nothing"
<1> DEFINE n == Len(sent)
           a == SubSeq(sent, 1, i - 1)
           b == SubSeq(sent, i + 1, n)
<1>1. n \in Nat /\ i \in 1..n /\ DOMAIN sent = 1..n
  OBVIOUS
<1>2. a \in Seq(PostKinds) /\ Len(a) = i - 1 /\ \A k \in 1..(i - 1) : a[k] = sent[k]
  BY <1>1
<1>3. b \in Seq(PostKinds) /\ Len(b) = n - i /\ \A k \in 1..(n - i) : b[k] = sent[i + k]
  BY <1>1
<1>4. N!RemoveAt(sent, i) = a \o b
  BY DEF N!RemoveAt
<1> HIDE DEF a, b, n
<1>5. a \o b \in Seq(PostKinds) /\ Len(a \o b) = n - 1 /\ DOMAIN (a \o b) = 1..(n - 1)
  <2>1. a \o b \in Seq(PostKinds) /\ Len(a \o b) = Len(a) + Len(b)
    BY <1>2, <1>3, ConcatProperties
  <2>2. Len(a) + Len(b) = n - 1
    BY <1>1, <1>2, <1>3
  <2> QED
    BY <2>1, <2>2
<1>6. \A k \in 1..(n - 1) : (a \o b)[k] = IF k <= i - 1 THEN a[k] ELSE b[k - (i - 1)]
  BY <1>1, <1>2, <1>3
<1>7. ASSUME NEW k \in 1..(n - 1) PROVE \E j \in DOMAIN sent : (a \o b)[k] = sent[j]
  <2>1. CASE k <= i - 1
    <3>1. k \in 1..(i - 1) /\ k \in 1..n
      BY <1>1, <2>1
    <3>2. (a \o b)[k] = sent[k]
      BY <1>2, <1>6, <2>1, <3>1
    <3> QED
      BY <1>1, <3>1, <3>2
  <2>2. CASE ~(k <= i - 1)
    <3>1. k - (i - 1) \in 1..(n - i) /\ i + (k - (i - 1)) \in 1..n
      BY <1>1, <2>2
    <3>2. (a \o b)[k] = sent[i + (k - (i - 1))]
      BY <1>3, <1>6, <2>2, <3>1
    <3> QED
      BY <1>1, <3>1, <3>2
  <2> QED
    BY <2>1, <2>2
<1> QED
  BY <1>4, <1>5, <1>7 DEF n

\* A page is rendered, and its effect follows.
LEMMA Shown ==
  ASSUME NavInv, NEW p \in Params, NEW pg \in LibraryPages, NEW active \in Workspaces, NEW sent \in Seq(PostKinds),
         Len(sent) <= MaxPosts + 2, N!Render(pg, p), N!Follow(pg, active, sent), UNCHANGED <<saved, text, asked, lit>>,
         {remembered', layout'} \subseteq Workspaces
  PROVE NavInv' /\ Reads
<1>1. /\ page' \in LibraryPages /\ page'.ws = pg.ws /\ url' \in Params
      /\ Showable(view', N!Kind(page')) /\ Showable(opened', N!Kind(page')) /\ Reads
  BY Rendered DEF NavInv
<1>2. pg.ws \in Workspaces \cup {None}
  BY DEF LibraryPages
<1>3. /\ sidebar' \in Workspaces /\ posts' \in Seq(PostKinds) /\ Len(posts') <= Len(sent) + 1
      /\ pg.ws # None => sidebar' = pg.ws
  BY <1>2, Follows
<1>4. Len(posts') <= MaxPosts + 3
  <2>1. Len(posts') \in Nat /\ Len(sent) \in Nat
    BY <1>3
  <2> QED
    BY <1>3, <2>1, PageAssumption
<1>5. ViewsOK'
  BY <1>1 DEF NavInv, ViewsOK
<1>6. PlacesOK'
  BY <1>1, <1>3, <1>4 DEF PlacesOK
<1>7. SearchOK'
  BY DEF NavInv, SearchOK
<1> QED
  BY <1>1, <1>5, <1>6, <1>7 DEF NavInv

LEMMA PlainPages ==
  /\ N!NoParams \in Params
  /\ \A kind \in PageKinds, w \in Workspaces \cup {None} : N!Page(kind, w) \in LibraryPages
  BY DEF N!NoParams, Params, N!Page, LibraryPages

LEMMA LinkSteps ==
  ASSUME NavInv, NEW pg \in N!Destinations, N!Go(pg)
  PROVE NavInv' /\ Reads /\ page'.kind # "search" /\ (NothingFollows => NothingFollows')
<1>1. pg \in LibraryPages /\ pg.kind # "search"
  <2>1. N!Page("home", remembered) \in LibraryPages /\ N!Page("recents", None) \in LibraryPages
    BY PlainPages DEF PageKinds, NavInv, PlacesOK
  <2>2. N!Page("home", remembered).kind # "search" /\ N!Page("recents", None).kind # "search"
    BY DEF N!Page
  <2> QED
    BY <2>1, <2>2 DEF N!Destinations, LibraryPages, PageKinds
<1>2. /\ N!Render(pg, N!NoParams) /\ N!Follow(pg, sidebar, posts) /\ Len(posts) < MaxPosts
      /\ UNCHANGED <<saved, remembered, layout, text, asked, lit>>
  BY DEF N!Go, N!Room, N!searchVars
<1>3. posts \in Seq(PostKinds) /\ {sidebar, remembered, layout} \subseteq Workspaces /\ pg.ws \in Workspaces \cup {None}
  BY <1>1 DEF NavInv, PlacesOK, LibraryPages
<1>4. Len(posts) <= MaxPosts + 2
  BY <1>2, <1>3, PageAssumption
<1>5. NavInv' /\ Reads
  BY <1>1, <1>2, <1>3, <1>4, PlainPages, Shown
<1>6. page'.kind = pg.kind
  BY <1>1, <1>2, PlainPages, Rendered DEF NavInv
<1>7. NothingFollows => NothingFollows'
  BY <1>2, <1>3, Follows DEF NothingFollows
<1> QED
  BY <1>1, <1>5, <1>6, <1>7

LEMMA ReloadSteps ==
  ASSUME NavInv, N!Reload
  PROVE NavInv' /\ Reads /\ page'.kind = page.kind
<1> DEFINE pg == [N!Again(page, remembered) EXCEPT !.asked = None, !.selected = None]
           quiet == [i \in DOMAIN posts |-> [posts[i] EXCEPT !.then = "nothing"]]
<1>1. page \in LibraryPages /\ remembered \in Workspaces /\ posts \in Seq(PostKinds)
  BY DEF NavInv, ViewsOK, PlacesOK
<1>2. N!Again(page, remembered) \in LibraryPages /\ N!Again(page, remembered).kind = page.kind
  BY <1>1, PageChanges DEF N!Again
<1>3. pg \in LibraryPages /\ pg.kind = page.kind
  <2>1. [N!Again(page, remembered) EXCEPT !.asked = None] \in LibraryPages
        /\ [N!Again(page, remembered) EXCEPT !.asked = None].kind = page.kind
    BY <1>2, PageChanges
  <2>2. \A r \in LibraryPages : [r EXCEPT !.selected = None] \in LibraryPages
                                 /\ [r EXCEPT !.selected = None].kind = r.kind
    BY PageChanges
  <2> QED
    BY <2>1, <2>2, Zenon
<1>4. quiet \in Seq(PostKinds) /\ Len(quiet) = Len(posts)
  <2>1. \A r \in PostKinds : [r EXCEPT !.then = "nothing"] \in PostKinds
    BY DEF PostKinds
  <2>2. \A i \in DOMAIN posts : posts[i] \in PostKinds
    BY <1>1
  <2>3. DOMAIN posts = 1..Len(posts) /\ Len(posts) \in Nat
    BY <1>1
  <2>4. quiet \in [1..Len(posts) -> PostKinds]
    BY <2>1, <2>2, <2>3
  <2> HIDE DEF quiet
  <2> QED
    BY <2>3, <2>4
<1>5. /\ page' = pg /\ layout' = remembered /\ opened' = N!FirstPage(url, pg) /\ view' = opened'
      /\ url' = N!ViewToParams(opened', N!Kind(pg)) /\ N!Follow(pg, remembered, quiet) /\ Len(posts) < MaxPosts
      /\ text' = N!Blank /\ asked' = N!Blank /\ lit' = 0 /\ saved' = saved /\ remembered' = remembered
  BY DEF N!Reload, N!Room
<1> HIDE DEF pg, quiet
<1>6. Showable(opened', N!Kind(pg)) /\ N!Kind(pg) \in PageKinds
  BY <1>3, <1>5, FirstShown, KindsOfPages DEF NavInv, ViewsOK
<1>7. url' \in Params /\ Reads
  BY <1>5, <1>6, AddressMade DEF Reads
<1>8. ViewsOK'
  BY <1>3, <1>5, <1>6, <1>7 DEF NavInv, ViewsOK
<1>9. pg.ws \in Workspaces \cup {None}
  BY <1>3 DEF LibraryPages
<1>10. /\ sidebar' \in Workspaces /\ posts' \in Seq(PostKinds) /\ Len(posts') <= Len(posts) + 1
       /\ pg.ws # None => sidebar' = pg.ws
  <2>1. /\ sidebar' \in Workspaces /\ posts' \in Seq(PostKinds) /\ Len(posts') <= Len(quiet) + 1
        /\ pg.ws # None => sidebar' = pg.ws
    BY <1>1, <1>4, <1>5, <1>9, Follows
  <2> QED
    BY <1>4, <2>1
<1>11. Len(posts') <= MaxPosts + 3
  BY <1>1, <1>5, <1>10, PageAssumption
<1>12. PlacesOK'
  BY <1>1, <1>5, <1>10, <1>11 DEF PlacesOK
<1>13. SearchOK'
  BY <1>5 DEF SearchOK
<1> QED
  BY <1>3, <1>5, <1>7, <1>8, <1>12, <1>13 DEF NavInv

LEMMA Longer ==
  ASSUME NEW s \in Seq(PostKinds), NEW t \in Seq(PostKinds)
  PROVE s \o t \in Seq(PostKinds) /\ Len(s \o t) = Len(s) + Len(t)
  BY ConcatProperties

LEMMA SwitchSteps ==
  ASSUME NavInv, NEW w \in Workspaces, N!Switch(w)
  PROVE NavInv' /\ Reads /\ page' = page
<1> DEFINE more == <<N!Post(w, "nothing"), N!Post(w, IF page.kind = "home" THEN "refresh" ELSE "home")>>
<1>1. page \in LibraryPages /\ posts \in Seq(PostKinds) /\ page.ws \in Workspaces \cup {None}
  BY DEF NavInv, ViewsOK, PlacesOK, LibraryPages
<1>2. more \in Seq(PostKinds) /\ Len(more) = 2
  BY DEF N!Post, PostKinds
<1>3. N!Follow(page, w, posts \o more) /\ Len(posts) < MaxPosts /\ lit' = 0
      /\ UNCHANGED <<page, view, opened, url, saved, remembered, layout, text, asked>>
  BY DEF N!Switch, N!Room, N!pageVars
<1> HIDE DEF more
<1>4. posts \o more \in Seq(PostKinds) /\ Len(posts \o more) = Len(posts) + 2
  <2>1. posts \o more \in Seq(PostKinds) /\ Len(posts \o more) = Len(posts) + Len(more)
    BY <1>1, <1>2, Longer, Zenon
  <2> QED
    BY <1>2, <2>1
<1>5. /\ sidebar' \in Workspaces /\ posts' \in Seq(PostKinds) /\ Len(posts') <= Len(posts) + 3
      /\ page.ws # None => sidebar' = page.ws
  <2>1. /\ sidebar' \in Workspaces /\ posts' \in Seq(PostKinds) /\ Len(posts') <= Len(posts \o more) + 1
        /\ page.ws # None => sidebar' = page.ws
    BY <1>1, <1>3, <1>4, Follows
  <2> QED
    BY <1>1, <1>4, <2>1
<1>6. Len(posts') <= MaxPosts + 3
  BY <1>1, <1>3, <1>5, PageAssumption
<1>7. PlacesOK'
  BY <1>3, <1>5, <1>6 DEF NavInv, PlacesOK
<1>8. ViewsOK' /\ SearchOK' /\ Reads
  BY <1>3 DEF NavInv, ViewsOK, SearchOK, Reads
<1> QED
  BY <1>3, <1>7, <1>8 DEF NavInv

LEMMA LandSteps ==
  ASSUME NavInv, NEW i \in DOMAIN posts, N!Land(i)
  PROVE /\ NavInv' /\ Reads
        /\ page.kind # "search" => page'.kind # "search"
        /\ NothingFollows => NothingFollows' /\ page' = page
<1> DEFINE rest == N!RemoveAt(posts, i)
<1>1. posts \in Seq(PostKinds) /\ posts[i] \in PostKinds /\ Len(posts) <= MaxPosts + 3 /\ Len(posts) \in Nat
  BY DEF NavInv, PlacesOK
<1>2. rest \in Seq(PostKinds) /\ Len(rest) = Len(posts) - 1
      /\ (NothingFollows => \A k \in DOMAIN rest : rest[k].then = "nothing")
  BY <1>1, Answered DEF NothingFollows
<1>3. PICK w \in IF Lossy THEN {remembered, posts[i].ws} ELSE {posts[i].ws} :
        /\ remembered' = w
        /\ CASE posts[i].then = "nothing" -> posts' = rest /\ UNCHANGED <<page, view, opened, url, sidebar, layout>>
             [] posts[i].then = "home" -> /\ N!Render(N!Page("home", w), N!NoParams)
                                          /\ N!Follow(N!Page("home", w), sidebar, rest)
                                          /\ UNCHANGED layout
             [] posts[i].then = "refresh" -> /\ N!Render(N!Again(page, w), url)
                                             /\ N!Follow(N!Again(page, w), IF w = layout THEN sidebar ELSE w, rest)
                                             /\ layout' = w
        /\ UNCHANGED <<saved, text, asked, lit>>
  BY DEF N!Land, N!pageVars, N!searchVars
<1>4. w \in Workspaces /\ {sidebar, layout} \subseteq Workspaces /\ page \in LibraryPages /\ url \in Params
  BY <1>1, <1>3 DEF PostKinds, NavInv, PlacesOK, ViewsOK
<1> HIDE DEF rest
<1>5. Len(rest) <= MaxPosts + 2
  BY <1>1, <1>2, PageAssumption
<1>6. CASE posts[i].then = "nothing"
  <2>1. posts' = rest /\ UNCHANGED <<page, view, opened, url, sidebar, layout, saved, text, asked, lit>>
        /\ remembered' = w
    BY <1>3, <1>6
  <2>2. PlacesOK'
    BY <1>1, <1>2, <1>4, <1>5, <2>1, PageAssumption DEF NavInv, PlacesOK
  <2>3. ViewsOK' /\ SearchOK' /\ Reads
    BY <2>1 DEF NavInv, ViewsOK, SearchOK, Reads
  <2>4. NothingFollows => NothingFollows'
    BY <1>2, <2>1 DEF NothingFollows
  <2> QED
    BY <2>1, <2>2, <2>3, <2>4 DEF NavInv
<1>7. CASE posts[i].then = "home"
  <2> DEFINE pg == N!Page("home", w)
  <2>1. N!Render(pg, N!NoParams) /\ N!Follow(pg, sidebar, rest) /\ layout' = layout /\ remembered' = w
        /\ UNCHANGED <<saved, text, asked, lit>>
    BY <1>3, <1>7
  <2>2. pg \in LibraryPages /\ pg.kind = "home" /\ N!NoParams \in Params
    BY <1>4, PlainPages DEF PageKinds, N!Page
  <2> HIDE DEF pg
  <2>3. NavInv' /\ Reads
    BY <1>2, <1>4, <1>5, <2>1, <2>2, Shown
  <2>4. page'.kind = "home"
    BY <2>1, <2>2, Rendered DEF NavInv
  <2> QED
    BY <1>7, <2>3, <2>4 DEF NothingFollows
<1>8. CASE posts[i].then = "refresh"
  <2> DEFINE pg == N!Again(page, w)
             active == IF w = layout THEN sidebar ELSE w
  <2>1. N!Render(pg, url) /\ N!Follow(pg, active, rest) /\ layout' = w /\ remembered' = w
        /\ UNCHANGED <<saved, text, asked, lit>>
    BY <1>3, <1>8
  <2>2. pg \in LibraryPages /\ pg.kind = page.kind /\ active \in Workspaces
    BY <1>4, PageChanges DEF N!Again
  <2> HIDE DEF pg, active
  <2>3. NavInv' /\ Reads
    BY <1>2, <1>4, <1>5, <2>1, <2>2, Shown
  <2>4. page'.kind = page.kind
    BY <1>4, <2>1, <2>2, Rendered DEF NavInv
  <2> QED
    BY <1>8, <2>3, <2>4 DEF NothingFollows
<1> QED
  BY <1>1, <1>6, <1>7, <1>8 DEF PostKinds

\* What the toolbar makes of a view.
LEMMA ViewChanges ==
  ASSUME NEW v, NEW kind \in PageKinds, Showable(v, kind)
  PROVE /\ \A s \in N!Sorts : s \in N!SortsFor(kind) => Showable([v EXCEPT !.sort = s, !.dir = N!DefaultDir(s)], kind)
        /\ v.sort \notin N!FixedDirection => \A d \in {"asc", "desc"} : Showable([v EXCEPT !.dir = d], kind)
        /\ \A tags \in SUBSET FilterTags : Showable([v EXCEPT !.tags = tags], kind)
<1>1. v \in Views /\ v.sort \in N!SortsFor(kind) /\ (v.sort \in N!FixedDirection => v.dir = N!DefaultDir(v.sort))
  BY DEF Showable
<1>2. ASSUME NEW s \in N!Sorts, s \in N!SortsFor(kind)
      PROVE Showable([v EXCEPT !.sort = s, !.dir = N!DefaultDir(s)], kind)
  <2> DEFINE OfSort(r) == [r EXCEPT !.sort = s]
             OfDir(r) == [r EXCEPT !.dir = N!DefaultDir(s)]
  <2>1. [v EXCEPT !.sort = s, !.dir = N!DefaultDir(s)] = OfDir(OfSort(v))
    BY Zenon
  <2>2. OfSort(v) = [sort |-> s, dir |-> v.dir, tags |-> v.tags]
    BY <1>1 DEF Views
  <2>3. \A a, b, c : OfDir([sort |-> a, dir |-> b, tags |-> c]) = [sort |-> a, dir |-> N!DefaultDir(s), tags |-> c]
    OBVIOUS
  <2> HIDE DEF OfSort, OfDir
  <2>4. OfDir(OfSort(v)) = [sort |-> s, dir |-> N!DefaultDir(s), tags |-> v.tags]
    BY <2>2, <2>3
  <2>5. N!DefaultDir(s) \in {"asc", "desc"} /\ v.tags \in SUBSET FilterTags
    BY <1>1 DEF N!DefaultDir, Views
  <2>6. Showable([sort |-> s, dir |-> N!DefaultDir(s), tags |-> v.tags], kind)
    BY <1>2, <2>5 DEF Showable, Views
  <2> QED
    BY <2>1, <2>4, <2>6, Zenon
<1>3. ASSUME NEW d \in {"asc", "desc"}, v.sort \notin N!FixedDirection PROVE Showable([v EXCEPT !.dir = d], kind)
  BY <1>1, <1>3 DEF Showable, Views
<1>4. ASSUME NEW tags \in SUBSET FilterTags PROVE Showable([v EXCEPT !.tags = tags], kind)
  BY <1>1, <1>4 DEF Showable, Views
<1> QED
  BY <1>2, <1>3, <1>4

LEMMA ViewSet ==
  ASSUME NavInv, NEW v, Showable(v, N!Kind(page)), N!SetView(v)
  PROVE NavInv' /\ Reads /\ page' = page /\ posts' = posts
<1>1. view' = v /\ url' = N!ViewToParams(v, N!Kind(page))
      /\ UNCHANGED <<page, opened, saved, remembered, sidebar, layout, posts, text, asked, lit>>
  BY DEF N!SetView, N!placeVars, N!searchVars
<1>2. N!Kind(page) \in PageKinds
  BY KindsOfPages DEF NavInv, ViewsOK
<1>3. url' \in Params /\ Reads
  BY <1>1, <1>2, AddressMade DEF Reads
<1>4. ViewsOK'
  BY <1>1, <1>3 DEF NavInv, ViewsOK
<1>5. PlacesOK' /\ SearchOK'
  BY <1>1 DEF NavInv, PlacesOK, SearchOK
<1> QED
  BY <1>1, <1>3, <1>4, <1>5 DEF NavInv

LEMMA ToolbarSteps ==
  ASSUME NavInv, N!Toolbar
  PROVE NavInv' /\ Reads /\ posts' = posts /\ (page' = page \/ page'.kind = "smart")
<1>1. /\ page \in LibraryPages /\ N!Kind(page) \in PageKinds /\ Showable(view, N!Kind(page))
      /\ Showable(saved, "home") /\ (page.kind = "smart" => N!Kind(page) = "home") /\ view.tags \in SUBSET FilterTags
  BY KindsOfPages DEF NavInv, ViewsOK, Showable, Views
<1>2. ASSUME NEW s \in N!Sorts, N!ChooseSort(s) PROVE Showable(N!Sorted(s), N!Kind(page)) /\ N!SetView(N!Sorted(s))
  BY <1>1, <1>2, ViewChanges DEF N!ChooseSort, N!Sorted
<1>3. ASSUME N!FlipDirection PROVE \E v : Showable(v, N!Kind(page)) /\ N!SetView(v)
  <2> DEFINE d == IF view.dir = "asc" THEN "desc" ELSE "asc"
  <2>1. N!SetView([view EXCEPT !.dir = d]) /\ view.sort \notin N!FixedDirection
    BY <1>3 DEF N!FlipDirection
  <2>2. d \in {"asc", "desc"}
    OBVIOUS
  <2> HIDE DEF d
  <2> QED
    BY <1>1, <2>1, <2>2, ViewChanges
<1>4. ASSUME NEW t \in FilterTags, N!ToggleTag(t) PROVE \E v : Showable(v, N!Kind(page)) /\ N!SetView(v)
  <2> DEFINE tags == IF t \in view.tags THEN view.tags \ {t} ELSE view.tags \cup {t}
  <2>1. N!SetView([view EXCEPT !.tags = tags])
    BY <1>4 DEF N!ToggleTag
  <2>2. tags \in SUBSET FilterTags
    BY <1>1
  <2> HIDE DEF tags
  <2> QED
    BY <1>1, <2>1, <2>2, ViewChanges
<1>5. ASSUME N!ClearFilters PROVE \E v : Showable(v, N!Kind(page)) /\ N!SetView(v)
  BY <1>1, <1>5, ViewChanges DEF N!ClearFilters
<1>6. ASSUME N!ResetView PROVE Showable(saved, N!Kind(page)) /\ N!SetView(saved)
  BY <1>1, <1>6 DEF N!ResetView
<1>7. ASSUME NEW v, Showable(v, N!Kind(page)) /\ N!SetView(v)
      PROVE NavInv' /\ Reads /\ posts' = posts /\ page' = page
  BY <1>7, ViewSet
<1>8. CASE N!SaveView
  <2>1. page.kind = "smart" /\ saved' = view
        /\ UNCHANGED <<page, view, opened, url, remembered, sidebar, layout, posts, text, asked, lit>>
    BY <1>8 DEF N!SaveView, N!pageVars, N!placeVars, N!searchVars
  <2>2. ViewsOK'
    BY <1>1, <2>1 DEF NavInv, ViewsOK
  <2>3. PlacesOK' /\ SearchOK' /\ Reads
    BY <2>1 DEF NavInv, PlacesOK, SearchOK, Reads
  <2> QED
    BY <2>1, <2>2, <2>3 DEF NavInv
<1>9. CASE N!SaveAs
  <2>1. /\ page.kind = "home" /\ saved' = view /\ page' = N!Page("smart", page.ws) /\ opened' = view /\ view' = view
        /\ url' = N!ViewToParams(view, "home")
        /\ UNCHANGED <<remembered, sidebar, layout, posts, text, asked, lit>>
    BY <1>9 DEF N!SaveAs, N!placeVars, N!searchVars
  <2>2. page' \in LibraryPages /\ page'.kind = "smart" /\ page'.ws = page.ws /\ N!Kind(page') = "home"
    BY <1>1, <2>1 DEF N!Page, LibraryPages, PageKinds, N!Kind
  <2>3. Showable(view, "home") /\ "home" \in PageKinds
    BY <1>1, <2>1 DEF N!Kind, PageKinds
  <2>4. ViewsOK'
    BY <2>1, <2>2, <2>3, AddressMade DEF NavInv, ViewsOK
  <2>5. PlacesOK'
    BY <2>1, <2>2 DEF NavInv, PlacesOK
  <2>6. SearchOK' /\ Reads
    BY <2>1 DEF NavInv, SearchOK, Reads
  <2> QED
    BY <2>1, <2>2, <2>4, <2>5, <2>6 DEF NavInv
<1> QED
  BY <1>2, <1>3, <1>4, <1>5, <1>6, <1>7, <1>8, <1>9 DEF N!Toolbar

LEMMA TitlesListed ==
  ASSUME NavInv
  PROVE /\ DOMAIN N!Items \subseteq Nat
        /\ \A k \in DOMAIN N!Items : /\ N!Items[k] \in Titles
                                     /\ \E j \in 1..Len(Found[<<sidebar, asked>>]) :
                                          Found[<<sidebar, asked>>][j] = N!Items[k]
        /\ \A w \in Workspaces, t \in Texts : Found[<<w, t>>] \in Seq(Titles)
<1>1. \A w \in Workspaces, t \in Texts : Found[<<w, t>>] \in Seq(Titles)
  BY PageAssumption
<1>2. CASE N!Items = <<>>
  BY <1>1, <1>2
<1>3. CASE N!Items # <<>>
  <2>1. asked # N!Blank /\ N!Items = Found[<<sidebar, asked>>]
    BY <1>3 DEF N!Items
  <2>2. asked \in Texts /\ sidebar \in Workspaces
    BY <2>1 DEF NavInv, SearchOK, PlacesOK
  <2>3. N!Items \in Seq(Titles)
    BY <1>1, <2>1, <2>2
  <2> QED
    BY <1>1, <2>1, <2>3
<1> QED
  BY <1>2, <1>3

\* The search page is opened, for a title that is listed or for none.
LEMMA SearchOpens ==
  ASSUME NavInv, NEW id \in Titles \cup {None}, text # N!Blank, N!GoSearch(id)
  PROVE /\ NavInv' /\ Reads /\ (NothingFollows => NothingFollows')
        /\ (id = None \/ (text = asked => \E j \in 1..Len(Found[<<sidebar, asked>>]) :
                                             Found[<<sidebar, asked>>][j] = id)) => Picks
<1> DEFINE found == Found[<<remembered, text>>]
           pg == [kind |-> "search", ws |-> remembered, q |-> text, asked |-> id,
                  selected |-> IF N!Contains(found, id) THEN id ELSE None]
<1>1. /\ N!Render(pg, N!NoParams) /\ N!Follow(pg, sidebar, posts) /\ Len(posts) < MaxPosts
      /\ UNCHANGED <<saved, remembered, layout, text, asked, lit>>
  BY DEF N!GoSearch, N!Room, N!searchVars
<1>2. posts \in Seq(PostKinds) /\ {sidebar, remembered, layout} \subseteq Workspaces /\ text \in Texts
  BY DEF NavInv, PlacesOK, SearchOK
<1>3. pg \in LibraryPages /\ pg.ws = remembered /\ pg.asked = id
      /\ pg.selected = IF N!Contains(found, id) THEN id ELSE None
  BY <1>2 DEF LibraryPages, PageKinds
<1>4. Len(posts) <= MaxPosts + 2
  BY <1>1, <1>2, PageAssumption
<1> HIDE DEF pg
<1>5. NavInv' /\ Reads
  BY <1>1, <1>2, <1>3, <1>4, PlainPages, Shown
<1>6. NothingFollows => NothingFollows'
  BY <1>1, <1>2, <1>3, Follows DEF NothingFollows
<1>7. ASSUME id = None \/ (text = asked => \E j \in 1..Len(Found[<<sidebar, asked>>]) :
                                             Found[<<sidebar, asked>>][j] = id)
      PROVE Picks
  <2>1. SUFFICES ASSUME text = asked, remembered = sidebar, ~N!SameScope(page, page')
                 PROVE page'.selected = page'.asked
    BY DEF Picks
  <2>2. page' = pg
    BY <1>1, <1>3, <2>1, PlainPages, Rendered DEF NavInv
  <2>3. CASE id = None
    BY <1>3, <2>2, <2>3
  <2>4. CASE id # None
    <3>1. N!Contains(found, id)
      BY <1>7, <2>1, <2>4 DEF N!Contains
    <3> QED
      BY <1>3, <2>2, <3>1
  <2> QED
    BY <2>3, <2>4
<1> QED
  BY <1>5, <1>6, <1>7

LEMMA SearchSteps ==
  ASSUME NavInv, N!Search
  PROVE NavInv' /\ Reads /\ Picks /\ (NothingFollows => NothingFollows')
<1>1. CASE (\E t \in Texts \cup {N!Blank} : N!Type(t)) \/ N!Answer \/ N!Settle \/ N!Highlight
  <2>1. UNCHANGED <<page, view, opened, url, saved, remembered, sidebar, layout, posts>>
    BY <1>1 DEF N!Type, N!Answer, N!Settle, N!Highlight, N!pageVars, N!placeVars
  <2>2. SearchOK'
    BY <1>1, TitlesListed DEF N!Type, N!Answer, N!Settle, N!Highlight, NavInv, SearchOK
  <2>3. ViewsOK' /\ PlacesOK' /\ Reads /\ Picks /\ (NothingFollows => NothingFollows')
    BY <2>1 DEF NavInv, ViewsOK, PlacesOK, Reads, Picks, NothingFollows
  <2> QED
    BY <2>2, <2>3 DEF NavInv
<1>2. CASE N!Enter
  <2> DEFINE id == IF lit \in DOMAIN N!Items THEN N!Items[lit] ELSE None
  <2>1. text # N!Blank /\ N!GoSearch(id)
    BY <1>2 DEF N!Enter
  <2>2. id \in Titles \cup {None}
        /\ (id = None \/ \E j \in 1..Len(Found[<<sidebar, asked>>]) : Found[<<sidebar, asked>>][j] = id)
    BY TitlesListed
  <2> HIDE DEF id
  <2> QED
    BY <2>1, <2>2, SearchOpens
<1>3. CASE N!Click
  <2>1. PICK k \in DOMAIN N!Items : text # N!Blank /\ N!GoSearch(N!Items[k])
    BY <1>3 DEF N!Click
  <2>2. N!Items[k] \in Titles \cup {None}
        /\ \E j \in 1..Len(Found[<<sidebar, asked>>]) : Found[<<sidebar, asked>>][j] = N!Items[k]
    BY TitlesListed
  <2> QED
    BY <2>1, <2>2, SearchOpens
<1> QED
  BY <1>1, <1>2, <1>3 DEF N!Search

LEMMA NavStart == N!Init => NavInv /\ NothingFollows /\ page.kind # "search"
<1> SUFFICES ASSUME N!Init PROVE NavInv /\ NothingFollows /\ page.kind # "search"
  OBVIOUS
<1>1. PICK w \in Workspaces :
        /\ page = N!Page("home", w) /\ view = N!View("modified", {}) /\ opened = view /\ url = N!NoParams
        /\ saved = N!View("name", {CHOOSE t \in FilterTags : TRUE})
        /\ remembered = w /\ sidebar = w /\ layout = w /\ posts = <<>>
        /\ text = N!Blank /\ asked = N!Blank /\ lit = 0
  BY DEF N!Init
<1>2. (CHOOSE t \in FilterTags : TRUE) \in FilterTags
  BY PageAssumption
<1>3. page \in LibraryPages /\ page.kind = "home" /\ page.ws = w
  BY <1>1 DEF N!Page, LibraryPages, PageKinds
<1>4. Showable(view, "home") /\ Showable(saved, "home")
  BY <1>1, <1>2 DEF N!View, N!DefaultDir, Showable, Views, N!Sorts, N!SortsFor, N!FixedDirection
<1>5. N!Kind(page) = "home"
  BY <1>3 DEF N!Kind
<1>6. ViewsOK
  BY <1>1, <1>3, <1>4, <1>5, PlainPages DEF ViewsOK
<1>7. PlacesOK /\ SearchOK /\ NothingFollows
  BY <1>1, <1>3, PageAssumption DEF PlacesOK, SearchOK, NothingFollows
<1> QED
  BY <1>3, <1>6, <1>7 DEF NavInv

LEMMA NavStands == ASSUME NavInv, UNCHANGED pageVars PROVE NavInv' /\ (NothingFollows => NothingFollows') /\ page' = page
  BY DEF NavInv, ViewsOK, PlacesOK, SearchOK, NothingFollows, pageVars

LEMMA NavShown == NavInv => N!TypeOK /\ N!SidebarFollowsPage
<1> SUFFICES ASSUME NavInv PROVE N!TypeOK /\ N!SidebarFollowsPage
  OBVIOUS
<1>1. page.kind \in PageKinds /\ page.ws \in Workspaces \cup {None}
  BY DEF NavInv, ViewsOK, LibraryPages
<1>2. \A v \in {view, opened, saved} : v \in Views
  BY DEF NavInv, ViewsOK, Showable
<1> QED
  BY <1>1, <1>2 DEF NavInv, PlacesOK, SearchOK, PageKinds, Views, N!TypeOK, N!SidebarFollowsPage

-----------------------------------------------------------------------------
\* The dialogs of the sidebar.

DialogForms == [on : Folders \cup Labels \cup {D!New, None}, under : Folders \cup {"top"},
                draft : FolderNames \cup {D!Blank}, saving : BOOLEAN]
DialogCalls == [what : D!Forms \cup {"trash"}, on : Folders \cup Labels \cup {D!New}, under : Folders \cup {"top"},
                name : FolderNames \cup {D!Blank}, seen : SUBSET Folders, leave : BOOLEAN]

TreeOK ==
  /\ parent \in [Folders -> Folders \cup {"top", None}] /\ named \in [Folders \cup Labels -> FolderNames]
  /\ open \subseteq Folders /\ current \in Folders \cup {None}

\* One dialog is open at a time, and its form holds what it was opened for or what was typed in it.
FormOK ==
  /\ form \in [D!Forms -> DialogForms] /\ typed \in FolderNames \cup {D!Blank}
  /\ \A k, j \in D!Forms : form[k].on # None /\ form[j].on # None => k = j
  /\ \A k \in D!Forms : form[k].on # None => form[k].draft = typed

CallsOK ==
  /\ calls \subseteq DialogCalls /\ IsFiniteSet(calls) /\ Cardinality(calls) <= MaxCalls
  /\ \A c \in calls : c.what \in D!Forms => c.name \in FolderNames

DialogInv == TreeOK /\ FormOK /\ CallsOK

LEMMA DialogStart == D!Init => DialogInv
<1> SUFFICES ASSUME D!Init PROVE TreeOK /\ FormOK /\ CallsOK
  BY DEF DialogInv
<1>1. (CHOOSE n \in FolderNames : TRUE) \in FolderNames
  BY DialogAssumption
<1>2. TreeOK
  BY <1>1 DEF D!Init, TreeOK
<1>3. FormOK
  BY DEF D!Init, FormOK, D!Closed, DialogForms
<1>4. CallsOK
  BY FS_EmptySet, DialogAssumption DEF D!Init, CallsOK
<1> QED
  BY <1>2, <1>3, <1>4

LEMMA CallMade ==
  ASSUME CallsOK, D!Cardinality(calls) < MaxCalls, NEW x \in DialogCalls, calls' = calls \cup {x},
         x.what \in D!Forms => x.name \in FolderNames
  PROVE CallsOK'
<1>0. IsFiniteSet(calls) /\ Cardinality(calls) \in Nat
  BY FS_CardinalityType DEF CallsOK
<1>1. IsFiniteSet(calls \cup {x}) /\ Cardinality(calls \cup {x}) <= Cardinality(calls) + 1
      /\ Cardinality(calls) \in Nat
  <2>1. /\ IsFiniteSet(calls \cup {x})
        /\ Cardinality(calls \cup {x}) = IF x \in calls THEN Cardinality(calls) ELSE Cardinality(calls) + 1
    BY <1>0, FS_AddElement
  <2> QED
    BY <1>0, <2>1
<1>2. Cardinality(calls \cup {x}) \in Nat
  BY <1>1, FS_CardinalityType
<1>3. D!Cardinality(calls) = Cardinality(calls)
  BY DEF D!Cardinality, Cardinality
<1>4. Cardinality(calls \cup {x}) <= MaxCalls
  BY <1>1, <1>2, <1>3, DialogAssumption
<1>5. calls' \subseteq DialogCalls /\ \A c \in calls' : c.what \in D!Forms => c.name \in FolderNames
  BY DEF CallsOK
<1> QED
  BY <1>1, <1>4, <1>5 DEF CallsOK

LEMMA CallOver ==
  ASSUME CallsOK, NEW c \in calls, calls' = calls \ {c}
  PROVE CallsOK'
<1>1. IsFiniteSet(calls \ {c}) /\ Cardinality(calls \ {c}) = Cardinality(calls) - 1 /\ Cardinality(calls) \in Nat
  BY FS_RemoveElement, FS_CardinalityType DEF CallsOK
<1>2. Cardinality(calls \ {c}) <= MaxCalls
  BY <1>1, DialogAssumption DEF CallsOK
<1> QED
  BY <1>1, <1>2 DEF CallsOK

\* What was expanded is a set of folders.
LEMMA ExpandedFolders == TreeOK => D!There \subseteq Folders /\ D!Expanded(open) \subseteq Folders
  BY DEF TreeOK, D!There, D!Expanded, D!Above

LEMMA OpenedFolders ==
  ASSUME TreeOK, NEW seen \in SUBSET Folders, NEW p
  PROVE D!Opened(seen, p) \subseteq Folders
  BY DEF TreeOK, D!Opened, D!Toggled

LEMMA TreeSteps ==
  ASSUME DialogInv, D!Tree
  PROVE DialogInv'
<1> USE DEF DialogInv
<1>1. ASSUME NEW f \in Folders, D!Click(f) PROVE DialogInv'
  <2>1. TreeOK'
    BY <1>1, ExpandedFolders DEF D!Click, TreeOK, D!Toggled
  <2>2. UNCHANGED <<form, calls, typed>>
    BY <1>1 DEF D!Click
  <2> QED
    BY <2>1, <2>2 DEF FormOK, CallsOK
<1>2. ASSUME NEW f \in Folders \cup {None}, D!Visit(f) PROVE DialogInv'
  <2>1. TreeOK'
    BY <1>2 DEF D!Visit, TreeOK
  <2>2. UNCHANGED <<form, calls, typed>>
    BY <1>2 DEF D!Visit
  <2> QED
    BY <2>1, <2>2 DEF FormOK, CallsOK
<1>3. ASSUME NEW f \in Folders, NEW p \in Folders \cup {"top"}, D!MoveFolder(f, p) PROVE DialogInv'
  <2>1. open' \subseteq Folders
    BY <1>3, ExpandedFolders, OpenedFolders DEF D!MoveFolder
  <2>2. parent' \in [Folders -> Folders \cup {"top", None}]
    BY <1>3 DEF D!MoveFolder, TreeOK
  <2>3. UNCHANGED <<named, current, form, calls, typed>>
    BY <1>3 DEF D!MoveFolder
  <2> QED
    BY <2>1, <2>2, <2>3 DEF TreeOK, FormOK, CallsOK
<1>4. ASSUME NEW f \in Folders, D!Trash(f) PROVE DialogInv'
  <2>1. parent' \in [Folders -> Folders \cup {"top", None}]
    BY <1>4 DEF D!Trash, TreeOK
  <2>2. UNCHANGED <<named, open, current, form, typed>>
    BY <1>4 DEF D!Trash
  <2>3. PICK x : x = [what |-> "trash", on |-> f, under |-> "top", name |-> D!Blank, seen |-> {},
                      leave |-> current = f]
    OBVIOUS
  <2>4. x \in DialogCalls /\ x.what \notin D!Forms
    BY <2>3 DEF DialogCalls, D!Forms
  <2>5. calls' = calls \cup {x} /\ D!Cardinality(calls) < MaxCalls
    BY <1>4, <2>3 DEF D!Trash
  <2>6. CallsOK'
    BY <2>4, <2>5, CallMade
  <2> QED
    BY <2>1, <2>2, <2>6 DEF TreeOK, FormOK
<1>5. ASSUME NEW c \in calls, D!TrashAnswered(c) PROVE DialogInv'
  <2>1. CallsOK'
    BY <1>5, CallOver DEF D!TrashAnswered
  <2>2. UNCHANGED <<parent, named, open, form, typed>> /\ current' \in {None, current}
    BY <1>5 DEF D!TrashAnswered
  <2> QED
    BY <2>1, <2>2 DEF TreeOK, FormOK
<1> QED
  BY <1>1, <1>2, <1>3, <1>4, <1>5 DEF D!Tree

Filled(on, under, draft, saving) == [on |-> on, under |-> under, draft |-> draft, saving |-> saving]

LEMMA FormFilled ==
  ASSUME FormOK, NEW k \in D!Forms, NEW on, NEW under, NEW initial
  PROVE /\ D!FormOf(k, on, under, initial) = Filled(on, under, initial, form[k].saving)
        /\ [D!FormOf(k, on, under, initial) EXCEPT !.saving = FALSE] = Filled(on, under, initial, FALSE)
<1> DEFINE OfOn(r) == [r EXCEPT !.on = on]
           OfUnder(r) == [r EXCEPT !.under = under]
           OfDraft(r) == [r EXCEPT !.draft = initial]
           OfSaving(r, e) == [r EXCEPT !.saving = e]
           old == form[k]
<1>1. old = Filled(old.on, old.under, old.draft, old.saving)
  BY DEF FormOK, DialogForms, Filled
<1>2. \A a, b, c, d : OfOn(Filled(a, b, c, d)) = Filled(on, b, c, d)
  BY DEF Filled
<1>3. \A b, c, d : OfUnder(Filled(on, b, c, d)) = Filled(on, under, c, d)
  BY DEF Filled
<1>4. \A c, d : OfDraft(Filled(on, under, c, d)) = Filled(on, under, initial, d)
  BY DEF Filled
<1>5. \A d, e : OfSaving(Filled(on, under, initial, d), e) = Filled(on, under, initial, e)
  BY DEF Filled
<1>6. /\ D!FormOf(k, on, under, initial) = OfDraft(OfUnder(OfOn(old)))
      /\ [D!FormOf(k, on, under, initial) EXCEPT !.saving = FALSE] = OfSaving(OfDraft(OfUnder(OfOn(old))), FALSE)
  BY Zenon DEF D!FormOf
<1> HIDE DEF old, OfOn, OfUnder, OfDraft, OfSaving
<1>7. OfDraft(OfUnder(OfOn(old))) = Filled(on, under, initial, old.saving)
  BY <1>1, <1>2, <1>3, <1>4
<1>8. OfSaving(OfDraft(OfUnder(OfOn(old))), FALSE) = Filled(on, under, initial, FALSE)
  BY <1>5, <1>7
<1> QED
  BY <1>6, <1>7, <1>8, Zenon DEF old

\* A form is opened or closed.
LEMMA FormOpens ==
  ASSUME DialogInv, D!Idle, NEW k \in D!Forms, NEW on \in Folders \cup Labels \cup {D!New},
         NEW under \in Folders \cup {"top"}, NEW initial \in FolderNames \cup {D!Blank},
         D!Open(k, on, under, initial)
  PROVE DialogInv'
<1>0. FormOK
  BY DEF DialogInv
<1>1. form' = [form EXCEPT ![k] = D!FormOf(k, on, under, initial)] /\ typed' = initial
  BY DEF D!Open
<1>2. D!FormOf(k, on, under, initial) = Filled(on, under, initial, form[k].saving)
  BY <1>0, FormFilled, Zenon
<1>3. FormOK'
  BY <1>1, <1>2 DEF D!Idle, Filled, DialogInv, FormOK, DialogForms
<1>4. UNCHANGED <<parent, named, open, current, calls>>
  BY DEF D!Open, D!treeVars
<1> QED
  BY <1>3, <1>4 DEF DialogInv, TreeOK, CallsOK

\* A form is closed by hand or by an answer.
LEMMA FormCloses ==
  ASSUME FormOK, NEW k \in D!Forms, NEW saving \in BOOLEAN,
         form' = [form EXCEPT ![k] = Filled(None, "top", D!Blank, saving)],
         typed' = IF form[k].on = None THEN typed ELSE D!Blank
  PROVE FormOK'
<1> USE DEF Filled
<1>1. form' \in [D!Forms -> DialogForms] /\ typed' \in FolderNames \cup {D!Blank}
  BY DEF FormOK, DialogForms
<1>2. \A j \in D!Forms : form'[j].on # None => j # k /\ form'[j] = form[j] /\ form[j].on # None
  BY DEF FormOK
<1>3. \A j \in D!Forms : form'[j].on # None => form'[j].draft = typed'
  BY <1>2 DEF FormOK
<1> QED
  BY <1>1, <1>2, <1>3 DEF FormOK

LEMMA FillSteps ==
  ASSUME DialogInv, D!Fill
  PROVE DialogInv'
<1>0. TreeOK /\ FormOK /\ CallsOK
  BY DEF DialogInv
<1>1. ASSUME NEW p \in Folders \cup {"top"}, D!OpenNew(p) PROVE DialogInv'
  BY <1>1, FormOpens DEF D!OpenNew, D!Open, D!Forms
<1>2. ASSUME NEW f \in Folders, D!OpenEdit(f) PROVE DialogInv'
  <2>1. named[f] \in FolderNames
    BY <1>0 DEF TreeOK
  <2> QED
    BY <1>2, <2>1, FormOpens DEF D!OpenEdit, D!Open, D!Forms
<1>3. ASSUME NEW s \in Labels, D!OpenRename(s) PROVE DialogInv'
  <2>1. named[s] \in FolderNames
    BY <1>0 DEF TreeOK
  <2> QED
    BY <1>3, <2>1, FormOpens DEF D!OpenRename, D!Open, D!Forms
<1>4. ASSUME NEW k \in D!Forms, D!Close(k) PROVE DialogInv'
  <2>1. form' = [form EXCEPT ![k] = D!FormOf(k, None, "top", D!Blank)] /\ typed' = D!Blank /\ form[k].on # None
    BY <1>4 DEF D!Close
  <2>2. D!FormOf(k, None, "top", D!Blank) = Filled(None, "top", D!Blank, form[k].saving)
    BY <1>0, FormFilled, Zenon
  <2>3. form[k].saving \in BOOLEAN
    BY <1>0 DEF FormOK, DialogForms
  <2>4. FormOK'
    BY <1>0, <2>1, <2>2, <2>3, FormCloses
  <2>5. UNCHANGED <<parent, named, open, current, calls>>
    BY <1>4 DEF D!Close, D!treeVars
  <2> QED
    BY <1>0, <2>4, <2>5 DEF DialogInv, TreeOK, CallsOK
<1>5. ASSUME NEW k \in D!Forms, D!Submit(k) PROVE DialogInv'
  <2>1. PICK x : x = [what |-> k, on |-> form[k].on, under |-> form[k].under, name |-> form[k].draft,
                      seen |-> D!Expanded(open), leave |-> FALSE]
    OBVIOUS
  <2>2. x \in DialogCalls /\ x.name \in FolderNames
    BY <1>0, <1>5, <2>1, ExpandedFolders DEF D!Submit, FormOK, DialogForms, DialogCalls
  <2>3. calls' = calls \cup {x} /\ D!Cardinality(calls) < MaxCalls
    BY <1>5, <2>1 DEF D!Submit
  <2>4. CallsOK'
    BY <1>0, <2>2, <2>3, CallMade
  <2>5. PICK b \in BOOLEAN : form' = [form EXCEPT ![k].saving = b]
    BY <1>5 DEF D!Submit
  <2>6. UNCHANGED <<parent, named, open, current, typed>>
    BY <1>5 DEF D!Submit, D!treeVars
  <2>7. FormOK'
    BY <1>0, <2>5, <2>6 DEF FormOK, DialogForms
  <2> QED
    BY <1>0, <2>4, <2>6, <2>7 DEF DialogInv, TreeOK
<1>6. ASSUME NEW k \in D!Forms, NEW n \in FolderNames, D!TypeName(k, n) PROVE DialogInv'
  <2>1. form' = [form EXCEPT ![k].draft = n] /\ typed' = n /\ form[k].on # None
    BY <1>6 DEF D!TypeName
  <2>2. UNCHANGED <<parent, named, open, current, calls>>
    BY <1>6 DEF D!TypeName, D!treeVars
  <2>3. FormOK'
    BY <1>0, <2>1 DEF FormOK, DialogForms
  <2> QED
    BY <1>0, <2>2, <2>3 DEF DialogInv, TreeOK, CallsOK
<1>7. ASSUME NEW c \in calls, D!Saved(c) PROVE DialogInv'
  <2>1. c \in DialogCalls /\ c.what \in D!Forms /\ c.name \in FolderNames
    BY <1>0, <1>7 DEF CallsOK, D!Saved
  <2>2. CallsOK'
    BY <1>0, <1>7, CallOver DEF D!Saved
  <2>3. [D!FormOf(c.what, None, "top", D!Blank) EXCEPT !.saving = FALSE] = Filled(None, "top", D!Blank, FALSE)
    BY <1>0, <2>1, FormFilled
  <2>4. form' = [form EXCEPT ![c.what] = Filled(None, "top", D!Blank, FALSE)]
        /\ typed' = IF form[c.what].on = None THEN typed ELSE D!Blank
    BY <1>7, <2>3, Zenon DEF D!Saved
  <2>5. FormOK'
    BY <1>0, <2>1, <2>4, FormCloses
  <2>6. TreeOK'
    <3>1. CASE c.on = D!New /\ UNCHANGED <<parent, named, open>>
      BY <1>0, <1>7, <3>1 DEF D!Saved, TreeOK
    <3>2. ASSUME NEW f \in Folders, parent' = [parent EXCEPT ![f] = c.under], named' = [named EXCEPT ![f] = c.name],
                 open' = D!Opened(c.seen, c.under)
          PROVE TreeOK'
      <4>1. c.under \in Folders \cup {"top"} /\ c.seen \in SUBSET Folders
        BY <2>1 DEF DialogCalls
      <4>2. open' \subseteq Folders
        BY <1>0, <3>2, <4>1, OpenedFolders
      <4> QED
        BY <1>0, <1>7, <2>1, <3>2, <4>1, <4>2 DEF D!Saved, TreeOK
    <3>3. CASE named' = [named EXCEPT ![c.on] = c.name] /\ UNCHANGED <<parent, open>>
      BY <1>0, <1>7, <2>1, <3>3 DEF D!Saved, TreeOK
    <3>4. \A f \in Folders \ D!There : f \in Folders
      OBVIOUS
    <3> QED
      BY <1>7, <3>1, <3>2, <3>3, <3>4 DEF D!Saved
  <2> QED
    BY <2>2, <2>5, <2>6 DEF DialogInv
<1>8. ASSUME NEW c \in calls, D!NotSaved(c) PROVE DialogInv'
  <2>1. CallsOK'
    BY <1>0, <1>8, CallOver DEF D!NotSaved
  <2>2. form' = [form EXCEPT ![c.what].saving = FALSE] /\ UNCHANGED <<parent, named, open, current, typed>>
    BY <1>8 DEF D!NotSaved, D!treeVars
  <2>3. FormOK'
    BY <1>0, <2>2 DEF FormOK, DialogForms
  <2> QED
    BY <1>0, <2>1, <2>2, <2>3 DEF DialogInv, TreeOK
<1> QED
  BY <1>1, <1>2, <1>3, <1>4, <1>5, <1>6, <1>7, <1>8 DEF D!Fill

LEMMA DialogSteps == ASSUME DialogInv, D!Next PROVE DialogInv'
  BY TreeSteps, FillSteps DEF D!Next

LEMMA DialogStands == ASSUME DialogInv, UNCHANGED dialogVars PROVE DialogInv'
  BY DEF DialogInv, TreeOK, FormOK, CallsOK, dialogVars

LEMMA DialogShown == DialogInv => D!TypeOK /\ D!DraftIsItsOwn
<1> SUFFICES ASSUME DialogInv PROVE D!TypeOK /\ D!DraftIsItsOwn
  OBVIOUS
<1>1. D!Cardinality(calls) = Cardinality(calls)
  BY DEF D!Cardinality, Cardinality
<1>2. D!TypeOK
  BY <1>1 DEF DialogInv, TreeOK, FormOK, CallsOK, DialogForms, D!TypeOK
<1> QED
  BY <1>2 DEF DialogInv, FormOK, D!DraftIsItsOwn

\* What a folder is in, for a tree P of folders.
Placed(P) == {f \in Folders : P[f] # None}
Holders(P, f) == {g \in Placed(P) \ {f} : \A S \in SUBSET Placed(P) :
                    (f \in S /\ \A s \in S : P[s] \in Placed(P) => P[s] \in S) => g \in S}

\* What a folder is in once it is in p: p, and what p was in.
LEMMA HoldersAfter ==
  ASSUME NEW P, NEW Q, NEW f \in Folders, NEW p \in Placed(P), p # f,
         Placed(Q) = Placed(P) \cup {f}, Q[f] = p, \A g \in Folders \ {f} : Q[g] = P[g]
  PROVE Holders(Q, f) \subseteq {p} \cup Holders(P, p)
<1> SUFFICES ASSUME NEW g \in Holders(Q, f), g # p PROVE g \in Holders(P, p)
  OBVIOUS
<1>1. g \in Placed(Q) /\ g # f /\ g \in Placed(P)
  BY DEF Holders
<1>2. ASSUME NEW S \in SUBSET Placed(P), p \in S, \A s \in S : P[s] \in Placed(P) => P[s] \in S
      PROVE g \in S
  <2>1. S \cup {f} \in SUBSET Placed(Q) /\ f \in S \cup {f}
    OBVIOUS
  <2>2. ASSUME NEW s \in S \cup {f}, Q[s] \in Placed(Q) PROVE Q[s] \in S \cup {f}
    <3>1. CASE s = f
      BY <1>2, <3>1
    <3>2. CASE s # f
      <4>1. s \in S /\ s \in Folders /\ Q[s] = P[s]
        BY <2>2, <3>2 DEF Placed
      <4> QED
        BY <1>2, <2>2, <4>1
    <3> QED
      BY <3>1, <3>2
  <2>3. g \in S \cup {f}
    BY <2>1, <2>2 DEF Holders
  <2> QED
    BY <1>1, <2>3
<1> QED
  BY <1>1, <1>2 DEF Holders

\* What another folder was in and f is in, that folder is in still.
LEMMA HoldersRemain ==
  ASSUME NEW P, NEW Q, NEW f \in Folders, NEW p \in Placed(P), p # f,
         Placed(Q) = Placed(P) \cup {f}, Q[f] = p, \A g \in Folders \ {f} : Q[g] = P[g],
         NEW c \in Placed(P), NEW g \in Holders(P, c), g \in Holders(Q, f)
  PROVE g \in Holders(Q, c)
<1>1. g \in Placed(Q) \ {c}
  BY DEF Holders
<1>2. ASSUME NEW S \in SUBSET Placed(Q), c \in S, \A s \in S : Q[s] \in Placed(Q) => Q[s] \in S
      PROVE g \in S
  <2>1. CASE f \in S
    BY <1>2, <2>1 DEF Holders
  <2>2. CASE f \notin S
    <3>1. S \in SUBSET Placed(P)
      BY <2>2
    <3>2. ASSUME NEW s \in S, P[s] \in Placed(P) PROVE P[s] \in S
      <4>1. s \in Folders /\ s # f
        BY <2>2, <3>1 DEF Placed
      <4> QED
        BY <1>2, <3>2, <4>1
    <3> QED
      BY <1>2, <3>1, <3>2 DEF Holders
  <2> QED
    BY <2>1, <2>2
<1> QED
  BY <1>1, <1>2 DEF Holders

\* A folder is put into p, and p is opened unless it was seen open.
LEMMA PutInSight ==
  ASSUME TreeOK, NEW f \in Folders, NEW p \in D!There, p # f, p \in D!InSight(open),
         parent' = [parent EXCEPT ![f] = p], open' = D!Opened(D!Expanded(open), p), current' = current
  PROVE f \in (D!InSight(open))'
<1> DEFINE P == parent
           Q == [parent EXCEPT ![f] = p]
           Drawn == D!Expanded(open)
<1>1. /\ p \in Placed(P) /\ Placed(Q) = Placed(P) \cup {f} /\ Q[f] = p /\ \A g \in Folders \ {f} : Q[g] = P[g]
  BY DialogAssumption DEF TreeOK, Placed, D!There
<1>2. D!There = Placed(P) /\ \A g : D!Above(g) = Holders(P, g)
  BY Zenon DEF D!There, D!Above, Placed, Holders
<1>3. /\ (D!InSight(open))' = {h \in Placed(parent') : Holders(parent', h) \subseteq (D!Expanded(open))'}
      /\ (D!Expanded(open))' = open' \cup (IF current' \in Placed(parent') THEN Holders(parent', current') ELSE {})
  BY Zenon DEF D!InSight, D!Expanded, D!There, D!Above, Placed, Holders
<1>4. D!InSight(open) = {h \in Placed(P) : Holders(P, h) \subseteq Drawn}
      /\ Drawn = open \cup (IF current \in Placed(P) THEN Holders(P, current) ELSE {})
  BY Zenon DEF D!InSight, D!Expanded, D!There, D!Above, Placed, Holders
<1>5. Holders(P, p) \subseteq Drawn
  BY <1>4
<1>6. f \in Placed(Q) /\ Holders(Q, f) \subseteq {p} \cup Holders(P, p)
  BY <1>1, HoldersAfter
<1>7. open' = IF p \notin Drawn THEN Drawn \cup {p} ELSE open
  BY <1>1 DEF D!Opened, D!Toggled, Placed
<1>8. SUFFICES ASSUME NEW g \in Holders(Q, f)
               PROVE g \in open' \cup (IF current \in Placed(Q) THEN Holders(Q, current) ELSE {})
  <2> HIDE DEF Q
  <2>1. parent' = Q
    BY DEF Q
  <2> QED
    BY <1>3, <1>6, <1>8, <2>1
<1> HIDE DEF P, Q, Drawn
<1>9. CASE p \notin Drawn
  BY <1>5, <1>6, <1>7, <1>9
<1>10. CASE p \in Drawn
  <2>1. g \in Drawn /\ open' = open
    BY <1>5, <1>6, <1>7, <1>10
  <2>2. CASE g \notin open
    <3>1. current \in Placed(P) /\ g \in Holders(P, current)
      BY <1>4, <2>1, <2>2
    <3>2. g \in Holders(Q, current)
      BY <1>1, <3>1, HoldersRemain
    <3>3. current \in Placed(Q)
      BY <1>1, <3>1
    <3> QED
      BY <3>2, <3>3
  <2> QED
    BY <2>1, <2>2
<1> QED
  BY <1>9, <1>10

Arrives ==
  \A f \in Folders : parent'[f] \in Folders /\ parent'[f] # parent[f] /\ parent'[f] \in D!InSight(open)
       /\ (calls' # calls => \A c \in calls \ calls' : c.seen = D!Expanded(open))
       => f \in (D!InSight(open))'

LEMMA ArrivesSteps == ASSUME DialogInv, D!Next PROVE Arrives
<1>0. TreeOK
  BY DEF DialogInv
<1>1. SUFFICES ASSUME NEW f \in Folders, parent'[f] \in Folders, parent'[f] # parent[f],
                      parent'[f] \in D!InSight(open),
                      calls' # calls => \A c \in calls \ calls' : c.seen = D!Expanded(open)
               PROVE f \in (D!InSight(open))'
  BY DEF Arrives
<1>2. parent' # parent /\ parent'[f] \in D!There
  BY <1>1 DEF D!InSight
<1>3. ASSUME NEW g \in Folders, NEW p \in Folders \cup {"top"}, D!MoveFolder(g, p) PROVE f \in (D!InSight(open))'
  <2>1. parent' = [parent EXCEPT ![g] = p] /\ p # g /\ current' = current
        /\ open' = D!Opened(D!Expanded(open), p)
    BY <1>3 DEF D!MoveFolder
  <2>2. g = f /\ parent'[f] = p
    BY <1>0, <1>1, <2>1 DEF TreeOK
  <2> QED
    BY <1>0, <1>1, <1>2, <2>1, <2>2, PutInSight
<1>4. ASSUME NEW g \in Folders, D!Trash(g) PROVE FALSE
  <2>1. parent'[f] \in {None, parent[f]}
    BY <1>4 DEF D!Trash
  <2> QED
    BY <1>1, <2>1, DialogAssumption
<1>5. ASSUME NEW c \in calls, D!Saved(c) PROVE f \in (D!InSight(open))'
  <2>1. PICK g \in Folders \ D!There : /\ parent' = [parent EXCEPT ![g] = c.under] /\ open' = D!Opened(c.seen, c.under)
    BY <1>2, <1>5 DEF D!Saved
  <2>2. g = f /\ parent'[f] = c.under
    BY <1>0, <1>1, <2>1 DEF TreeOK
  <2>3. c.seen = D!Expanded(open) /\ current' = current
    BY <1>1, <1>5 DEF D!Saved
  <2>4. c.under # f
    BY <1>2, <2>1, <2>2
  <2> QED
    BY <1>0, <1>1, <1>2, <2>1, <2>2, <2>3, <2>4, PutInSight
<1>6. CASE UNCHANGED parent
  BY <1>2, <1>6
<1>7. ASSUME NEW k \in D!Forms, NEW on, NEW under, NEW initial, D!Open(k, on, under, initial) PROVE UNCHANGED parent
  BY <1>7 DEF D!Open, D!treeVars
<1>8. D!Fill => UNCHANGED parent \/ \E c \in calls : D!Saved(c)
  BY <1>7 DEF D!Fill, D!OpenNew, D!OpenEdit, D!OpenRename, D!Close, D!Submit, D!TypeName, D!NotSaved, D!treeVars, D!Forms
<1>9. D!Tree => UNCHANGED parent \/ \E g \in Folders : D!Trash(g) \/ \E p \in Folders \cup {"top"} : D!MoveFolder(g, p)
  BY DEF D!Tree, D!Click, D!Visit, D!TrashAnswered
<1> QED
  BY <1>3, <1>4, <1>5, <1>6, <1>8, <1>9 DEF D!Next

-----------------------------------------------------------------------------
\* The parts in front of one person, together.

PersonInv == SignInInv /\ UrlInv /\ NavInv /\ DialogInv /\ PartOK

LEMMA PersonStart == MCInit => PersonInv
  BY SignInStart, UrlStart, NavStart, DialogStart DEF MCInit, PersonInv, PartOK

\* A step of one of these parts, while the others and the rest stand still.
LEMMA PersonMoves ==
  ASSUME [MCNext]_allVars
  PROVE /\ part' = part
        /\ E!Next \/ UNCHANGED signInVars
        /\ U!Next \/ UNCHANGED urlVars
        /\ \/ part = "toolbar" /\ Filtered
           \/ part = "places" /\ N!Move /\ page'.kind # "smart"
           \/ part = "search" /\ Searched
           \/ UNCHANGED pageVars
        /\ D!Next \/ UNCHANGED dialogVars
<1>1. Entered \/ Named => E!Next
  BY DEF Entered, Named, E!Next
<1>2. CASE UNCHANGED allVars
  BY <1>2 DEF allVars
<1>3. CASE MCNext
  BY <1>1, <1>3, Zenon DEF MCNext
<1> QED
  BY <1>2, <1>3

LEMMA FilteredSteps ==
  ASSUME NavInv, page.kind # "search", Filtered
  PROVE NavInv' /\ Reads /\ page'.kind # "search"
<1>1. CASE N!Toolbar
  BY <1>1, ToolbarSteps
<1>2. ASSUME NEW pg \in N!Destinations, N!Go(pg) PROVE NavInv' /\ Reads /\ page'.kind # "search"
  BY <1>2, LinkSteps
<1>3. CASE N!Reload
  BY <1>3, ReloadSteps
<1> QED
  BY <1>1, <1>2, <1>3 DEF Filtered

LEMMA MoveSteps ==
  ASSUME NavInv, page.kind # "search", N!Move
  PROVE NavInv' /\ Reads /\ page'.kind # "search"
<1>1. ASSUME NEW pg \in N!Destinations, N!Go(pg) PROVE NavInv' /\ Reads /\ page'.kind # "search"
  BY <1>1, LinkSteps
<1>2. CASE N!Reload
  BY <1>2, ReloadSteps
<1>3. ASSUME NEW w \in Workspaces, N!Switch(w) PROVE NavInv' /\ Reads /\ page'.kind # "search"
  BY <1>3, SwitchSteps
<1>4. ASSUME NEW i \in DOMAIN posts, N!Land(i) PROVE NavInv' /\ Reads /\ page'.kind # "search"
  BY <1>4, LandSteps
<1> QED
  BY <1>1, <1>2, <1>3, <1>4 DEF N!Move

LEMMA SearchedSteps ==
  ASSUME NavInv, NothingFollows, Searched
  PROVE NavInv' /\ Reads /\ Picks /\ NothingFollows'
<1>1. CASE N!Search
  BY <1>1, SearchSteps
<1>2. ASSUME NEW i \in DOMAIN posts, N!Land(i) PROVE NavInv' /\ Reads /\ Picks /\ NothingFollows'
  BY <1>2, LandSteps DEF Picks
<1>3. ASSUME NEW w \in Workspaces, N!Go(N!Page("folder", w))
      PROVE NavInv' /\ Reads /\ Picks /\ NothingFollows'
  <2>1. N!Page("folder", w) \in N!Destinations
    BY DEF N!Destinations, N!Page
  <2> QED
    BY <1>3, <2>1, LinkSteps DEF Picks
<1> QED
  BY <1>1, <1>2, <1>3 DEF Searched

LEMMA PageSteps ==
  ASSUME NavInv, PartOK, [MCNext]_allVars
  PROVE NavInv' /\ PartOK' /\ Reads /\ Picks
<1>1. part' = part
  BY PersonMoves
<1>2. CASE part = "toolbar" /\ Filtered
  <2>1. NavInv' /\ Reads /\ page'.kind # "search"
    BY <1>2, FilteredSteps DEF PartOK
  <2> QED
    BY <1>1, <1>2, <2>1 DEF PartOK, Picks
<1>3. CASE part = "places" /\ N!Move
  <2>1. NavInv' /\ Reads /\ page'.kind # "search"
    BY <1>3, MoveSteps DEF PartOK
  <2> QED
    BY <1>1, <1>3, <2>1 DEF PartOK, Picks
<1>4. CASE part = "search" /\ Searched
  <2>1. NavInv' /\ Reads /\ Picks /\ NothingFollows'
    BY <1>4, SearchedSteps DEF PartOK
  <2> QED
    BY <1>1, <1>4, <2>1 DEF PartOK
<1>5. CASE UNCHANGED pageVars
  <2>1. NavInv' /\ (NothingFollows => NothingFollows') /\ page' = page
    BY <1>5, NavStands
  <2>2. PartOK'
    BY <1>1, <2>1 DEF PartOK
  <2>3. view' = view
    BY <1>5 DEF pageVars
  <2> QED
    BY <2>1, <2>2, <2>3 DEF Reads, Picks
<1> QED
  BY <1>2, <1>3, <1>4, <1>5, PersonMoves

Joins ==
  \A d \in Browsers : peer'[d] # peer[d] /\ peer'[d] # None =>
       peer'[d] \in Names /\ (renamed = 0 => peer'[d] = account.name)

LEMMA PersonSteps ==
  ASSUME PersonInv, [MCNext]_allVars
  PROVE PersonInv' /\ Joins /\ Reads /\ Picks /\ Arrives
<1>1. SignInInv /\ UrlInv /\ NavInv /\ DialogInv /\ PartOK
  BY DEF PersonInv
<1>2. SignInInv' /\ Joins
  <2>1. CASE E!Next
    BY <1>1, <2>1, SignInSteps, JoinedByName DEF Joins
  <2>2. CASE UNCHANGED signInVars
    <3>1. peer' = peer
      BY <2>2 DEF signInVars
    <3> QED
      BY <1>1, <2>2, <3>1, SignInStands DEF Joins
  <2> QED
    BY <2>1, <2>2, PersonMoves
<1>3. UrlInv'
  BY <1>1, UrlSteps, UrlStands, PersonMoves
<1>4. DialogInv' /\ Arrives
  <2>1. CASE D!Next
    BY <1>1, <2>1, DialogSteps, ArrivesSteps
  <2>2. CASE UNCHANGED dialogVars
    <3>1. parent' = parent
      BY <2>2 DEF dialogVars
    <3> QED
      BY <1>1, <2>2, <3>1, DialogStands DEF Arrives
  <2> QED
    BY <2>1, <2>2, PersonMoves
<1>5. NavInv' /\ PartOK' /\ Reads /\ Picks
  BY <1>1, PageSteps
<1> QED
  BY <1>2, <1>3, <1>4, <1>5 DEF PersonInv

LEMMA PersonAlways == MCSpec => []PersonInv
  BY PersonStart, PersonSteps, PTL DEF MCSpec

\* Wherever a sign-in was begun it ends there, whatever happened on the way, and nobody is let into the
\* sync server under a name that ran out; a signed URL works for as long as it says, one exchange renews the
\* session behind it, and an image whose URL ran out is asked for again (sign-in-form.tsx, auth.ts,
\* the sync-token route, credentials.ts, document-viewer.tsx).
THEOREM PassesStayGood == MCSpec => PassesAreGood
<1>1. PersonInv => E!OnTheWay /\ U!LastsItsLife /\ U!OneExchange /\ U!ExpiredIsReplaced
  BY SignInOnTheWay, UrlShown DEF PersonInv
<1>2. PersonInv /\ [MCNext]_allVars
        => [\A d \in Browsers : peer'[d] # peer[d] /\ peer'[d] # None =>
              peer'[d] \in Names /\ (renamed = 0 => peer'[d] = account.name)]_(E!vars)
  BY PersonSteps DEF Joins
<1> QED
  BY <1>1, <1>2, PersonAlways, PTL DEF MCSpec, PassesAreGood, E!JoinsByName

\* However a person goes from page to page and back, the address of a view reads back as that view and the
\* sidebar is in the workspace of the page; a title picked in the search box is selected; what is put into
\* a folder in sight can be seen there; and a dialog's form is about what it was opened for
\* (library-toolbar.tsx, library-view.tsx, library-search.tsx, app-sidebar.tsx, library-dialogs.tsx).
THEOREM ShowsItsSubject == MCSpec => ShowsWhatItIsAbout
<1>1. PersonInv => N!SidebarFollowsPage /\ D!DraftIsItsOwn
  BY NavShown, DialogShown DEF PersonInv
<1>2. PersonInv /\ [MCNext]_allVars => [Reads]_(N!vars) /\ [Picks]_(N!vars) /\ [Arrives]_(D!vars)
  BY PersonSteps
<1> QED
  BY <1>1, <1>2, PersonAlways, PTL
     DEF MCSpec, ShowsWhatItIsAbout, N!ReadsBack, N!PickIsSelected, D!ArrivesInSight, Reads, Picks, Arrives

\* Every variable of every part keeps its kind.
THEOREM SerialTyped == MCSpec => []TypesOK
<1>1. MCSpec => Spec
  <2>1. MCInit => Init
    BY DEF MCInit
  <2>2. [MCNext]_allVars => [Next]_vars
    BY Zenon DEF MCNext, allVars
  <2> QED
    BY <2>1, <2>2, PTL DEF MCSpec, Spec
<1>2. TP!TypeOK => T!TypeOK
  BY Zenon DEF TP!TypeOK, T!TypeOK, TP!RecordsOK, T!RecordsOK, TP!RequestOK, T!RequestOK, TP!Requests, T!Requests,
               TP!Idle, T!Idle, TP!Stored, T!Stored, TP!Live, T!Live, TP!Steps, T!Steps, TP!DocStatus, T!DocStatus,
               TP!AssetStatus, T!AssetStatus
<1>3. TP!Spec => []TP!TypeOK
  BY TP!TypeCorrect, TrashAssumption
<1>4. PersonInv => E!TypeOK /\ U!TypeOK /\ N!TypeOK /\ D!TypeOK
  BY SignInTyped, UrlShown, NavShown, DialogShown DEF PersonInv
<1>5. TypeOK /\ T!TypeOK /\ PersonInv => TypesOK
  BY <1>4 DEF TypesOK
<1> QED
  BY <1>1, <1>2, <1>3, <1>5, SharingTyped, TrashBehaves, PersonAlways, PTL
=============================================================================
