----------------------------- MODULE Permissions ----------------------------
(***************************************************************************)
(* The permission rules (packages/db permissions/decide.ts, packages/schema *)
(* access.ts) as operators over the facts about one request.  Only whether *)
(* an action is allowed is kept, not the reason of a denial.               *)
(***************************************************************************)
EXTENDS Naturals

Ranked == {"viewer", "commenter", "editor", "owner"}
LinkRoles == {"viewer", "commenter", "editor"}
NoLink == [state |-> "none"]

\* The order of the roles; "none" is no role at all.
Rank == [r \in Ranked \cup {"none"} |->
           CASE r = "none" -> 0 [] r = "viewer" -> 1 [] r = "commenter" -> 2
             [] r = "editor" -> 3 [] r = "owner" -> 4]
AtLeast(role, required) == Rank[role] >= Rank[required]
Highest(S) == CHOOSE r \in S \cup {"none"} : \A q \in S : AtLeast(r, q)

DocumentActions == {"view", "comment", "edit", "managePages", "share", "delete", "restore", "purge",
                    "download"}
PageActions == {"view", "edit", "managePages", "lock"}

Required == [a \in DocumentActions \ {"share"} |->
               CASE a \in {"view", "download"} -> "viewer" [] a = "comment" -> "commenter"
                 [] a \in {"edit", "managePages"} -> "editor"
                 [] a \in {"delete", "restore", "purge"} -> "owner"]

-----------------------------------------------------------------------------
\* The role of a request: `f` has guest, member, grants, link, deleted and editorsCanShare.

\* A user's own access: membership and the grants that have not expired.  A guest has none.
DirectRole(f) == IF f.guest THEN "none"
                 ELSE Highest({f.member} \cup {g.role : g \in {h \in f.grants : h.expires # "past"}})

LinkOpens(f) == /\ f.link.state = "live"
                /\ f.link.expires # "past"
                /\ f.link.signIn => ~f.guest
                /\ f.link.password => f.verified

RoleOf(f) == Highest({DirectRole(f)} \cup (IF LinkOpens(f) THEN {f.link.role} ELSE {}))

-----------------------------------------------------------------------------
\* Documents.

\* A trashed document: only its owners see it, restore it or purge it.
MayTrashed(f, a) == a \in {"view", "restore", "purge"} /\ DirectRole(f) = "owner"

MayShare(f) == /\ ~f.guest
               /\ RoleOf(f) = "owner" \/ (RoleOf(f) = "editor" /\ f.editorsCanShare)

\* (Mutant: the link decides for everyone.)
DownloadOffForAll(f) == f.link # NoLink /\ ~f.link.download

\* Whoever only came through a link may download if the link says so.
DownloadOff(f) == f.link # NoLink /\ ~AtLeast(DirectRole(f), "viewer") /\ ~f.link.download

MayLive(f, a) ==
  /\ a \notin {"restore", "purge"}
  /\ f.guest => a # "delete"
  /\ IF a = "share" THEN MayShare(f)
     ELSE AtLeast(RoleOf(f), Required[a]) /\ (a = "download" => ~DownloadOff(f))

MayDocument(f, a) == /\ RoleOf(f) # "none"
                     /\ IF f.deleted THEN MayTrashed(f, a) ELSE MayLive(f, a)

\* Pages and layers.
MayPage(f, locked, a) ==
  CASE a = "view" -> MayDocument(f, "view")
    [] a = "lock" -> MayDocument(f, "managePages") /\ RoleOf(f) = "owner"
    [] OTHER -> MayDocument(f, a) /\ (locked => RoleOf(f) = "owner")

MayLayer(f, locked, ownerOnly, a) ==
  IF a = "view" THEN MayDocument(f, "view")
  ELSE MayPage(f, locked, "edit") /\ (ownerOnly => RoleOf(f) = "owner")

-----------------------------------------------------------------------------
\* Workspaces: `w` has guest, member, personal and deleted.

MayWorkspace(w, a) ==
  /\ ~w.guest /\ ~w.deleted /\ w.member # "none"
  /\ CASE a = "view" -> TRUE
       [] a = "createContent" -> AtLeast(w.member, "editor")
       [] a = "rename" -> w.member = "owner"
       [] a \in {"manageMembers", "delete"} -> w.member = "owner" /\ ~w.personal
=============================================================================
