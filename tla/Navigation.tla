----------------------------- MODULE Navigation ------------------------------
(***************************************************************************)
(* Which page of the library is on the screen, the sort and filters it is  *)
(* shown with and the address that says so (schema library.ts,             *)
(* library-toolbar.tsx, library-view.tsx, lib/server/library.ts), the      *)
(* workspace that the page, the sidebar and the next visit are in          *)
(* (library-provider.tsx, app-sidebar.tsx), and the search box that leads  *)
(* to another page (library-search.tsx).  Next's router is external.       *)
(***************************************************************************)
EXTENDS Naturals, SequencesExt

CONSTANTS Workspaces,
          Tags,
          TagLimit,  \* how many tags a view may ask for (20)
          Texts,     \* what may be searched for
          Found,     \* what a search finds in a workspace: <<workspace, text>> to a sequence
          MaxPosts,  \* requests to remember a workspace, under way at once
          Lossy,     \* whether they may get lost
          None

VARIABLES page,     \* its kind, workspace and search; what it was asked to select, and what it did
          view,     \* the sort, direction and tags it is shown with
          opened,   \* initialView: those the server last rendered it with
          url,      \* the view's parameters in the address
          saved,    \* the smart folder's view
          cookie,   \* the workspace that is remembered
          sidebar,  \* the workspace the sidebar shows
          layout,   \* the workspace the server last rendered the layout with
          posts,    \* requests to remember a workspace, and what follows them
          text, q,  \* what the search box says, and what it searches for
          arrived,  \* the searches that were answered
          lit       \* which of the titles it lists is highlighted, 0 if none

pageVars == <<page, view, opened, url>>
placeVars == <<cookie, sidebar, layout, posts>>
searchVars == <<text, q, arrived, lit>>
vars == <<pageVars, saved, placeVars, searchVars>>

Blank == ""

-----------------------------------------------------------------------------
\* Views and their addresses.  The other filters are like a tag that has no limit.

Sorts == {"modified", "name", "lastOpened", "relevance"}
FixedDirection == {"lastOpened", "relevance"}
DefaultSort(kind) == CASE kind = "recents" -> "lastOpened" [] kind = "search" -> "relevance" [] OTHER -> "modified"
DefaultDir(sort) == IF sort = "name" THEN "asc" ELSE "desc"
SortsFor(kind) == IF kind = "search" THEN Sorts ELSE Sorts \ {"relevance"}

View(sort, tags) == [sort |-> sort, dir |-> DefaultDir(sort), tags |-> tags]
NoParams == [sort |-> None, dir |-> None, tags |-> {}]

\* (Mutant: descending is taken for every sort's default.)
ParamsDesc(v, kind) ==
  [sort |-> IF v.sort = DefaultSort(kind) THEN None ELSE v.sort,
   dir |-> IF v.dir = "desc" THEN None ELSE v.dir, tags |-> v.tags]

ViewToParams(v, kind) ==
  [sort |-> IF v.sort = DefaultSort(kind) THEN None ELSE v.sort,
   dir |-> IF v.dir = DefaultDir(v.sort) THEN None ELSE v.dir, tags |-> v.tags]

\* Whatever an address cannot mean falls back to the default; too many tags are cut off.
ViewFromParams(p, kind) ==
  LET sort == IF p.sort \in SortsFor(kind) THEN p.sort ELSE DefaultSort(kind) IN
  [sort |-> sort,
   dir |-> IF p.dir # None /\ sort \notin FixedDirection THEN p.dir ELSE DefaultDir(sort),
   tags |-> IF Cardinality(p.tags) <= TagLimit THEN p.tags
            ELSE CHOOSE T \in SUBSET p.tags : Cardinality(T) = TagLimit]

\* The scope's kind: a smart folder is a view of the whole workspace.
Kind(pg) == IF pg.kind = "smart" THEN "home" ELSE pg.kind

\* firstPage: the view a page is rendered with.
FirstPage(p, pg) == IF pg.kind = "smart" /\ p = NoParams THEN saved ELSE ViewFromParams(p, Kind(pg))

-----------------------------------------------------------------------------
\* Pages and workspaces.

Page(kind, w) == [kind |-> kind, ws |-> w, q |-> None, asked |-> None, selected |-> None]
SameScope(pg, other) == pg.kind = other.kind /\ pg.ws = other.ws /\ pg.q = other.q

Post(w, then) == [ws |-> w, then |-> then]

\* (Mutant: the sidebar keeps to its own workspace.)
KeepTo(pg, active, sent) == sidebar' = active /\ posts' = sent

\* The effect of a view: the sidebar follows the workspace of the page being looked at, and the
\* workspace is remembered (showWorkspace).
Follow(pg, active, sent) ==
  IF pg.ws \in {None, active} THEN sidebar' = active /\ posts' = sent
  ELSE sidebar' = pg.ws /\ posts' = Append(sent, Post(pg.ws, "nothing"))

\* A page is rendered at an address: a scope that is not on the screen starts fresh, and one that is
\* takes over what the server renders if that is not what it rendered before.
Render(pg, p) ==
  LET v == FirstPage(p, pg)
      kept == SameScope(pg, page) /\ v = opened
  IN /\ page' = IF SameScope(pg, page) THEN [pg EXCEPT !.selected = page.selected] ELSE pg
     /\ opened' = v
     /\ view' = IF kept THEN view ELSE v
     /\ url' = IF kept THEN p ELSE ViewToParams(v, Kind(pg))

Room == Len(posts) < MaxPosts

\* A link, which has no parameters of a view; it leads home in the workspace that is remembered.
Go(pg) ==
  /\ Room /\ Render(pg, NoParams) /\ Follow(pg, sidebar, posts)
  /\ UNCHANGED <<saved, cookie, layout, searchVars>>

Destinations == {Page("home", cookie), Page("recents", None)} \cup [kind : {"folder", "smart"}, ws : Workspaces,
          q : {None}, asked : {None}, selected : {None}]

\* The workspace a page is in once the server renders it again.
Again(pg, w) == IF pg.kind \in {"home", "search"} THEN [pg EXCEPT !.ws = w] ELSE pg

\* The page is loaded anew at its address; requests go on, but nothing follows them.
Reload ==
  LET pg == [Again(page, cookie) EXCEPT !.asked = None, !.selected = None] IN
  /\ Room /\ page' = pg /\ layout' = cookie
  /\ opened' = FirstPage(url, pg) /\ view' = opened' /\ url' = ViewToParams(opened', Kind(pg))
  /\ Follow(pg, cookie, [i \in DOMAIN posts |-> [posts[i] EXCEPT !.then = "nothing"]])
  /\ text' = Blank /\ q' = Blank /\ arrived' = <<>> /\ lit' = 0
  /\ UNCHANGED <<saved, cookie>>

\* The switcher: the sidebar shows w and remembers it, twice; what was remembered second is waited
\* for.  The view's effect runs again, because showWorkspace is a new function by then.
Switch(w) ==
  /\ Room /\ w # sidebar
  /\ Follow(page, w, posts \o <<Post(w, "nothing"), Post(w, IF page.kind = "home" THEN "refresh" ELSE "home")>>)
  /\ lit' = 0
  /\ UNCHANGED <<pageVars, saved, cookie, layout, text, q, arrived>>

\* A request is answered, or lost; then home is opened, or the page is refreshed with its layout.
Land(i) ==
  LET rest == RemoveAt(posts, i) IN
  \E w \in IF Lossy THEN {cookie, posts[i].ws} ELSE {posts[i].ws} :
    /\ cookie' = w
    /\ CASE posts[i].then = "nothing" -> posts' = rest /\ UNCHANGED <<pageVars, sidebar, layout>>
         [] posts[i].then = "home" -> /\ Render(Page("home", w), NoParams)
                                      /\ Follow(Page("home", w), sidebar, rest)
                                      /\ UNCHANGED layout
         [] posts[i].then = "refresh" -> /\ Render(Again(page, w), url)
                                         /\ Follow(Again(page, w), IF w = layout THEN sidebar ELSE w, rest)
                                         /\ layout' = w
    /\ UNCHANGED <<saved, searchVars>>

-----------------------------------------------------------------------------
\* The toolbar.

\* The view changes, and the address with it.
SetView(v) == /\ view' = v /\ url' = ViewToParams(v, Kind(page))
              /\ UNCHANGED <<page, opened, saved, placeVars, searchVars>>

\* (Mutant: the direction stays as it is.)
SortKeepsDir(sort) == [view EXCEPT !.sort = sort]

Sorted(sort) == [view EXCEPT !.sort = sort, !.dir = DefaultDir(sort)]

ChooseSort(sort) == sort \in SortsFor(Kind(page)) /\ SetView(Sorted(sort))

FlipDirection == /\ view.sort \notin FixedDirection
                 /\ SetView([view EXCEPT !.dir = IF @ = "asc" THEN "desc" ELSE "asc"])

ToggleTag(t) == SetView([view EXCEPT !.tags = IF t \in @ THEN @ \ {t} ELSE @ \cup {t}])

ClearFilters == view.tags # {} /\ SetView([view EXCEPT !.tags = {}])

\* A smart folder whose view was changed: back to what is saved, or save it.
ResetView == page.kind = "smart" /\ view # saved /\ SetView(saved)

Accepted(v) == Cardinality(v.tags) <= TagLimit

SaveView == /\ page.kind = "smart" /\ view # saved /\ Accepted(view)
            /\ saved' = view
            /\ UNCHANGED <<pageVars, placeVars, searchVars>>

\* "Save as smart folder" keeps the view of the home page under a name, and opens it.
SaveAs ==
  /\ page.kind = "home" /\ view.tags # {} /\ Accepted(view)
  /\ saved' = view /\ page' = Page("smart", page.ws)
  /\ opened' = view /\ UNCHANGED view /\ url' = ViewToParams(view, "home")
  /\ UNCHANGED <<placeVars, searchVars>>

-----------------------------------------------------------------------------
\* The search box.

\* (Mutant: the answer that came last is listed, whatever it answers.)
LastAnswer == IF q = Blank \/ arrived = <<>> THEN <<>> ELSE Found[Last(arrived)]

\* The titles listed are those of the search that is asked for, once it is answered.
Items == IF q # Blank /\ Contains(arrived, <<sidebar, q>>) THEN Found[<<sidebar, q>>] ELSE <<>>

Type(t) == /\ text' = t /\ UNCHANGED <<pageVars, saved, placeVars, q, arrived, lit>>

\* 200 ms without a key.
Settle == /\ text # q /\ q' = text /\ lit' = 0
          /\ UNCHANGED <<pageVars, saved, placeVars, text, arrived>>

\* The answer comes; one that is not waited for any more was cancelled, and those of old are kept.
Answer == /\ q # Blank /\ ~Contains(arrived, <<sidebar, q>>) /\ arrived' = Append(arrived, <<sidebar, q>>)
          /\ UNCHANGED <<pageVars, saved, placeVars, text, q, lit>>

\* The arrow keys and the pointer.
Highlight == /\ \E i \in DOMAIN Items : lit' = i
             /\ UNCHANGED <<pageVars, saved, placeVars, text, q, arrived>>

\* go: the search page, in the workspace that is remembered; it selects the title that was picked if
\* it is among those it found.
GoSearch(id) ==
  LET found == Found[<<cookie, text>>]
      pg == [kind |-> "search", ws |-> cookie, q |-> text, asked |-> id,
             selected |-> IF Contains(found, id) THEN id ELSE None]
  IN /\ Room /\ Render(pg, NoParams) /\ Follow(pg, sidebar, posts)
     /\ UNCHANGED <<saved, cookie, layout, searchVars>>

Enter == text # Blank /\ GoSearch(IF lit \in DOMAIN Items THEN Items[lit] ELSE None)
Click == text # Blank /\ \E i \in DOMAIN Items : GoSearch(Items[i])

-----------------------------------------------------------------------------
Init ==
  \E w \in Workspaces :
    /\ page = Page("home", w) /\ view = View("modified", {}) /\ opened = view /\ url = NoParams
    /\ saved = View("name", {CHOOSE t \in Tags : TRUE})
    /\ cookie = w /\ sidebar = w /\ layout = w /\ posts = <<>>
    /\ text = Blank /\ q = Blank /\ arrived = <<>> /\ lit = 0

Toolbar == \/ \E s \in Sorts : ChooseSort(s)
           \/ FlipDirection \/ ClearFilters \/ ResetView \/ SaveView \/ SaveAs
           \/ \E t \in Tags : ToggleTag(t)

Move == \/ \E pg \in Destinations : Go(pg)
        \/ Reload
        \/ \E w \in Workspaces : Switch(w)
        \/ \E i \in DOMAIN posts : Land(i)

Search == \/ \E t \in Texts \cup {Blank} : Type(t)
          \/ Answer \/ Settle \/ Highlight \/ Enter \/ Click

Next == Toolbar \/ Move \/ Search
Spec == Init /\ [][Next]_vars

-----------------------------------------------------------------------------
\* Properties.

\* Every variable holds a value of its kind.
TypeOK ==
  /\ page.kind \in {"home", "folder", "recents", "smart", "search"} /\ page.ws \in Workspaces \cup {None}
  /\ \A v \in {view, opened, saved} : v.sort \in Sorts /\ v.dir \in {"asc", "desc"} /\ v.tags \subseteq Tags
  /\ {cookie, sidebar, layout} \subseteq Workspaces /\ Len(posts) <= MaxPosts + 3
  /\ {text, q} \subseteq Texts \cup {Blank} /\ lit \in Nat

\* Whatever is done with the toolbar, on whatever page, opening the address again shows the same view
\* (viewToParams, viewFromParams, the URL effect of library-view.tsx).  Not so a view of more tags
\* than the limit, and a smart folder's when it is the plain one: its address says nothing.
ReadsBack ==
  [][view' # view /\ Accepted(view') /\ (page'.kind = "smart" => url' # NoParams) =>
       ViewFromParams(url', Kind(page')) = view']_vars

\* The sidebar follows the workspace of the page being looked at, when nothing is under way
\* (library-view.tsx, library-provider.tsx).
SidebarFollowsPage == posts = <<>> /\ page.ws # None => sidebar = page.ws

\* Picking a title that the search box lists selects it on the search page (library-search.tsx), when
\* what was typed had settled, the workspace is remembered, and the page of the very same search was
\* not on the screen already.
PickIsSelected ==
  [][page' # page /\ page'.kind = "search" /\ text = q /\ cookie = sidebar /\ ~SameScope(page, page') =>
       page'.selected = page'.asked]_vars

\* The workspace the sidebar shows is the one remembered for the next visit (library-context.tsx),
\* once every request to remember one was answered.
Remembered == posts = <<>> => cookie = sidebar
=============================================================================
