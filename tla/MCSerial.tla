------------------------------ MODULE MCSerial ------------------------------
(***************************************************************************)
(* Small instances of what goes on with one request at a time or in front  *)
(* of one person: sharing, the trash, signing in, signed URLs, pages and   *)
(* their addresses, the search box, and the dialogs of the sidebar.  A     *)
(* behaviour is one part's; the others stand still.                        *)
(***************************************************************************)
EXTENDS Sharing, Sequences, TLC

CONSTANTS alice, bob, scan,
          Docs, Assets, Size, Limit, Batch, Account,            \* the trash
          Browsers, Names, LinkLife, CookieLife, TokenLife,     \* signing in
          MaxLinks,
          Askers, SessionLife, RenewBefore, UrlLife,            \* signed URLs, and the pages that show an image
          Sheets, ReadLife, StaleAfter,
          Workspaces, FilterTags, TagLimit, Texts, Titles, Found,\* pages, their addresses and the search box
          MaxPosts, Lossy,
          Folders, Labels, FolderNames, MaxCalls                \* the dialogs of the sidebar

ASSUME TrashAssumption == Size \in [Assets -> Nat \ {0}] /\ Limit \in Nat

VARIABLES part,
          docs, assets, object, used, cascade, stale,
          account, signedIn, cookie, screen, mailbox, token, peer, headed, renamed,
          session, renewing, exchanges, waiting, refused, urls, cached, query, near, image,
          page, view, opened, url, saved, remembered, sidebar, layout, posts, text, asked, arrived, lit,
          parent, named, open, current, form, calls, typed

trashVars == <<docs, assets, object, used, cascade, stale>>
signInVars == <<account, signedIn, cookie, screen, mailbox, token, peer, headed, renamed>>
urlVars == <<session, renewing, exchanges, waiting, refused, urls, cached, query, near, image>>
pageVars == <<page, view, opened, url, saved, remembered, sidebar, layout, posts, text, asked, arrived, lit>>
dialogVars == <<parent, named, open, current, form, calls, typed>>
allVars == <<part, vars, trashVars, signInVars, urlVars, pageVars, dialogVars>>

\* The document is in alice's workspace; bob is not a member of it.
MCMember == [u \in People |-> IF u = alice THEN "editor" ELSE "none"]

\* Both can be named as users, bob by his email too.
MCPrincipals == {<<"user", alice>>, <<"user", bob>>, <<"email", bob>>}

\* An open link, and one with every restriction on it.
MCLinkKinds == {[role |-> "editor", expires |-> "never", signIn |-> FALSE, password |-> FALSE,
                 download |-> TRUE],
                [role |-> "viewer", expires |-> "later", signIn |-> TRUE, password |-> TRUE,
                 download |-> FALSE]}

\* Of the files in the trash one is twice as big as the others.
T == INSTANCE Trash WITH req <- cascade
MCSize == [f \in Assets |-> IF f = scan THEN 2 ELSE 1]

\* Two browsers.
E == INSTANCE SignIn

\* Two requests and two pages that show one image.
U == INSTANCE SignedUrls WITH Requests <- Askers, Pages <- Sheets, current <- session

\* Two workspaces, two tags of which a view may ask for one, and searches that find different things.
N == INSTANCE Navigation WITH Tags <- FilterTags, cookie <- remembered, q <- asked
MCFound == [x \in {1, 2} \X {"ab", "abc"} |->
              CASE x = <<1, "ab">> -> <<"x", "y">> [] x = <<1, "abc">> -> <<"y">>
                [] x = <<2, "ab">> -> <<"z">> [] x = <<2, "abc">> -> <<>>]

\* Two folders, a smart folder, and a name to type.
D == INSTANCE Dialogs WITH Names <- FolderNames, Top <- "top"

\* A session is renewed in time for every URL it signs, and a URL in the browser before it expires; limits
\* are natural numbers, and what is not a name is told from one.
ASSUME SignInAssumption == /\ {CookieLife, TokenLife} \subseteq Nat \ {0} /\ {LinkLife, MaxLinks} \subseteq Nat
                           /\ E!Nameless \notin Names
                           /\ None \notin {"/app", "/app/folders/f"} \cup [name : Names \cup {E!Nameless}]
                                         \cup [name : Names \cup {E!Nameless}, left : Nat]
ASSUME UrlAssumption == /\ {SessionLife, RenewBefore, UrlLife, ReadLife, StaleAfter} \subseteq Nat
                        /\ UrlLife > 0 /\ UrlLife <= RenewBefore /\ RenewBefore <= SessionLife
                        /\ ReadLife > 0 /\ StaleAfter <= ReadLife
                        /\ IsFiniteSet(Askers) /\ None \notin Nat
ASSUME PageAssumption == /\ Workspaces # {} /\ FilterTags # {} /\ IsFiniteSet(FilterTags)
                         /\ TagLimit \in Nat /\ MaxPosts \in Nat
                         /\ Found \in [Workspaces \X Texts -> Seq(Titles)]
                         /\ None \notin Workspaces /\ None \notin N!Sorts \cup {"asc", "desc"}
ASSUME DialogAssumption == /\ FolderNames # {} /\ D!Blank \notin FolderNames /\ MaxCalls \in Nat
                           /\ {"top", None} \cap Folders = {} /\ None # "top"

MCInit ==
  /\ part \in {"sharing", "trash", "ways", "names", "urls", "toolbar", "places", "search", "dialogs"}
  /\ Init /\ T!Init /\ E!Init /\ U!Init /\ N!Init /\ D!Init
  /\ part # "places" => remembered = CHOOSE w \in Workspaces : TRUE
  /\ parent[CHOOSE f \in Folders : TRUE] = None

\* The ways in: one name is enough.
Entered == /\ E!Tick \/ \E d \in Browsers : E!Enter(d) \/ E!Leave(d)
           /\ \A d \in Browsers : screen'[d].name \in {E!Nameless, CHOOSE n \in Names : TRUE}

\* The names: the browsers stay in the library, and one link is enough.
Named == /\ E!Next /\ Cardinality(mailbox') <= 1
         /\ \A d \in Browsers : screen'[d].place = "/app" /\ screen'[d].pending # "google"

\* The toolbar, on the pages of one workspace.
Filtered == N!Toolbar \/ (\E pg \in N!Destinations : pg.ws \in {remembered, None} /\ N!Go(pg)) \/ N!Reload

\* The search box, beside the pages of a folder, while requests come in, one at a time.
Searched == /\ N!Search \/ (\E i \in DOMAIN posts : N!Land(i)) \/ \E w \in Workspaces : N!Go(N!Page("folder", w))
            /\ Len(posts') <= 1

MCNext ==
  /\ UNCHANGED part
  /\ \/ /\ part = "sharing" /\ Next
        /\ UNCHANGED <<trashVars, signInVars, urlVars, pageVars, dialogVars>>
     \/ /\ part = "trash" /\ T!Next
        /\ UNCHANGED <<vars, signInVars, urlVars, pageVars, dialogVars>>
     \/ /\ \/ part = "ways" /\ Entered
           \/ part = "names" /\ Named
        /\ UNCHANGED <<vars, trashVars, urlVars, pageVars, dialogVars>>
     \/ /\ part = "urls" /\ U!Next
        /\ UNCHANGED <<vars, trashVars, signInVars, pageVars, dialogVars>>
     \/ /\ \/ part = "toolbar" /\ Filtered
           \/ part = "places" /\ N!Move /\ page'.kind # "smart"
           \/ part = "search" /\ Searched
        /\ UNCHANGED <<vars, trashVars, signInVars, urlVars, dialogVars>>
     \/ /\ part = "dialogs" /\ D!Next
        /\ UNCHANGED <<vars, trashVars, signInVars, urlVars, pageVars>>

MCSpec == MCInit /\ [][MCNext]_allVars

\* Grants are interchangeable, and so are the documents in the trash.
Symmetry == Permutations(GrantIds) \cup Permutations(Docs)

-----------------------------------------------------------------------------
\* Properties.

\* Every variable of every part holds a value of its kind.
TypesOK == TypeOK /\ T!TypeOK /\ E!TypeOK /\ U!TypeOK /\ N!TypeOK /\ D!TypeOK

\* A document never uses a file that is gone (cascade.ts).
NoDanglingFile == T!NoDanglingFile

\* A file never belongs to a document that is gone (cascade.ts).
OwnerExists == T!OwnerExists

\* Signing in leads to the place that was asked for, and into the sync server under the name that was
\* chosen; a signed URL works as long as it says, renewing the session behind it takes one exchange
\* however many wait, and a page whose URL has expired gets a new one (sign-in-form.tsx, auth.ts,
\* sync-token, credentials.ts, document-viewer.tsx).
PassesAreGood == /\ [](E!OnTheWay /\ U!LastsItsLife /\ U!OneExchange /\ U!ExpiredIsReplaced)
                 /\ E!JoinsByName

\* The address of a view reads back as that view, the sidebar shows the workspace of the page, a title
\* picked in the search box is selected, what is put into a folder can be seen there, and a dialog's
\* form is about what it was opened for (library-toolbar.tsx, library-view.tsx, library-search.tsx,
\* app-sidebar.tsx, library-dialogs.tsx).
ShowsWhatItIsAbout == /\ [](N!SidebarFollowsPage /\ D!DraftIsItsOwn)
                      /\ N!ReadsBack /\ N!PickIsSelected /\ D!ArrivesInSight
=============================================================================
