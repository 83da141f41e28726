------------------------------ MODULE MCRecords ------------------------------
(***************************************************************************)
(* Small instances of the records that have little to do with each other:  *)
(* the pages of a document, tags (one request at a time, and two), the     *)
(* workspaces of users, a view read page by page, the browser's library    *)
(* and its sidebar, imports, the download of one, the migrations of the    *)
(* database, the New dialog's files, its page sizes and paper, and         *)
(* templates.                                                              *)
(* A behaviour is one part's; the others stand still.                      *)
(***************************************************************************)
EXTENDS Pages, Sequences

CONSTANTS p1, p2, a, b, c,
          TagIds, TagNames, Tagged, MaxTags,                  \* tags, and the documents that carry them
          Users, Spaces, MaxAdds,                             \* workspaces
          ListDocs, Readable, SortKeys, PageRows, BatchRows,        \* a list of documents
          RowChanges,
          Jobs, Files, Assets, Limit, MaxReceives, Workers,   \* imports
          Hosts, Private, MaxRedirects, MaxBytes, Lengths,    \* the download of one
          MaxChunk, Sniffed, PartBytes,
          Runs, Filed, MaxStarts,                             \* migrations
          Listed, Folders, Shown, Views, MaxBulkIds,          \* the library in the browser, and its sidebar
          Labels, FolderNames, MaxEvents,
          Saved, System, SystemPages, Me, Papers,             \* templates
          MaxPages, TemplatePages,
          Entries, Pdfs, MaxItems, MaxCreated,                \* the New dialog, with the files and assets of imports
          PageSizes, Typed, Units, Papered, Lines, Counts,    \* its notebook form
          Orientations, Images, MaxSizes

ASSUME TagAssumption == /\ None \notin TagIds \cup TagNames \cup Tagged
                        /\ p1 \in Procs
ASSUME SpaceAssumption == None \notin Users \cup Spaces /\ MaxAdds \in Nat
ASSUME ListAssumption == /\ IsFiniteSet(ListDocs) /\ ListDocs \subseteq Nat /\ Readable \subseteq ListDocs
                         /\ SortKeys \subseteq Nat \ {0} /\ SortKeys # {} /\ PageRows \in Nat \ {0}
                         /\ BatchRows \in Nat \ {0} /\ RowChanges \in Nat
                         /\ None \notin [v : Nat, id : ListDocs, p : {"field", "opened", "rest"}]
ASSUME JobAssumption == /\ None \notin Jobs \cup Files \cup Assets
                        /\ IsFiniteSet(Assets) /\ Limit \in Nat /\ MaxReceives \in Nat \ {0}
ASSUME PullAssumption == /\ MaxBytes \in [DOMAIN MaxBytes -> Nat] /\ None \notin DOMAIN MaxBytes
                         /\ Lengths \subseteq Nat /\ MaxRedirects \in Nat
                         /\ MaxChunk \in Nat /\ Sniffed \in Nat /\ PartBytes \in Nat \ {0}
ASSUME ViewAssumption == /\ Views \subseteq {"home", "folder", "favourites", "trash"}
                         /\ None \notin Views \cup Folders \cup Labels \cup [folder : Folders, favourite : BOOLEAN]
                         /\ FolderNames # {} /\ None \notin [name : FolderNames, parent : Folders \cup {"top"}]
ASSUME TemplateAssumption == /\ SystemPages \in Seq(Papers) /\ "image" \notin Papers /\ TemplatePages \in Nat
                             /\ Saved \cap System = {} /\ Me # None /\ None \notin Saved \cup System
ASSUME NewAssumption == None \notin Entries \cup {"upload", "fetch", "import", "notebook"}

VARIABLES part,
          tag, tags, smart, tagReq,
          space, member, wsReq, ensured, adds,
          row, walk,
          server, view, fetch, act, doubt, beside, torn, events,
          bar, shown, stale, reading, call, chosen, late, unsure, calls,
          job, msg, asset, verifying, rejected, object, keyed, other, used, worker,
          pull, answer, read, first, buffer, taken, parts, joined, session, blob,
          log, validator, index, filled, app, run, slipped, spoiled, starts,
          dialog, list, cover, entry, upload, fetched, seen, stored, request, documents,
          form, sizes, known, saving, sent, made,
          leaves, template, keeping, gallery, picked, wish, copy

tagVars == <<tag, tags, smart, tagReq>>
spaceVars == <<space, member, wsReq, ensured, adds>>
listVars == <<row, walk>>
cacheVars == <<server, view, fetch, act, doubt, beside, torn, events>>
barVars == <<bar, shown, stale, reading, call, chosen, late, unsure, calls>>
jobVars == <<job, msg, asset, verifying, rejected, object, keyed, other, used, worker>>
pullVars == <<pull, answer, read, first, buffer, taken, parts, joined, session, blob>>
dbVars == <<log, validator, index, filled, app, run, slipped, spoiled, starts>>
newVars == <<dialog, list, cover, entry, upload, fetched, seen, stored, request, documents>>
formVars == <<form, sizes, known, saving, sent, made>>
copyVars == <<leaves, template, keeping, gallery, picked, wish, copy>>
allVars == <<part, vars, tagVars, spaceVars, listVars, cacheVars, barVars, jobVars, pullVars, dbVars, newVars,
             formVars, copyVars>>

\* Requests, calls and workers are alike.
LOCAL INSTANCE TLC
Symmetry == Permutations({p1, p2})

\* Requests come one at a time (all but p1 stand still), or several at once that add tags to documents
\* other than b and take them off.
T == INSTANCE Tags WITH Names <- TagNames, Docs <- Tagged, req <- tagReq
OneAtATime == \A p \in Procs \ {p1} : tagReq'[p] = tagReq[p]
OfOneDocument == /\ smart' = smart
                 /\ \A p \in Procs : tagReq'[p].at \in {"idle", "change", "add", "pull"} /\ tagReq'[p].doc # b

W == INSTANCE Workspaces WITH req <- wsReq

\* Three documents, one of which the user may not see, on pages of one.
L == INSTANCE Listing WITH Docs <- ListDocs, Visible <- Readable, Keys <- SortKeys, Limit <- PageRows,
                           Batch <- BatchRows, MaxChanges <- RowChanges, doc <- row

\* When a document was last opened does not matter where the field alone sorts, nor the field where that does.
AnyKey == CHOOSE k \in SortKeys : TRUE
OnlyWhatSorts == /\ walk.sort \in {"field", "memoryField"} => \A d \in ListDocs : row[d].opened = 0
                 /\ walk.sort = "memoryOpened" => \A d \in ListDocs : row[d].key = AnyKey

\* Two documents, and two actions on them that may overlap: what begins while an action runs is a move, or to the
\* trash or back, of one document.  Documents are alike: a is in the folder on show, and b in the trash if a is.
B == INSTANCE LibraryCache WITH Docs <- Listed, Acts <- Procs
BesideIsOfOne == \A p \in Procs : (act[p] = B!NoAct /\ act'[p] # B!NoAct /\ B!Running) =>
                   act'[p].change.kind \in {"move", "trash", "restore"} /\ act'[p].ids # {a, b}
FirstShown == server[a].folder = Shown /\ (server[a].status = "trashed" => server[b].status = "trashed")

\* Two folders, one of which is created later, and three calls, readings or changes elsewhere; the
\* dialog moves one of the folders.
S == INSTANCE Sidebar WITH Names <- FolderNames, Top <- "top", server <- bar, fetch <- reading, doubt <- unsure, events <- calls
OneInDialog == chosen'.folder # a

\* Jobs are alike, and so are assets, so that a is taken first; the file that members upload is a.
J == INSTANCE ImportJobs
FirstTaken == /\ job'[b] # J!NoJob => job'[a] # J!NoJob
              /\ b \in keyed' => a \in keyed'
              /\ \A n \in verifying' : asset'[n] = a

Y == INSTANCE Download WITH object <- blob
MCMaxBytes == [k \in {"image", "pdf"} |-> IF k = "image" THEN 3 ELSE 6]

M == INSTANCE Migrations WITH Docs <- Filed, doc <- filled

\* Two files added, of which one may be a PDF, and a document.  Added files and assets are alike, so
\* that b is taken last.
N == INSTANCE NewDocument WITH job <- fetched, asset <- stored
InTurn == /\ entry'[b] # N!NoEntry => entry'[a] # N!NoEntry
          /\ stored'[b].status # "none" => stored'[a].status # "none"

\* The notebook form, with sizes at their limits that are typed, saved and deleted (G); and every paper on small,
\* turned and odd pages (F).
G == INSTANCE PageSetup WITH Papers <- Papered, stored <- sizes, saved <- known
F == INSTANCE PageSetup WITH PageSizes <- {"a6", "indexCard", "custom"}, Typed <- {254, 1000}, Units <- {"mm"},
       Papers <- G!PaperTemplates, Lines <- {7, 30, 84}, Counts <- {1}, Orientations <- {"portrait", "landscape"},
       Images <- {None}, MaxSizes <- 0, stored <- sizes, saved <- known
Sides == {1} \cup {100 * n : n \in 1..1000}
MCImages == {None} \cup ({1, 1300, 19300, 100000} \X {1, 1300, 19300, 100000})

\* Lengths are whole units of the last place that a form shows; an image's sides are a pixel, or hundreds.
ASSUME FormAssumption == /\ PageSizes \subseteq DOMAIN G!Presets \cup {"custom"} /\ Units \subseteq DOMAIN G!Unit
                         /\ Typed \cup Lines \cup Counts \subseteq Int \cup {None} /\ None \notin Int
                         /\ Papered \subseteq DOMAIN G!Defaults /\ Orientations \subseteq {"portrait", "landscape"}
                         /\ Images \subseteq {None} \cup (Sides \X Sides) /\ MaxSizes \in Nat

\* Only the form changes.
DrawnOnly == sent' = None /\ saving' = None /\ sizes' = sizes

\* A template of the system, and one that one of two users saves from a document.
MCSystemPages == <<"plain", "plain">>
K == INSTANCE Templates WITH Ids <- Saved, pages <- leaves, saving <- keeping,
       chosen <- picked, request <- wish, made <- copy

\* Where a view stands that is not read.
Still == /\ row = [d \in ListDocs |-> [in |-> FALSE, key |-> AnyKey, opened |-> 0]]
         /\ walk.sort = "field" /\ walk.dir = 1

\* A library that nobody looks at.
Empty == server = [d \in Listed |-> [status |-> "live", folder |-> Shown, favourite |-> FALSE]]

Alone == other = 0
NewDatabase == app = 0

MCInit ==
  /\ part \in {"pages", "tags", "tagRaces", "spaces", "list", "cache", "bar", "jobs", "download", "db", "new", "paper",
               "sizes", "copies"}
  /\ Init
  /\ T!Init
  /\ W!Init
  /\ L!Init /\ OnlyWhatSorts /\ (part # "list" => Still)
  /\ B!Init /\ FirstShown /\ (part # "cache" => Empty)
  /\ S!Init
  /\ J!Init /\ (part # "jobs" => Alone)
  /\ Y!Init /\ (part # "download" => pull.host = CHOOSE h \in Hosts : TRUE)
  /\ M!Init /\ (part # "db" => NewDatabase)
  /\ N!Init
  /\ F!Init /\ (part # "sizes" => sizes = {})
  /\ K!Init /\ (part # "copies" => leaves = <<>>)

MCNext ==
  /\ UNCHANGED part
  /\ \/ /\ part = "pages" /\ Next
        /\ UNCHANGED <<tagVars, spaceVars, listVars, cacheVars, barVars, jobVars, pullVars, dbVars, newVars,
                       formVars, copyVars>>
     \/ /\ \/ part = "tags" /\ T!Next /\ OneAtATime
           \/ part = "tagRaces" /\ T!Next /\ OfOneDocument
        /\ UNCHANGED <<vars, spaceVars, listVars, cacheVars, barVars, jobVars, pullVars, dbVars, newVars,
                       formVars, copyVars>>
     \/ /\ part = "spaces" /\ W!Next
        /\ UNCHANGED <<vars, tagVars, listVars, cacheVars, barVars, jobVars, pullVars, dbVars, newVars,
                       formVars, copyVars>>
     \/ /\ part = "list" /\ L!Next /\ OnlyWhatSorts'
        /\ UNCHANGED <<vars, tagVars, spaceVars, cacheVars, barVars, jobVars, pullVars, dbVars, newVars,
                       formVars, copyVars>>
     \/ /\ part = "cache" /\ B!Next /\ BesideIsOfOne
        /\ UNCHANGED <<vars, tagVars, spaceVars, listVars, barVars, jobVars, pullVars, dbVars, newVars,
                       formVars, copyVars>>
     \/ /\ part = "bar" /\ S!Next /\ OneInDialog
        /\ UNCHANGED <<vars, tagVars, spaceVars, listVars, cacheVars, jobVars, pullVars, dbVars, newVars,
                       formVars, copyVars>>
     \/ /\ part = "jobs" /\ J!Next /\ FirstTaken
        /\ UNCHANGED <<vars, tagVars, spaceVars, listVars, cacheVars, barVars, pullVars, dbVars, newVars,
                       formVars, copyVars>>
     \/ /\ part = "download" /\ Y!Next
        /\ UNCHANGED <<vars, tagVars, spaceVars, listVars, cacheVars, barVars, jobVars, dbVars, newVars,
                       formVars, copyVars>>
     \/ /\ part = "db" /\ M!Next
        /\ UNCHANGED <<vars, tagVars, spaceVars, listVars, cacheVars, barVars, jobVars, pullVars, newVars,
                       formVars, copyVars>>
     \/ /\ part = "new" /\ N!Next /\ InTurn
        /\ UNCHANGED <<vars, tagVars, spaceVars, listVars, cacheVars, barVars, jobVars, pullVars, dbVars, formVars,
                       copyVars>>
     \/ /\ \/ part = "paper" /\ F!Next /\ DrawnOnly
           \/ part = "sizes" /\ G!Next
        /\ UNCHANGED <<vars, tagVars, spaceVars, listVars, cacheVars, barVars, jobVars, pullVars, dbVars, newVars, copyVars>>
     \/ /\ part = "copies" /\ K!Next
        /\ UNCHANGED <<vars, tagVars, spaceVars, listVars, cacheVars, barVars, jobVars, pullVars, dbVars, newVars, formVars>>

MCSpec == MCInit /\ [][MCNext]_allVars

\* Every variable of the part holds a value of its kind.
TypesOK == CASE part = "pages" -> TypeOK
             [] part \in {"tags", "tagRaces"} -> T!TypeOK
             [] part = "spaces" -> W!TypeOK
             [] part = "list" -> L!TypeOK
             [] part = "cache" -> B!TypeOK
             [] part = "bar" -> S!TypeOK
             [] part = "jobs" -> J!TypeOK
             [] part = "download" -> Y!TypeOK
             [] part = "db" -> M!TypeOK
             [] part = "new" -> N!TypeOK
             [] part = "paper" -> F!TypeOK
             [] part = "sizes" -> G!TypeOK
             [] part = "copies" -> K!TypeOK

\* One request at a time, a deleted tag is on no document and filters no smart folder (tags.ts).
NoDanglingTag == part = "tags" => T!NoDanglingTag

\* changeTags touches the tags it was asked to, whatever others do (documents.ts changeTags).
ChangeTouchesItsOwn == T!ChangeTouchesItsOwn

\* After a sign-in a user has one personal workspace and owns it, and a team keeps its owner
\* (workspaces.ts ensurePersonalWorkspace).
OwnersBelong == part = "spaces" => W!OwnersBelong

\* A document that stays as it is is listed once and in its place (library.ts).
ListedOnceInOrder == part = "list" => L!ListedOnceInOrder

\* When no action is under way, a document that the browser lists belongs there and is as the server has
\* it, but for those that a rollback tore or nothing certain is known of; and when no call or reading is,
\* the sidebar has the server's folders, tags and smart folders, whichever changes overlapped, failed and
\* were rolled back (use-library-actions.ts, use-sidebar-actions.ts).
ShownIsCurrent == /\ part = "cache" => B!ListedIsCurrent
                  /\ part = "bar" => S!SidebarIsCurrent

\* An imported file is kept and charged once, whatever is delivered again, and it is the whole file that
\* was fetched (imports.ts, fetch-url.ts, client.ts putStream).
ImportedIsKept == /\ part = "jobs" => J!ImportedIsKept
                  /\ part = "download" => Y!StoredWhole

\* Whichever runs overlapped or were repeated, a recorded migration is in force, unless a run died beside
\* another (migrations/index.ts).
DoneUnlessDied == part = "db" => M!DoneUnlessDied

\* A new document is what the dialog showed: the files it listed, each of them verified, the pages of
\* the template in its gallery, or the size and paper of its form, which the server accepts and from
\* which a saved size can be used again (import-tab.tsx, templates-tab.tsx, creation.ts, spec.ts,
\* page.ts).
CreatedAsShown == /\ part = "new" => N!CreatedAsListed
                  /\ part = "copies" => K!MadeAsShown
                  /\ part = "sizes" => G!SentIsAccepted

\* A template draws on the page only, planners and the like with their own spacing and margin on a page that
\* is not smaller than an A6, and a size keeps its name when it is turned (paper/templates.ts).
DrawnAsChosen == /\ part = "paper" => F!DrawnAsChosen
                 /\ part = "sizes" => G!DrawnAsChosen
=============================================================================
