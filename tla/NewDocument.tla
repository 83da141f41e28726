----------------------------- MODULE NewDocument -----------------------------
(***************************************************************************)
(* The New dialog (apps/web new-document-dialog.tsx, import-tab.tsx,       *)
(* notebook-tab.tsx) and what it creates (packages/db creation.ts): files  *)
(* that upload or are fetched while the user orders them, or one that      *)
(* becomes a cover, and a request with the list as it stands.  Uploads     *)
(* and fetches are what UploadTask, Uploads and ImportJobs make of them.   *)
(***************************************************************************)
EXTENDS Naturals, Sequences, FiniteSets, SequencesExt

CONSTANTS Entries,    \* what is added to the dialog: uploads and web addresses
          Files, Pdfs,
          Assets,     \* asset ids
          MaxItems,   \* importItemSchema's array: files in one import
          MaxCreated, \* documents, in the model
          None

VARIABLES dialog,     \* "closed", "open", "busy", or "left" for the page of the new document
          list,       \* ImportTab's entries
          cover,      \* NotebookTab's imageCover
          entry,      \* where an entry's file comes from, and which it is
          upload,     \* the store's snapshot of an entry's upload
          job, seen,  \* the job of a fetch, and what the last poll saw of it
          asset,      \* the workspace's assets
          request,    \* the request under way
          documents   \* those created, and what the dialog showed when they were asked for

vars == <<dialog, list, cover, entry, upload, job, seen, asset, request, documents>>

NoEntry == [by |-> None, file |-> None]
Waiting == [at |-> "none", asset |-> None]
NoRequest == [at |-> "none", kind |-> None, items |-> <<>>, shown |-> <<>>]

Live(f) == {a \in Assets : asset[a].file = f /\ asset[a].status \in {"verifying", "ready"}}
Unused == {a \in Assets : asset[a].status = "none"}

\* uploadState, and the state of a fetch.
StateOf(e) ==
  LET by == IF entry[e].by = "upload" THEN upload[e] ELSE seen[e]
  IN CASE by.at \in {"done", "succeeded"} -> "ready"
       [] by.at \in {"failed", "cancelled"} -> "failed"
       [] OTHER -> "working"
AssetOf(e) == IF entry[e].by = "upload" THEN upload[e].asset ELSE seen[e].asset

\* The file the user sees in the list.
FileOf(e) == IF entry[e].by = "upload" THEN entry[e].file ELSE asset[seen[e].asset].file

Init ==
  /\ dialog = "closed" /\ list = <<>> /\ cover = None
  /\ entry = [e \in Entries |-> NoEntry]
  /\ upload = [e \in Entries |-> Waiting]
  /\ job = [e \in Entries |-> Waiting] /\ seen = job
  /\ asset = [a \in Assets |-> [file |-> None, status |-> "none"]]
  /\ request = NoRequest /\ documents = <<>>

-----------------------------------------------------------------------------
\* The dialog.

Open ==
  /\ dialog = "closed" /\ dialog' = "open"
  /\ UNCHANGED <<list, cover, entry, upload, job, seen, asset, request, documents>>

\* Uploads and fetches go on; the next dialog starts empty.
Close ==
  /\ dialog = "open" /\ dialog' = "closed"
  /\ list' = <<>> /\ cover' = None
  /\ UNCHANGED <<entry, upload, job, seen, asset, request, documents>>

Shows == dialog \in {"open", "busy"}

Starts(e, f) ==
  /\ entry[e] = NoEntry
  /\ entry' = [entry EXCEPT ![e] = [by |-> "upload", file |-> f]]
  /\ upload' = [upload EXCEPT ![e].at = "active"]

\* startImport: one of the files that were chosen or dropped, also on the library behind.
AddFile(e, f) ==
  /\ dialog # "left" /\ Starts(e, f)
  /\ list' = Append(list, e)
  /\ dialog' = IF dialog = "closed" THEN "open" ELSE dialog
  /\ UNCHANGED <<cover, job, seen, asset, request, documents>>

\* fetchUrl, when its answer is there.
AddUrl(e) ==
  /\ Shows /\ entry[e] = NoEntry
  /\ entry' = [entry EXCEPT ![e].by = "fetch"]
  /\ job' = [job EXCEPT ![e].at = "queued"]
  /\ list' = Append(list, e)
  /\ UNCHANGED <<dialog, cover, upload, seen, asset, request, documents>>

MoveUp(i) ==
  /\ Shows /\ i \in 2..Len(list)
  /\ list' = [list EXCEPT ![i] = list[i - 1], ![i - 1] = list[i]]
  /\ UNCHANGED <<dialog, cover, entry, upload, job, seen, asset, request, documents>>

\* remove: an upload is cancelled, unless it is over.
RemoveEntry(i) ==
  /\ Shows /\ i \in DOMAIN list
  /\ list' = RemoveAt(list, i)
  /\ upload' = IF upload[list[i]].at \in {"active", "verifying", "failed"}
               THEN [upload EXCEPT ![list[i]].at = "cancelled"] ELSE upload
  /\ UNCHANGED <<dialog, cover, entry, job, seen, asset, request, documents>>

\* An image is chosen as the cover.  One that was chosen before uploads on.
ChooseCover(e, f) ==
  /\ Shows /\ f \notin Pdfs /\ Starts(e, f)
  /\ cover' = e
  /\ UNCHANGED <<dialog, list, job, seen, asset, request, documents>>

DropCover == Shows /\ cover # None /\ cover' = None
             /\ UNCHANGED <<dialog, list, entry, upload, job, seen, asset, request, documents>>

Poll(e) ==
  /\ entry[e].by = "fetch" /\ e \in Range(list)
  /\ seen[e].at \notin {"succeeded", "failed"}
  /\ seen' = [seen EXCEPT ![e] = job[e]]
  /\ UNCHANGED <<dialog, list, cover, entry, upload, job, asset, request, documents>>

Sends(kind, entries) ==
  /\ dialog = "open" /\ Len(documents) < MaxCreated
  /\ dialog' = "busy"
  /\ request' = [at |-> "read", kind |-> kind, items |-> [i \in DOMAIN entries |-> AssetOf(entries[i])],
                 shown |-> [i \in DOMAIN entries |-> FileOf(entries[i])]]
  /\ UNCHANGED <<list, cover, entry, upload, job, seen, asset, documents>>

Import ==
  /\ list # <<>> /\ \A e \in Range(list) : StateOf(e) = "ready"
  /\ Sends("import", list)

\* With a cover that failed, the notebook has none.
CreateNotebook ==
  /\ cover # None => StateOf(cover) # "working"
  /\ Sends("notebook", IF cover # None /\ StateOf(cover) = "ready" THEN <<cover>> ELSE <<>>)

\* The answer, which may be lost.
Answer ==
  /\ request.at \in {"refused", "done"} /\ request' = NoRequest
  /\ \/ request.at = "done" /\ dialog' = "left" /\ list' = <<>> /\ cover' = None
     \/ dialog' = "open" /\ UNCHANGED <<list, cover>>
  /\ UNCHANGED <<entry, upload, job, seen, asset, documents>>

-----------------------------------------------------------------------------
\* creation.ts: create.

\* (Mutant: a file counts as soon as it was uploaded.)
UsableAtOnce(a) == asset[a].status \in {"verifying", "ready"}

\* readyAssets: the file is in the workspace and verified.
Usable(a) == asset[a].status = "ready"

ReadAssets ==
  /\ request.at = "read"
  /\ LET fits == request.kind = "import" => Len(request.items) <= MaxItems
     IN request' = [request EXCEPT !.at = IF fits /\ \A a \in Range(request.items) : Usable(a)
                                          THEN "insert" ELSE "refused"]
  /\ UNCHANGED <<dialog, list, cover, entry, upload, job, seen, asset, documents>>

Image(a) == asset[a].file \notin Pdfs

Only(s, X) == SelectSeq(s, LAMBDA x : x \in X)
PagesOf(items) == Only(items, {a \in Range(items) : Image(a)})

\* importFiles and notebook, with a byte for each file.
Document(r) ==
  LET sources == IF r.kind = "import" THEN r.items ELSE <<>>
  IN [sources |-> sources,
      cover |-> IF r.kind = "import" THEN <<>> ELSE r.items,
      pages |-> PagesOf(sources),
      pdf |-> \E a \in Range(sources) : ~Image(a),
      bytes |-> Cardinality(Range(r.items)),
      shown |-> r.shown]

Insert ==
  /\ request.at = "insert"
  /\ \/ /\ documents' = Append(documents, Document(request))
        /\ request' = [request EXCEPT !.at = "done"]
     \/ request' = [request EXCEPT !.at = "refused"] /\ UNCHANGED documents
  /\ UNCHANGED <<dialog, list, cover, entry, upload, job, seen, asset>>

-----------------------------------------------------------------------------
\* Uploads: a file the workspace has is taken again, even while it is being verified.

Registers(e) ==
  /\ upload[e].at = "active"
  /\ LET f == entry[e].file
     IN \/ \E a \in Live(f) :
             upload' = [upload EXCEPT ![e] = [at |-> "verifying", asset |-> a]] /\ UNCHANGED asset
        \/ \E a \in Unused :
             /\ Live(f) = {}
             /\ upload' = [upload EXCEPT ![e] = [at |-> "verifying", asset |-> a]]
             /\ asset' = [asset EXCEPT ![a] = [file |-> f, status |-> "verifying"]]
  /\ UNCHANGED <<dialog, list, cover, entry, job, seen, request, documents>>

\* waitForVerification ends with the verdict, or without it at its deadline.
UploadEnds(e) ==
  /\ upload[e].at = "verifying"
  /\ upload' = [upload EXCEPT ![e].at = IF asset[upload[e].asset].status \in {"rejected", "gone"} THEN "failed" ELSE "done"]
  /\ UNCHANGED <<dialog, list, cover, entry, job, seen, asset, request, documents>>

UploadFails(e) ==
  /\ upload[e].at \in {"active", "verifying"}
  /\ upload' = [upload EXCEPT ![e].at = "failed"]
  /\ UNCHANGED <<dialog, list, cover, entry, job, seen, asset, request, documents>>

Verify(a) ==
  /\ asset[a].status = "verifying"
  /\ \E verdict \in {"ready", "rejected"} : asset' = [asset EXCEPT ![a].status = verdict]
  /\ UNCHANGED <<dialog, list, cover, entry, upload, job, seen, request, documents>>

\* With the last document that used it (trash.ts).
Purged(a) ==
  /\ asset[a].status = "ready"
  /\ asset' = [asset EXCEPT ![a].status = "gone"]
  /\ UNCHANGED <<dialog, list, cover, entry, upload, job, seen, request, documents>>

\* A delivery of the job, also after one that failed: it ends with a file the workspace has, with
\* a copy of its own, or fails.
Deliver(e) ==
  /\ job[e].at \in {"queued", "failed"}
  /\ \/ \E f \in Files : \E a \in Live(f) :
          job' = [job EXCEPT ![e] = [at |-> "succeeded", asset |-> a]] /\ UNCHANGED asset
     \/ \E f \in Files, a \in Unused :
          /\ Live(f) = {}
          /\ job' = [job EXCEPT ![e] = [at |-> "succeeded", asset |-> a]]
          /\ asset' = [asset EXCEPT ![a] = [file |-> f, status |-> "ready"]]
     \/ job' = [job EXCEPT ![e].at = "failed"] /\ UNCHANGED asset
  /\ UNCHANGED <<dialog, list, cover, entry, upload, seen, request, documents>>

Next ==
  \/ Open \/ Close \/ DropCover \/ Import \/ CreateNotebook \/ Answer \/ ReadAssets \/ Insert
  \/ \E e \in Entries : \/ \E f \in Files : AddFile(e, f) \/ ChooseCover(e, f)
                        \/ AddUrl(e) \/ Poll(e) \/ Deliver(e)
                        \/ Registers(e) \/ UploadEnds(e) \/ UploadFails(e)
  \/ \E i \in DOMAIN list : MoveUp(i) \/ RemoveEntry(i)
  \/ \E a \in Assets : Verify(a) \/ Purged(a)

Spec == Init /\ [][Next]_vars

-----------------------------------------------------------------------------
Statuses == {"none", "verifying", "ready", "rejected", "gone"}

\* Every variable holds a value of its kind.
TypeOK ==
  /\ dialog \in {"closed", "open", "busy", "left"}
  /\ list \in Seq(Entries) /\ cover \in Entries \cup {None}
  /\ entry \in [Entries -> [by : {"upload", "fetch", None}, file : Files \cup {None}]]
  /\ \A e \in Entries :
       /\ upload[e].at \in {"none", "active", "verifying", "done", "failed", "cancelled"}
       /\ job[e].at \in {"none", "queued", "succeeded", "failed"} /\ seen[e].at \in {"none", "queued", "succeeded", "failed"}
       /\ {upload[e].asset, job[e].asset, seen[e].asset} \subseteq Assets \cup {None}
  /\ asset \in [Assets -> [file : Files \cup {None}, status : Statuses]]
  /\ request.items \in Seq(Assets) /\ (request.at = "none") = (dialog # "busy")

\* A document has the files the dialog showed when it was asked for, in their order and as often,
\* its images as pages in that order, its size without repeats; and every one of them was verified,
\* although the dialog also takes one whose verification it no longer waits for, or that somebody
\* else is uploading (import-tab.tsx, creation.ts readyAssets and importFiles).
CreatedAsListed ==
  \A d \in Range(documents) :
    LET used == d.sources \o d.cover
        file(i) == asset[used[i]].file
    IN /\ Len(used) = Len(d.shown) /\ \A i \in DOMAIN used : file(i) = d.shown[i]
       /\ \A a \in Range(used) : asset[a].status \in {"ready", "gone"}
       /\ d.pages = PagesOf(d.sources)
       /\ d.bytes = Cardinality(Range(d.shown))
       /\ d.pdf <=> \E a \in Range(d.sources) : asset[a].file \in Pdfs
       /\ \A a \in Range(d.cover) : Image(a)
=============================================================================
