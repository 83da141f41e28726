# paper-and-chalk: TLA+ models and proofs

paper-and-chalk is a note-taking web application. A Next.js app (`apps/web`) keeps documents, folders
and files in MongoDB through repositories (`packages/db`), browsers send files straight to S3 with
signed URLs (`packages/storage`), and workers (`apps/workers`) run jobs from an SQS queue. This
directory models the parts of it where several requests, workers, browsers and crashes meet.

Paths below are relative to `src/`; `uploads.ts`, `trash.ts` and so on without a directory are in
`packages/db/src/repositories`.

## The system

| Component | State it keeps | Operations | Correct when |
|---|---|---|---|
| Upload API (`uploads.ts`) | upload records; S3 multipart sessions and objects | init, partUrls, complete, abort | an upload ends in one asset or in none, and nothing it throws away is in use |
| Quota (`quota.ts`) | `users.storageUsedBytes` | chargeStorage, refundStorage | the counter is the bytes of the live files and never passes the plan |
| Verification (`verification.ts`, `apps/workers`) | `assets.status` | the verifyAsset job | a verdict is right, final, paid back once, and reached |
| Job delivery (`sqs.ts`, `run-job.ts`, `lib/server/jobs.ts`, `infra`) | queue, dead-letter queue, job records | enqueue, receive, acknowledge, redeliver | a queued job is carried out or dead-lettered |
| Trash and cascade (`trash.ts`, `cascade.ts`) | documents, assets, S3 objects | purge, purgeExpired | deletes exactly what is in the trash, and a file with its last document |
| Creation and documents (`creation.ts`, `insert.ts`, `documents.ts`) | documents, their pages, grants and links | create, duplicate, trash, restore, grant, revoke, share links | a document's files exist; it keeps an owner |
| Imports (`imports.ts`, `import-from-url.ts`, `fetch-url.ts`) | jobs, assets, objects | import, fetch, putStream, registerFetched | one live copy of a file per workspace, whole |
| Folders (`folders.ts`) | the folder tree and its order keys | create, rename, move, trash | a forest; nothing live below something trashed |
| Pages (`pages.ts`, `order.ts`) | page order keys, page count | insert, move, lock, remove | total order, a key between any two neighbours, matching count |
| Tags (`tags.ts`) | tags; the ids documents and smart folders hold | create, rename, delete, set, bulk change | no dangling ids; a change touches only its own tags |
| Permissions (`permissions/`) | documents' `isShared`, grants, links | can; grant, revoke, links | no action beyond the role; trash only for owners; an owner stays |
| Workspaces (`workspaces.ts`) | workspaces, members | ensurePersonalWorkspace, teams, members | one personal workspace each; an owner is a member |
| Library queries (`library.ts`, `listing.ts`) | none: a view read page by page | list, with a cursor | nothing unchanged is missed or listed twice |
| Browser uploads (`lib/upload`) | task states, a queue of files | add, pause, resume, retry, cancel | bounded concurrency; a cancelled upload is aborted |
| Browser library cache (`lib/library`, `hooks`) | cached views, the sidebar | optimistic change, rollback, refetch | ends as the server's state |
| Library view in the browser (`library-view.tsx`, `selection.ts`, `layout.ts`) | selection, box, menu, drag, dialog | click, keys, box, menus, drag, delete | an action is begun on what is drawn as selected; boxes and keys find what is drawn |
| New dialog (`import-tab.tsx`, `notebook-tab.tsx`, `new-document-dialog.tsx`) | the list of files, the cover | add, fetch, reorder, remove, create | creates what it lists, of verified files |
| Rate limits (`lib/rate-limit.ts`) | counters in Redis | consume | at most `limit` hits per window |
| Migrations (`migrations/`) | validators, indexes, backfilled fields, the record of what ran | migrate | what is recorded is done, after any crash |
| Paper (`packages/engine`), page sizes (`page.ts`, `spec.ts`), templates (`templates.ts`) | saved sizes, templates, the New dialog's forms | draw, save, use, delete | what is sent is accepted; what is drawn is on the page |
| Sign-in (`sign-in-form.tsx`, `auth.ts`, `sync-token`), sync server (`apps/sync`) | accounts, sessions, links, tokens | ask, open a link, Google, name, sign out, connect | one comes to where one was going, and in under one's own name |
| Signed URLs (`credentials.ts`, `client.ts`, `document-viewer.tsx`) | the AWS session, URLs in the browser's cache | sign, renew, load | a URL works as long as it says; an expired one is replaced |
| Navigation and search (`library-view.tsx`, `library-provider.tsx`, `library-toolbar.tsx`, `library-search.tsx`) | page, view and address, workspace shown and remembered | links, reload, sort, filter, switch, search | the address reads back as the view; sidebar and page agree |
| Sidebar dialogs (`app-sidebar.tsx`, `library-dialogs.tsx`) | open folders, forms, calls under way | open, type, submit, cancel | a form is about what it was opened for |
| Ink engine, most of the UI, seed data, infrastructure | | | not modelled, see below |

How they interact: a route of the web app calls a repository; repositories call S3 and MongoDB, use
transactions for what must happen together, and share the collections `assets`, `uploads`,
`documents` and `users`. The complete route queues a job when the repository has committed; a
worker reads the same collections. Browsers talk to S3 without the server seeing it. Scheduled
`purgeTrash` jobs and users' "Delete forever" run the same cascade.

What is hard to test: every await between a check and a write that relies on it; S3 calls, which no
transaction covers, before and after one; SQS delivering twice and workers dying; signed URLs that
still work when their upload is over; two transactions whose snapshots do not show each other's
writes; in the browser, answers that arrive after what they answer was changed again. `PROJECT.json` lists each of these as a
hazard at its line, with the properties that cover it or the reason why none does.

## Modules

| Module | What it is |
|---|---|
| `ByteSets` | totals of file sizes, written as cardinalities so that they can be proved about |
| `Ledger` | abstract: what a storage account promises |
| `Uploads` | uploads, the quota, S3, the queue and the verification worker |
| `Trash` | documents and their files, the trash, the cascade as a snapshot transaction |
| `Folders` | the folder tree, the documents in it, the transaction that trashes both, and their purge |
| `Permissions`, `Sharing` | the decision who may do what, and the requests that change what it is decided from |
| `Pages` | the pages of a document and their order keys |
| `Tags` | tags, and the documents and smart folders that hold them |
| `Workspaces` | personal workspaces, teams, members |
| `Listing` | a library view read page by page while documents change |
| `ImportJobs` | imports from web addresses: job records, the queue, the worker, the copies it stores |
| `Download` | one delivery of an import: redirects, the first bytes, and the stream into S3 |
| `Migrations` | the migration runner, several at once, and what the five migrations do |
| `RateLimit` | a counter in Redis, hit by pipelines that may break off |
| `UploadTask`, `UploadQueue` | the browser's upload of one file, and its queue of files |
| `LibraryCache`, `Sidebar` | what the browser shows of the library, with optimistic changes |
| `LibraryView` | where documents are drawn, which are selected, what an action is begun on |
| `NewDocument` | the New dialog, with the uploads and fetches behind it, and what it creates |
| `Paper`, `PageSetup` | what every template draws, and the form, schema and saved sizes it is drawn from |
| `Templates` | templates of the system and of users, saved, used and deleted under an open gallery |
| `SignIn` | signing in, the session's cookie, sync tokens and the sync server's door |
| `SignedUrls` | the session that signs URLs and its renewal; the URLs of a page's images |
| `Navigation` | pages, views and their addresses, the workspace shown and remembered, the search box |
| `Dialogs` | the dialogs of the sidebar, with answers that come late |
| `MCUploads`, `MCTrash`, `MCFolders`, `MCNavigation` | small instances and symmetry for TLC |
| `MCRaces`, `MCSerial`, `MCRecords`, `MCBrowser` | small instances of several modules, one per *part*: a behaviour starts in one part and stays there, so the parts' states add up and do not multiply |
| `ByteSetsProofs` | lemmas about totals: adding and removing files |
| `UploadsProofs`, `TrashProofs`, `FoldersProofs` | theorems about the module of that name |
| `SerialProofs` | theorems about sharing, the trash as a part of `MCSerial`, signing in, signed URLs, navigation and search, dialogs |
| `RecordsProofs` | theorems about pages, tags, workspaces, migrations, the browser's library cache and its sidebar |
| `CreationProofs` | theorems about imports and their download, the New dialog, its form, templates and paper |
| `BrowserProofs` | theorems about the browser's upload and queue, the rate limit, the library view and its places, and uploads as a part of `MCBrowser` |

### Uploads

State: the upload records (`uploads`), S3's sessions, parts and objects, the assets' status, the owner's
counter (`used`), what each API request and each worker is doing, and the queue. A request or a job is
a process with one step per database write, S3 call or transaction, so anything may happen in between,
crashes included. The steps of `complete` are `CompleteCheck` (pendingUpload), `CompleteMerge`
(listParts, completeMultipart), `CompleteHead`, `CompleteCommit` or `CompleteRollback` (the
transaction and its catch), `Enqueue` (the route); of `abort`, `AbortCheck`, `AbortSession`,
`DiscardRemove`, `DiscardMark`; of `verify`, `Receive`, `Inspect`, `Approve` or `RejectRemove` and
`RejectRefund`, `Ack`.

Choices:
- An asset has the id, the key and the file of its upload, so one set of ids indexes all of them. The
  workspace, and its owner's account, are one; people in it are `Users`.
- A file is a (bytes, type) pair. `Genuine` files have the type they declare. S3 enforces the signed
  length and SHA-256 of a single PUT, so its bytes are always the declared ones and the
  size and checksum mismatches of uploads.ts:268-279 cannot happen and are left out. A
  part's PUT only has its size signed, so a part may be "right" or "wrong" (the file changed since it
  was hashed), and only the worker can tell. A part, once sent, is not sent again.
- Signed URLs do not expire: a PUT may arrive at any time after its upload was started, which allows
  more than S3 does.
- Time: `Expire` may happen to any pending upload at any time and stands for both pendingUpload's
  condition and the TTL index, which removes the record (later updates find nothing).
- `CompleteRollback` covers a full account, the duplicate key and a failing database. A commit
  that succeeded although the driver reported a failure to the end is not modelled.
- Permission checks are left out: who may upload does not change what the steps do.

### Trash

State: documents with their status and the set of files they use (sources, cover and page
backgrounds are one set), assets with status and owning document, objects, the counter, what each
request is doing, and, for each open cascade, which records others wrote since its snapshot
(`stale`). `Snapshot` is the cascade's reads, `Commit` its writes, `Conflict` MongoDB's write
conflict with the driver's retry: a transaction fails when a record it *writes* is newer than its
snapshot, and reads do not conflict (snapshot isolation, as `withTransaction` asks for).
`PurgeCheck` and `SweepFind` are what purge and the daily job decide before the transaction;
`RemoveObject` is what they do after it. "expired" is a document in the trash past the retention
period.

Choices: uploading and verifying are single steps here, because `Uploads` has their protocol;
purge's checks of its documents, one after the other in the code, are one step, and what is restored between them and the
transaction is deleted all the same, as the code does by id (trash.ts:73); shorter
transactions (a verdict, an insert) are atomic, which snapshot isolation with retries makes them for
the records they write. Trashing and restoring check and write in one step: between the two only the
same flag could change, or the document could go, and an update by id then finds nothing. Page edits
are not here, and folders have a module of their own. `SweepFind` has `Batch` documents where the code has
`PURGE_BATCH` = 200.

### Folders

State: folder records (status, parent), document records (status, folder) and what each request is
doing. A move checks both folders (`MoveCheck`), walks up from the target with one query per level
(`MoveUp`), refuses (`MoveRefuse`) or writes by id (`MoveWrite`); trashing reads the subtree level by
level (`TrashCheck`, `Gather`) and then updates folders and documents in a transaction (`TrashSnapshot`, its reads;
`TrashCommit`, its writes; `TrashConflict`, MongoDB's write conflict with the driver's retry, as in `Trash`: `stale` has what
others wrote since the snapshot);
putting a document into a folder checks the folder and writes later (`NewDocCheck`, `DuplicateCheck`,
`DocMoveCheck`, `RestoreCheck`, and their writes). The daily purge is `SweepDocs` and then
`SweepFolders`. `Movers` are the requests that may be moves of folders: the code has no such limit, and
the constant says how much concurrency a result needs.

A document that is inserted or moved into a folder after the snapshot is none of the records the transaction writes: it
stays live in a trashed folder, whose record the daily purge removes although the comment at trash.ts:113
says that by now no document points at it, or is trashed with it. The same becomes of what a request that checked before moves in.

Choices: one workspace, so refusals to cross workspaces are left out. The checks at the start of a request, one read after the
other, are one step. Retention is a single event (`RetentionPasses`), because no request lives that
long; the daily job's batches are one step, and the race between its query and its transaction is in
`Trash`. Order keys, names, colours and icons are not modelled.

### Permissions and Sharing

`Permissions` is `can` of `permissions/decide.ts` as operators over the facts of one request: `RoleOf` is the
highest of membership, unexpired grants and a link that opens; `MayDocument`, `MayPage`, `MayLayer`, `MayWorkspace`
are its tables. `Sharing` keeps one document, its grants (`grant`) and links (`link`) and what each request is
doing. A grant is authorized, finds the record it changes, passes `Guard`, writes and refreshes; a revocation
likewise; `refreshShared` is three steps (`RefreshLoad`, `RefreshCount` in either order of its two parallel
counts, `RefreshWrite`). A grant may be by account or by e-mail address. `Crash` ends a request anywhere.

Choices: one document; expiry is an event; passwords are verified or not; a request that changes something
names no link, because the web app never passes one. A workspace role is fixed (`Member`); `Workspaces`
changes it.

### Pages and Tags

`Pages` has the steps of `insert`, `move`, `remove` and `lock`: an authorization, a read of the live pages
from which the new key is worked out, and a transaction that checks again what the code checks again;
the document may be purged in between. Keys are numbers up to `Top`: `KeyBetween` gives the same
key for the same neighbours, as fractional-indexing does, and refuses neighbours out of order, as it does.
A request for which no number is left is not made (`Room`), because strings never run out.

`Tags` has the tag records, the ids that documents and one smart folder hold, and requests that check
ids and write later. Deleting is one transaction.

### Workspaces

Every database call of `ensurePersonalWorkspace` is a step (find, insert under the unique index, find
again, join), so that two first sign-ins and a death before the membership are cases. Teams are created
in one transaction. Adding and changing members is a check and a write. A member's record has a serial
number, because changes are by the record's id.

### Listing

State: the documents' membership in the view, their sort value and when the user last opened them, and
`walk`, the browser's reading: the cursor it was given, the batch in hand, what was listed. A query answers
with its places in order (`InOrder`), the one sequence of them that is sorted. Four kinds of
reading are distinguished: sorted by a field in the database, by "last opened" in two queries and a rest, and
the two small views that are sorted in memory. Documents change between any two queries.

Choices: filters, search terms and the kind of view are membership (`in`); documents and folders are one
kind of row; the cap of the views sorted in memory is left out, and what is listed of an item is its id.

### ImportJobs

State: job records, messages, asset records, objects, the owner's counter, and what each worker is
doing. `Record` and `Send` are `enqueueJob`; `Receive` to `Ack`, `Nack` or `Crash` the worker with the
handler of `import-from-url.ts` and `registerFetched` in between. Each delivery has an asset id of its own. Members upload
the same files meanwhile (`Upload`, `Verify`, `Reject`, each one step, because `Uploads` has their protocol): such a file is a twin
while it is still verifying, and a job that named it keeps that name when it is rejected later (`rejected`).

Choices: one workspace, a file is one byte; fetching and `putStream` happen or fail as a whole here and
are `Download`'s steps. A commit whose outcome the driver cannot tell to the end (it tries for two minutes) is not modelled:
if it had succeeded, the catch at imports.ts:70 would remove the object of a registered asset, although its comment says
that nothing was charged.

### Download

One delivery: `Refuse`, `Redirect`, `StatusRefused` and `Answers` are `open` of `fetch-url.ts`; `Peek`, `Sniff` and `Replay`
the reading of the first bytes and giving them back; `TakeChunk` to `Abort` are `putStream`, one S3 call each. A body
arrives in chunks of any size, breaks off, or ends; a call may fail before or after S3 did what it was for; the
worker may die. A file is the sequence of its bytes, and `joined` is what S3 has of it in the parts it was sent, in
order, so that `StoredWhole` can say that what is stored is all of it and in order.

Choices: which addresses are private is a constant, and how a type is told from its bytes is left out. (An address
written as a bracketed IPv6 literal is not refused by the code, fetch-url.ts:113; no host of the model is written so.) An error
thrown inside the response callback (`new URL` of a malformed redirect, `decodeURIComponent` of a file name with a
stray percent sign, fetch-url.ts:72 and :134) ends the process; it is the `Crash` of both modules.

### Migrations

`Steps` is the list of what the five migrations do, each a validator, an index, a dropped index or a
backfill; collections and indexes that nothing touches again are represented by one. A run reads the recorded
migrations once (`Start`), skips, applies (`Up`, one step each) and records. It may die anywhere, several may
overlap, and the old version of the web app inserts documents until `Deploy`. `spoiled` says that a run died beside another, or
with migrations to go that another had recorded: then an older validator may stay in force, which `MigrationsDied` shows.

Choices: a backfill is one step; only the fields of documents are tracked; inserts that a newer validator
refuses do not happen.

### RateLimit

The pipeline `INCR`, `EXPIRE NX`, `TTL` of `UpstashStore`, one command at a time, on one key with a clock that
counts its expiry down. Counts above the limit are alike. A pipeline may break off before any of them.

### UploadTask and UploadQueue

`UploadTask` is `engine.ts` for one file: `task` (state, why it stops, what the run waits for), `runs` (the part
requests of each run, of those that failed too, because they go on), and `server` (the upload as the API and
S3 have it). JavaScript finishes a promise's continuations before the next event, so a step is an event
with everything up to the next wait. Answers may be lost; the upload may expire; a file sent by one PUT has
one part. Progress numbers, rates and hashing speed are left out.

`UploadQueue` is `store.ts`: files wait, `pump` starts them. Of a task it keeps what the queue looks at.

### LibraryCache and Sidebar

`LibraryCache` is the bulk actions of `use-library-actions.ts` over the views of `cache.ts`: the optimistic change, chunks
of `MaxBulkIds` that the server carries out in part or does not answer, the rollback of what failed, and the fetches and changes
by others around it. Nothing keeps one action from being begun while another runs (library-view.tsx:400, 726, 766, 948), and each
rolls back to its own snapshot of all views. `doubt` holds, per view, what the browser cannot know: a chunk without an
answer, a fetch begun during an action, a change elsewhere. `torn` holds what a rollback may put back against what the browser was told: chunks that
were answered before one was not, and the documents of other actions that ran beside it. `RolledBackIsCurrent` is
about everything but `doubt` and is violated; `ListedIsCurrent` is about the rest. Both say that what is listed belongs there and is
as the server has it, not that everything that belongs there is listed: an action moves nothing into a view (a document moved
to another folder appears there with the next fetch).

`Sidebar` is `use-sidebar-actions.ts` with the tree operators of `folders.ts` and the dialogs that use them:
several calls at once, each with a guess and a snapshot, answers that are lost while the server may still
carry the change out (`late`), and readings that are asked for, cancelled and asked for again as React Query
does (external; modelled from how it is called: a read in flight is dropped by a change and by an
invalidation, writing the cache ends the invalidation, a failed read keeps it).

Choices: an entry has a name and a place, other columns behave as a name; tags and smart folders
(`Labels`) behave as folders without a place, and the run has none; an entry that is shown twice until
the next reading is shown once; an id may be given again after its entry is gone; a sidebar that is not
loaded yet has no guesses and is left out.

### LibraryView

State: what is listed (`order`), how it is laid out, the selection (`sel`, the `rawSelection` of the component:
`Selection` is what it is pruned to when it is drawn), the box being drawn, the open menu, the drag, what a dialog
asks about and what an action was begun on (`sent`). Every handler of pointer and keys is an action; the list
and the layout change at any time. Places are whole numbers: what is a fraction in `layout.ts` is multiplied by
the number of columns. The frames of the automatic scrolling keep what was drawn when the button went down
(`ScrollFrame`), so a document that was loaded meanwhile is selected once the pointer moves.

Choices: renaming in place is a question like a dialog's; the trash view, which has no drags and no renaming, has
some of these actions; opening a document leaves the view. An input for a name that goes away with its
document never says that it is done, so the view's keys stay dead (library-view.tsx:404); this is not modelled.
What `Seed` writes over a cached view (library-view.tsx:223) is not modelled either. A dialog keeps the documents it was opened for:
`Confirm` may act on some that have left the view since.

### NewDocument

State: the dialog, its list of files and its cover, where each comes from, what the upload store (`upload`) and the
last poll of a job (`seen`) say of it, the workspace's assets, the request and the documents. An upload may be
"done" for the dialog while its file is still being verified, after the deadline of `waitForVerification` or
because somebody else is uploading the same file; only `readyAssets` on the server knows. A job that failed may
still succeed when the queue delivers it again, but nobody asks any more. A file may be purged between
`readyAssets` and the insert, which is the race of `TrashDangling`.

Choices: a file is one byte; at most `MaxItems` files (50 in the code, not reached here); the tray is behind
the dialog and cannot cancel; changing the tab drops the cover (`DropCover`); titles and paper are left out.

### Paper, PageSetup and Templates

`Paper` has the marks of every template of `paper/templates.ts` and of the infinite canvas as sets of lines, from the
page, spacing and margin, with `clipSegment`. `PageSetup` is the notebook form: what is typed, in which unit,
converted and rounded as `page.ts` does, checked by the form (`FormSize`) and by the server's schema, saved
as a size and used again. Lengths in `Paper` are tenths of a point; in `PageSetup` they are exact (1/254 of a hundredth
of a point), because the limits are compared with rounded numbers. Images of 1, 1300, 19300 and
100000 pixels are below, between and above the limits of a page.

`Templates` has a document whose pages change, two users who save it as a template, the gallery that one of them
looks at, and the request that makes a document of what was chosen. Only whether every page has paper,
and which pages are kept, is modelled.

`DrawnAsChosen` says that all marks are on the page: no end of a line is outside `0..w` and `0..h`. It does not hold of `musicStaff`,
`cornell`, `plannerDaily`, `plannerWeekly` and `storyboard` when the page is small or the spacing big: their marks have sizes
of their own, and the canvas cuts them off. The property asks for it of pages with room for them (`NeedRoom`), which
are those not smaller than an A6, with the template's own spacing and margin. A storyboard needs more: its frames are 9/16
as high as they are wide, whatever the page's height, so on a page more than four times as wide as high they may pass its lower edge
(seen when the theorem would not be proved without it; the run's sizes have no such page).

### SignIn

State: one account, and for each of two browsers its session, the copy of it in its cookie, its screen, its sync token and the
name it is connected under; the links in the mailbox. A place is where the person was going (`headed`).
Links expire, are used, are opened in the other browser; Google answers or is cancelled; mails are refused. A
cookie and a token carry the name of when they were made until they run out (`renamed` counts that down).
`Connect` is `onAuthenticate` of the sync server.

`safeCallbackUrl` decodes a value that was decoded already (callback-url.ts:11), at every hop, so an address with an
escape in it (a search for "a%26b") arrives as another one, although the comment at app/(auth)/sign-in/page.tsx:24
says one goes "straight to where they were headed". `Decoded` models this, and `OnTheWay` is about places without escapes.

Choices: one account; Better Auth, Google and the mail are external; rate limits are `Refuse`.

### SignedUrls

State: half hours that the AWS session has left, whether it is being renewed and for whom, the URLs that were signed
with what they have left; and, in ticks of five minutes, the age of an image's URL in the browser, and the pages that show
it. The S3 client is taken to ask the provider of credentials each time it signs, which is how
`credentials.ts` is written to be used.

### Navigation

State: the page (kind, workspace, search), the view (`view`), the view the server rendered it with (`opened`, `initialView`), the
parameters in the address, the workspace in the cookie, in the sidebar and in the layout, requests to remember
one (`posts`, answered in any order or lost), and the search box with what was typed, asked and answered.
Effects run with the step that causes them. Next's router is external.

What the code does and the properties leave room for: the page Home, clicked on with a changed view, empties the address
and keeps the view (library-view.tsx:188-201); a smart folder's plain view has an empty address, so a reload
shows the saved one; tags past the twentieth are cut off when the address is read; a second title
picked on the same search page is not selected, because the page is not made anew; a pick within the 200 ms after
typing selects on the page of the earlier search.

### Dialogs

State: the tree, the folders remembered as open, the form of each dialog, and the calls under way with what their caller saw
when it called. `DraftIsItsOwn` is about what a form holds, `ArrivesInSight` about what becomes of the folder that was
made in another.

What the code does and the properties leave room for: a late answer closes whatever dialog is open (app-sidebar.tsx:511) and
writes the set of open folders that was seen when the call was made; "Cancel" of the smart folder and the move
dialogs keeps the choice; the library view's "New tag" dialog never clears its draft; after a folder
is trashed the page is left by the pathname seen at the click. `Sidebar` has what calls do to the cache and
the server, a cycle shown for a moment included, in which the walk at app-sidebar.tsx:232 does not end.

### Ledger

`Charge(a, n)` takes a file in if it fits, `Refund(S)` gives a set of held files up, and the counter
follows. `Uploads` and `Trash` implement it under the mapping `held <- Held`, the bytes of the live
files: so whatever a request, a job or a crash does, it is one of these or invisible to the account.

## What is checked

| Run | Instance | Properties | Result |
|---|---|---|---|
| `UploadsRaces` | 2 uploads, a small file and one of 2 parts that do not fit together, 2 requests, 2 workers, 2 deliveries | `StorageConserved` `QuotaNeverExceeded` `ReadyIsGenuine` `VerdictIsFinal` `LedgerSpec` | hold; 1.0 million states |
| `UploadsAborted` | 2 uploads, 2 requests | `AbortedHasNoAsset` | violated |
| `UploadsStuck` | 1 upload, 1 request, fairness | `AssetSettles` | violated |
| `Races` | 2 documents, 2 files, 2 requests; or 3 folders, 1 document, 2 requests, one of which may move folders | `NoCycle` `ReadyHasFile` `LedgerSpec` `OnlyInsideGoesAlong` | hold; 2.1 million states |
| `TrashDangling` | 2 documents, 2 files, 2 requests | `NoDanglingFile` | violated |
| `FoldersCycle` | 2 folders, 2 moves at once | `NoCycle` | violated |
| `Serial` | 9 parts, below | `TypesOK` `OwnerRemains` `ListedCanBeOpened` `NoDanglingFile` `OwnerExists` `RefreshedIsRight` `OwnersMakeOwners` `PassesAreGood` `ShowsWhatItIsAbout` | hold; 645 thousand states |
| `WorkspaceForgotten` | 2 workspaces, 1 request to remember at a time besides a switch's own, none lost | `Remembered` | violated |
| `Records` | 14 parts, below | `TypesOK` `CountMatches` `KeysNeverCollide` `NoDanglingTag` `ChangeTouchesItsOwn` `OwnersBelong` `ListedOnceInOrder` `ShownIsCurrent` `ImportedIsKept` `DoneUnlessDied` `CreatedAsShown` `DrawnAsChosen` | hold; 1.4 million states |
| `Browser` | 6 parts, below, fairness | `TypesOK` `CompleteHasAllParts` `ReadyHasObject` `CancelledIsFinal` `UploadsSettle` `GetsThrough` `ActsOnWhatIsShown` `JobSettles` | hold; 141 thousand states |
| `MigrationsDied` | 2 processes, 2 starts, 1 document | `RecordedIsDone` | violated |
| `LibraryRolledBack` | 2 documents, a chunk of 1, 2 actions | `RolledBackIsCurrent` | violated |

Where one question is asked of several parts, the run's property is the conjunction of theirs: `ShownIsCurrent` is
`ListedIsCurrent` of `LibraryCache` and `SidebarIsCurrent` of `Sidebar`; `CreatedAsShown` is `CreatedAsListed` of `NewDocument`,
`MadeAsShown` of `Templates` and `SentIsAccepted` of `PageSetup`; `ImportedIsKept` also has `StoredWhole` of `Download`;
`PassesAreGood` is `OnTheWay` and `JoinsByName` of `SignIn`, `LastsItsLife`, `OneExchange` and `ExpiredIsReplaced` of `SignedUrls`;
`ShowsWhatItIsAbout` is `ReadsBack`, `PickIsSelected` and `SidebarFollowsPage` of `Navigation`, `ArrivesInSight` and
`DraftIsItsOwn` of `Dialogs`; `UploadsSettle` is `Settles` of `UploadTask` and `EveryFileGetsItsTurn` of `UploadQueue`;
`ActsOnWhatIsShown` has `AgreeOnPlaces` of the view's layout. Each such part has a mutant.

Bounds. Two uploads of one small and one big file reach every conflict the code distinguishes: the same
file twice (the unique index), two files that fit only alone (the quota), one upload handled by two
requests. Two requests and two workers give each pair of steps both orders. Two deliveries
(`MaxReceives`, 5 in `aws.tf`) allow a redelivery and the dead-letter queue. Two parts tell a session
that lacks one from a complete one. In `Trash`, two documents that share a file, one with
a file of its own, are enough for a cascade to keep one file and drop another; three documents (one
request at a time) let a batch leave a document over. Three documents with two requests exceed ten million
states and are left to the proofs. Three folders make
a walk of two levels and a chain that a wrong check would close into a cycle. Two people can each be the last
owner but one; two grants may both be the first of one person, a link is a second way in.

The bounds of a part are constants, given in `Records.cfg`, `Serial.cfg` and `Browser.cfg`, so that the theorems are about all
of their values; the paper of `MCRecords` has its own in that module.

The parts of `Records`: pages (3 pages, 2 requests, keys up to 3: room for one page between two, the case in
which two insertions meet); tags, one request at a time, and two at a time on one document; workspaces (2 people,
3 workspaces, 2 requests); a list of 3 documents read one by one while one of them changes; the library cache (2
documents, a chunk of 1, so that one chunk can fail after another has succeeded; 2 actions that may overlap, the one that begins beside another a move, or to the trash or back, of one document;
3 actions, fetches and changes of others); the sidebar
(2 folders, 2 calls at once, 3 events); imports (2 jobs, 2 files, each delivered twice, 2 workers, with uploads of one of the files;
jobs and assets are alike, so `FirstTaken` takes a first); the download of one (bodies of 0 to 7 units, of which 2
tell the type, 3 make a part and 4 or 7 are too many, in chunks of up to 4: so a chunk ends within, at and past every
bound); migrations (2
processes, 3 starts, 1 document, from every earlier version); the New dialog (2 entries, 2 files of which one is a
PDF, 2 assets; `InTurn` takes entries and assets in order, since they are alike); the notebook form with sizes at and beyond the
limits, in inches; all paper on three page sizes, both ways up, with three spacings; templates (2 users, one template of each kind).
Requests, calls and workers are interchangeable (`Symmetry`); where they come one at a time, only `p1` makes any.

The parts of `Serial`: sharing (2 people, 2 grants, a link, 1 request at a time), the trash (3 documents, 2 files, 1 request
at a time), the ways in (2 browsers, 2 links that last one tick, 1 name) and the names (1 link at a time, tokens that last two ticks: longer than
cookies, as in the code), signed URLs (2 requests, 2 pages of one image), a view's toolbar (2 tags of
which 1 is allowed), the places (2 workspaces, 4 requests to remember one), the search box (2 searches, 1 such request at a time) and
the dialogs (2 folders, a label, 1 call at a time). Grants are interchangeable, and so are the trash's documents (`Symmetry`).

The parts of `Browser`: upload requests one at a time (2 uploads, one of them with a disguised type, 2 workers, 2 deliveries); one upload (3 parts, 2 at a time, 2 attempts, 2 runs: a run that was stopped
overlaps with the next one); the queue (3 files, 2 at a time); the rate limit (2 clients, 2 hits in 2 ticks, 2
broken pipelines); a view of 3 documents, one not deletable, in a grid of two columns; and the places of 0 to 5
documents in a list and in grids of one to four columns, the narrowest of them narrower than a card, with a pointer on
and beside every edge.

Only `FoldersCycle` has a deadlock check. In the other runs every id may be used and every bound reached, and then nothing is left to do.

Fairness (`FairSpec`): a request that was begun and a job that was received take their next step
(`WF`): the server and Lambda run what they began. SQS delivers a waiting message to a free
worker and moves one that was delivered often enough. Nobody makes browsers call, parts arrive,
records expire or processes crash. A crash may always come instead of a step; `MaxReceives`
bounds how often a job is tried, as the queue does. In `UploadTask`, calls end (answered, refused or lost), hashing
ends and what is stopped unwinds; no user does anything, and no worker need ever judge the file: polling
has its deadline. In `UploadQueue` an upload that runs ends, which is what `Settles` says of one. In `RateLimit`
time passes and a client that may try tries again.

### Where the code does not do what a comment says

- `UploadsAborted`: complete's catch discards the upload after every failure (uploads.ts:322), also
  when the duplicate key is the very asset another complete of this upload just made; and `abort`
  discards after a check that a complete may have overtaken. The upload is then "aborted", its asset
  live, its object deleted. If the worker already approved it, a ready file has no
  object; this is why `ReadyHasObject` is checked with one request at a time. The comment at
  uploads.ts:141 says an upload that is discarded is finished "without an asset".
- `UploadsStuck`: a request that dies between the commit and the enqueue (complete/route.ts:13) leaves an
  asset that stays "verifying": a second complete no longer finds a pending upload, a new init answers
  that the file exists, and nothing queues the job again. The header of uploads.ts says that a worker
  verifies the file's real type.
- `TrashDangling`: which other documents use a file is read from the cascade's snapshot, and a document
  inserted meanwhile writes nothing the cascade writes: both commit, and the new document's file is
  gone. cascade.ts:20 says that it may only go when the last of them does.
- `FoldersCycle`: the walk and the write of a move are not one transaction (folders.ts:207-221), so two
  moves in opposite directions both find no cycle and make one: both folders leave the tree, and the
  next walk into them does not end. folders.ts:190 says that move refuses cycles.
- `WorkspaceForgotten`: the effect at library-view.tsx:181 runs again when `showWorkspace` is a new function, and it is one after
  every change of the workspace shown (library-provider.tsx:67-84). Choosing a workspace in the switcher
  therefore sends, beside the switcher's own requests (app-sidebar.tsx:116-117), one for the workspace that is being left;
  answered in another order than sent, it is the one remembered. The comment at library-context.tsx:12 promises that
  the workspace shown is remembered for the next visit.

- `MigrationsDied`: a run applies what its one reading of the log did not have, also when another run has recorded it and more
  since (migrations/index.ts:36-45). It puts an older validator back, and if it dies before it comes to the newer migration, that
  one stays recorded with the older validator in force, and no later run applies it again. index.ts:27 calls the migrations safe to run
  from several processes. Deploys run one at a time (deploy-staging.yml:15), so it takes a second, manual run.
- `LibraryRolledBack`: when a chunk gets no answer, the catch puts every view back to the snapshot from before the action and returns
  without `markStale` (use-library-actions.ts:85-88). Documents of the chunks that were answered as done are then listed as they
  were, and so is what another action changed meanwhile; nothing fetches the views. The comments there say that views roll back on
  failure (line 39) and that the change is kept "only where it worked" (line 91).

Other properties fail for the same reason as the first four, a check and a write with an await between them. Two owners who
demote each other leave none (documents.ts:90), and two requests about one tag leave a dangling id; both are checked with one request at a time
instead. A document restored while it is purged is deleted (trash.ts:73), and one moved into a folder that is trashed meanwhile
is left behind (documents.ts:268); no property is about these.

### Mutants

Each property of a passing run has a mutant: an operator beside the definition it replaces, marked
`(Mutant: ...)`, that is wrong the way an edit of the code could be (the file is compared with the
limit before it is added, the verdict is written whatever the status, the deletes run outside the
session, a shared file is not taken out,
a transaction is committed over what others wrote since). TLC finds the property violated with it.

## What is proved

For every value of the constants that satisfies the assumptions, TLAPS proves the results below: there is no bound on
the number of ids, requests, workers, files, people, documents, folders or tags, nor on what is typed. The assumptions are
named beside the constants. They say that file sizes are positive, that limits are natural numbers, that order keys are a
range with room, and that `None` is not one of the values it is told from. Those that say more:
- `UrlAssumption`: a URL is signed for no longer than the session has left when it is renewed (`UrlLife`, `RenewBefore`,
  `SessionLife`: the code's 1, 2 and 12 hours), and one in the browser is renewed before it expires (`StaleAfter`, `ReadLife`);
- `FormAssumption`: sizes, units, papers and orientations are those of the form, an image's sides are one pixel or a
  multiple of a hundred up to 100000;
- `JobAssumption`: finitely many assets, because the account counts them.

About the specification of one module:

- `UploadsProofs`: `TypeOK`, `StorageConserved`, `QuotaNeverExceeded`, `LedgerSpec`, `ReadyIsGenuine` and `VerdictIsFinal`;
  and with one request at a time (`OneAtATime`), but any number of workers, `ReadyHasObject`.
- `TrashProofs`: `TypeOK`, `StorageConserved`, `LedgerSpec` and `ReadyHasFile`; and with one request at a time
  `NoDanglingFile` and `OwnerExists`.
- `SerialProofs`, of `Sharing`: `TypeOK`, `LinkTakesNothingAway` (theorem `LinksAdd`, proved only) and
  `ListedCanBeOpened`; and with one request at a time `OwnerRemains`, `OwnersMakeOwners` and `RefreshedIsRight`.
- `RecordsProofs`, of `Pages`: `TypeOK`, `CountMatches` and `KeysNeverCollide`.
- `BrowserProofs`, of `UploadTask`: `TypeOK`, `CancelledIsFinal` and `CompleteHasAllParts`.

About `MCSpec`, whose behaviours are those of one part or another, with what the parts' bounds leave of it:

- `FoldersProofs`: `TypeOK` of `Folders`, `OnlyInsideGoesAlong`, and `NoCycle` when `Movers` has at most one member.
- `SerialProofs`: `TypesOK`, `PassesAreGood` and `ShowsWhatItIsAbout`; and with one request at a time `NoDanglingFile` and
  `OwnerExists`.
- `RecordsProofs`: `NoDanglingTag`, `ChangeTouchesItsOwn`, `OwnersBelong`, `ListedOnceInOrder`, `DoneUnlessDied` and
  `ShownIsCurrent`.
- `CreationProofs`: `ImportedIsKept`, `CreatedAsShown` and `DrawnAsChosen`; and `TypesOK` of all parts of `Records` (`AllTyped`), from the invariants
  of both modules.
- `BrowserProofs`: `TypesOK`, with every waiting file once in the queue, and `ActsOnWhatIsShown`; and with one upload request at a time
  `ReadyHasObject`.

The type invariants of `Uploads`, `Trash` and `Folders`, and `StorageConserved` of `Trash`, are proved and are not among the
properties of the runs.

The arguments:
- *Types.* `TypeOK` of `Uploads` is inductive because it says more than types: a request about to
  insert has an id of its own, one past its first check has an upload that exists, a job is about an
  asset that exists. `TypeOK` of `Trash` says what a transaction remembers (`RequestOK`): a doomed
  file it saw is still there, and charged for exactly if it is to be refunded, unless it is in
  `stale`. `Commit` requires that nothing it writes is stale, so what it saw is still so.
- *Accounting.* `Accounted` is `TypeOK`, `StorageConserved` and that the live files have finitely many
  bytes, which cardinalities need (the constants may be infinite). Each step leaves the live files and
  the counter alone, adds one file (`ChargeTotal`), or gives files up (`RefundTotal`); the
  clamp at zero in refundStorage is never reached, because what is given up is part of the total.
  `QuotaHolds` follows from the condition in the update itself.
- *Refinement.* The same three cases are the ledger's stutter, `Charge` and `Refund`.
- *Verdicts.* `ReadyIsGenuine` needs `Sound`: only a merge of a multipart session makes a wrong object,
  a session is over once its upload has an asset, and a job about to approve saw a genuine object.
  A late PUT of a single file can only put the right bytes there.
- *Objects.* `ReadyHasFile` needs `Backed`: every live file has its object. A purge removes only
  objects whose record its own commit deleted, and ids are not used twice.
- *One upload request at a time.* `ReadyHasObject` needs `Kept`: a file a job has begun to reject is one that no job can
  approve (`Doomed`), and stays so whatever is uploaded later; the request that may remove an object has an upload
  without an asset. A second request breaks the latter, as `UploadsAborted` shows.
- *One deletion at a time.* `NoDanglingFile` and `OwnerExists` need `Solo`: what the request has read
  (that its document exists, that its files are stored, what its transaction's snapshot says) is still so when it writes,
  although verdicts and expiries happen in between. Reads do not conflict in MongoDB, so a second request breaks
  it without a retry: `TrashDangling`.
- *Forest.* `NoCycle` says that every non-empty set of folders has one whose parent is outside it.
  `MovesKeepForest` needs `Walked`: a walk that has come to its cursor has seen a set of folders without
  the one that moves, from which every way up leads to the cursor or to the top. At the top, that
  set is closed under parents and holds the target; a cycle through the moved folder and the target would
  leave a smaller one inside it, among folders that did not move. New folders are nobody's parent, so
  creating, trashing and purging do not disturb the walk; another move does, which is what
  `FoldersCycle` shows and why the theorem assumes one mover.
- *What goes with a folder.* `OnlyInsideGoesAlong` needs `Together`: as long as nobody wrote to it since the snapshot (`stale`), a
  document that a request is about to trash is live and its folder one of those that are about to go. The commit requires that of all
  of them; without the retry the document may have been taken out.
- *Sharing.* That an owner stays needs `IInv`: the grant a request has found is still the one the guard counted,
  which another request would break. `ListedCanBeOpened` follows from the order in which a grant is written and
  `isShared` refreshed: the counts are read after the write.
- *Pages.* `CountMatches` and `KeysNeverCollide` are inductive with the types and with what a request that removes has read (`IInv`):
  the unique index refuses a key that is taken, whatever a request read before, and the count changes in the
  transaction that changes the pages.
- *Upload task.* `NoneForgotten`: while the server's upload is the one a run sends to, every part that S3 lacks is on its way
  or in that run's queue, so a run with nothing left to send has sent everything.
- *Tags.* `TagsInv`: whatever a request has checked and not yet written still exists (`TagsKnown`), because the one request
  there is cannot delete beside itself. That a change touches only its own tags needs the types alone, for it writes with
  `$addToSet` and `$pull`.
- *Workspaces.* `SpacesInv`: a personal workspace is its user's only one (the unique index), a user whose
  `ensurePersonalWorkspace` has returned is a member of it, and a request between its insert and its membership knows which it
  is to join, even if it lost the race for the insert.
- *Lists.* A place follows another (`Follows`) in a strict total order, the opened half before the rest, and a finite set can be put in
  such an order by counting who comes before (`InOrderExists`), so a query's answer is sorted, and complete up to its last place
  (`QueryIs`). `ListOK` is about the documents that have not changed: those up to the cursor are listed, in order and once; the page so
  far (`OutOK`) has those beyond it that the queries have reached, and the batch in hand (`BatchOK`) those up to its end. So one that
  is `Reached` cannot be missed, whichever of two queries it is in, and a change only takes its document out of what is claimed.
- *Migrations.* `MigrationsInv`: what is recorded has no gaps, and each step of a migration that is recorded, or that a run has
  passed, is done or comes again (`DoneOrComes`): a run that undoes a later step's index has that step still before it. `spoiled`
  marks that a process died beside another, or with migrations to go that another had recorded; after that nothing is claimed.
- *Imports.* `JobsInv`: keys of deliveries differ (`Apart`), a registered asset has its object, and the account has one byte for
  each. A delivery whose file is registered by a twin, or that fails, drops its own object only, and the file a job
  names was registered under that id, if it has not been rejected since (`Named`).
- *Download.* `PullInv`: what was put into parts (`joined`) and what is in hand are, together, the bytes taken so far in order, every
  part but the last is full, and a body that is too large leaves no object.
- *Library cache.* `CacheInv`: a document that is neither in `doubt` nor in `torn` is shown as the server has it in every view, if no action is
  on it (`ShownRight`); if one is, what is shown is that action's change of what was right before, and each action's snapshot is right
  for the documents that neither it nor an action beside it (`beside`) is on. A fetch that was begun during an action is in doubt for its documents, since its answer
  may be from before or after the server's write. `RecordsProofs` has it for any number of actions at once.
- *Sidebar.* `SidebarInv`: when no call has a guess out, cache and server agree on every entry that is not in doubt, but for those
  whose creation was answered and whose reading is still to come (`Expected`).
- *New dialog.* `NewInv`: what the dialog knows of an entry is true of its asset (whatever polls, uploads and jobs
  still do), so what the request reads are the files of the list, in its order, and verified, although
  they may be deleted before they are used.
- *Templates.* `TemplatesInv`: what the gallery shows of a template that can be used is what is stored, because a template is saved or
  deleted and never changed, and ids are not used twice.
- *Form.* `FormsInv`: what was sent passes the schema and asks for 1 to 500 pages, after every conversion and rounding on the way; saved sizes lie within
  the limits exactly, and an image's page has its shape within them.
- *Paper.* `DrawnAsChosen` needs `FormsInv` for the sizes, spacings and counts a form can have; the rest is geometry. Steps, and
  steps centred in what is left over, stay between their ends (`StepsWithin`, `CentredWithin`), and a share of a length within it
  (`ShareBetween`). What is left of a line that is clipped is in the box (`ClipWithin`): a part of the line from where it has
  entered all four sides to where it leaves the first, although the quotients are rounded. On these rests one lemma for each of the 16
  templates, those with parts from what room there is (`Roomy`). A preset is named by half the way around it: any two
  are further apart than what reading a rounded number again can change (`PresetsApart`, `NamedAfter`). The two
  dialogs draw the same (`OnThePageSame`), as no operator of the paper depends on what was typed.
- *The trash beside other parts.* A step of `MCNext` is a step of `Trash` or leaves it alone (`SameSteps`), so what `TrashProofs` proves
  holds of `MCSpec`.
- *Signing in.* `SignInInv`: every screen and every link knows where it was asked for, and a cookie or a token with an old name is
  counted by `renamed`, which runs out no sooner than they do.
- *Signed URLs.* `UrlInv`: no signed URL has more left than the session that signed it, requests wait only for the one exchange under
  way, and an image whose URL is old has a query under way.
- *Navigation.* `NavInv`: the view is one that its kind of page can show, so its address reads back as it; and the sidebar is in the
  workspace of the page, if that has one, even while requests are under way. In the search part nothing follows an answer (`PartOK`), so no answer leads away from
  the page that a title was picked on.
- *Dialogs.* `DialogInv`: at most one form is open, and its draft is what it was opened with or what was typed in it since.
  `ArrivesInSight` needs `Holders`: after a move, what a folder is in is its target and what the target was in, and other folders
  are in what they were in.

- *Queue of files.* `QueueInv`: the queue has each file that waits once (`NoTwice`), so starting those at its head, or taking one
  out, leaves it with the others.
- *Library view.* `ViewInv`: a menu and a drag belong to a document in view. What is drawn as selected is the selection pruned to
  what is in view (`SelectionFits`), whatever the selection itself still names; every action begins with that, with the
  document under the pointer, or with what its dialog asked about.
- *Places.* `PlacesAgree` needs no invariant, only arithmetic: dividing by the height of a row and by the number of columns gives
  the row and the column in which item i is drawn (`RowOf`, `RowsReached`), only a single column can be wider than the window
  (`ColumnsFit`), and so the rows and columns that a box reaches are those whose items it touches (`TouchesAreHits`).

Only model-checked is liveness (`JobSettles`, `UploadsSettle`, `GetsThrough`), which is out of the prover's reach: every invariant
and action property of the passing runs is a theorem, for one request at a time where that is said above. Of the board,
`DrawnAsChosen` looks at windows of one size near the origin, and the theorem says no more; `GridOfPlane` is about windows
anywhere, of any width.

## Not modelled

- Rendering: the JSX, styles and text of the web app, its widgets (`components/ui`), its marketing pages and e-mails. They are
  most of the repository's lines and keep no state but what a widget library keeps; the state around them (selection,
  dialogs, forms, caches, addresses) is in the modules above.
- Ink: elements and strokes are schemas (`schema/element.ts`) and drawing; nothing stores or merges them yet.
- The sync server's documents: Hocuspocus and Yjs keep them in memory, the code adds no storage; only who may connect is modelled.
- Better Auth, React Query, Next's router, MongoDB, S3 and SQS are external. Their behaviour is modelled as far as the code relies
  on it.
- Type declarations, schemas without a rule that two parts must agree on, seed data, build files and Terraform. Settings of the
  queue and the buckets are constants of the modules.
- Single updates of one field (names, colours, icons, titles, a cover): each is one write, last one wins.
- What the server's rendering writes over a cached view (`Seed`, library-view.tsx:223-227), and an inline rename whose document goes away.
- Reading a file's bytes on the server (`readStart`, `sha256Hex`): `Uploads` has only what the worker concludes from them.

Left to do: a refinement of `ImportJobs`' fetch by `Download`; the limit of hits per window as a safety property of `RateLimit`.
