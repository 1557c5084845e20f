# Verification of the document archive service

TLA+ models of the Go service in `src/`: the document table, the archive
application around it (HTTP handlers, worker, process), the two stores that keep the
table, the sources' downloads and the scheduler that limits them, and what the
service computes without keeping state. TLC checks the models on small instances; TLAPS
proves what matters most for all values of the constants.

## The system

The service archives documents of outside sources (hitomi, jmcomic). A client
asks for a document; a single worker goroutine resolves it at its source,
downloads its pages into an object storage, writes a manifest, and marks it
archived. Documents are deleted in two steps: hidden at once, swept from the
object storage later.

| Component (`src/internal/...`) | State | Operations | Talks to |
|---|---|---|---|
| `documents` model | - | status graph, visibility | - |
| `documents` stores (memory, SQLite) | table of documents: identity, status, pages, Progress, Error | Create, Get, Query, Delete, UpdateMeta, TransitionTo, Purge, Restore, ResetPages, AddPage, RemovePage | called by the App |
| `archive` App, HTTP side | - | RequestDocument, RemoveDocument, RefreshDocument (three modes), GetPage, QueryDocument | store, storages |
| `archive` worker | batch and document in hand | processDeleted, processQueued, processDocument, failDocument, onPageDownloaded | store, storages, source handlers |
| `storage` (memory, S3) | objects by key | PutObject, HeadObject, GetObject, DeletePrefix, PresignGetObject | the network |
| `sources` scheduler | limit, successes, generation, backoff, waiting goroutines | Do, acquire, finish | hitomi's handler |
| `sources/hitomi`, `sources/jmcomic` | per-run handler, shared client; per page an attempt and a buffer | ResolveDocument, ArchiveContent, ArchiveManifest | source, scheduler, storages, page hook |
| `httpapi` | - | routes, permissions of roles, CORS | App |
| `config`, `cmd/server` | configured storages; the process | start, signal, exit | all of the above |

What is hard in it:

* handlers and the worker interleave on the table between any two store calls,
  and the worker acts on lists and documents it read earlier;
* an object and the record of it live in two places, so every failure or stop
  between PUT, AddPage, DeletePrefix and Purge leaves some state to recover from;
* pages of one document are downloaded concurrently, finish in any order, and the
  first error cancels the rest;
* nothing resumes work that was under way when the process stopped;
* the scheduler's limit changes under requests already in flight, and waiting
  goroutines depend on being woken;
* a rate limit makes the scheduler run a page again, a broken transfer makes the
  resolver repeat a request, and both keep something of the attempt before;
* two stores implement one interface over different data: a slice with blanks
  that readers share, and rows that refer to each other.

What makes each part correct: a table whose progress, pages, identity and status
agree, and whose hidden documents are left alone; a worker that records only
pages that are there, archives only what is complete, leaves nothing of a purged
document behind, and gets through its queue; an ArchiveContent that stores before it
records, returns what it recorded, names the cause of a failure, and returns; a
scheduler that stays within its limit, reacts once to a burst of rate limits, and lets
every task end; stores that cannot be told apart; queries, access, configuration and
image pieces that come out as meant for every input.
`PROJECT.json` lists the hazards one by one, each at its line, with the properties
that would catch it.

## Modules

| Module | Models | Extends |
|---|---|---|
| `Documents` | `documents/model.go`; what each operation does to one document | |
| `DocumentStore` | `documents.Store`: the table and its operations, as both stores implement them | `Documents` |
| `ArchiveApp` | `archive/app.go`, the handlers' part in archiving, object storage as used there, `cmd/server/main.go` | `DocumentStore` |
| `Scheduler` | `sources/scheduler.go` | |
| `MemoryStore` | `documents/store.go`: slices of documents and of page slots, copies that readers hold | `Documents` |
| `SQLiteStore` | `documents/sqlite_store.go`: the two tables | `Documents` |
| `Stores` | both stores and the abstract table, given the same calls | `DocumentStore`, `MemoryStore`, `SQLiteStore` |
| `ContentArchive` | what the worker may expect of a source's `ArchiveContent` (abstract) | |
| `HitomiArchive` | `sources/hitomi/handler.go` and the requests of `resolver.go` | `Scheduler` |
| `JmcomicArchive` | `sources/jmcomic/handler.go` and the domains of `resolver.go` | |
| `Queries` | `Query` and `QueryBuilder` of both stores | `Documents` |
| `HttpAccess` | `httpapi/router.go`, `httpapi/middleware.go`: routes, roles, CORS | |
| `ServiceConfig` | `config/config.go`: reading, normalizing, validating storages; what `cmd/server/main.go` makes or refuses to make of them | |
| `GalleryShards`, `ImagePieces` | pure parts of the sources: `ParseGG` and a hash's shard; `segmentationNum` and `rearrangeImage` | |
| `PureParts` | the five modules above as one specification: a step takes an input | those five |
| `DocumentStoreProofs`, `SQLiteStoreProofs`, `ArchiveAppProofs`, `SchedulerProofs`, `PurePartsProofs` | theorems | the modules they are about |
| `ContentProofs` | theorems on both `ArchiveContent` | `HitomiArchive`, `JmcomicArchive`, `SchedulerProofs` |
| `StoresProofs` | theorems on `MemoryStore` and `Stores` | `Stores`, `SQLiteStoreProofs` |
| `ArchiveSafetyProofs` | theorems on the safety properties of `ArchiveApp` | `ArchiveAppProofs` |
| `MCDocumentStore`, `MCArchiveApp`, `MCScheduler`, `MCContent`, `MCFunctions` | instances for TLC | the modules they instantiate |

### Documents and DocumentStore

A document is a record: `identity` (source and source document id), `status`,
`pages` (the filled page slots with their object keys), `done` and `total`
(Progress), `error` (whether Error is set). Create counts `done` itself, and keeps the total
(raised to `done`) and the Error it is given; `ArchiveApp` gives it neither. `docs` is the table, a document's id
its place in it. Both stores make each operation atomic, the memory store by one
mutex, the SQLite store by a transaction on its only connection, so each
operation is one action with the guards of the code (`MayCreate`, `MayAddPage`, ...;
`Live` where being found is all it takes), and an operation that
returns an error changes nothing. `Live` is Get; hidden (deleted, purged)
documents are out of reach of all operations but TransitionTo, Purge and Restore.

### MemoryStore, SQLiteStore and Stores

`MemoryStore` keeps what `MemoryStore` in Go keeps: `idMap`, from id 0, and in each
document the array behind `Pages` and the length in use, with `Blank` where a page is
missing. `append` is modelled with its capacities, since whether it moves the array
decides what a copy handed out by Get goes on sharing: `held` is one such copy. The
constant `Capacity` is what append makes of a length; Go promises only that it
suffices, and so does the assumption. The run takes powers of two, as Go's growth of a small
slice does; the proofs hold for any. `SQLiteStore` keeps the rows of
`documents` and `document_pages`; an operation is a transaction, so it has the guards
of all its statements, and the order in which the statements refuse does not
show. `Stores` gives one call at a time to the three of them (`AllCreate`, `AllDelete`, ...,
each a use of `Together`); a store whose guard refuses
keeps its state, and `agreed` remembers whether all have always answered alike. The operations
of the modules carry the prefixes `M` and `S` (`MAddPage`, `SAddPage`, ...), their
guards too (`MMayAddPage`, `SMayAddPage`, ...).

`Mem` and `Sql` are instances of `DocumentStore` with `docs` computed from the slices
(`MemDocs`, ids moved up by one) and from the rows (`SqlDocs`): `MemImplements` and
`SqlImplements` say that each store is a `StoreSpec`.

### HitomiArchive, JmcomicArchive and ContentArchive

`ContentArchive` is the promise: store, then record, then answer once, without an error only
if all pages are recorded, always with the pages that are; nothing after the answer.

`HitomiArchive` is `ArchiveContent` with its goroutines, composed with `Scheduler`
(whose tasks are the pages): `page` says which call a page's goroutine is in, its
attempts and its buffer.

| Action | Code |
|---|---|
| `AskAgain`, `Resolved`, `ResolveComicFails` | `resolveComicPages` and `FetchGG` |
| `Begin`, `AwaitPermit`, `AwaitCancelled`, `ReturnPermit` | `Scheduler.Do` around `downloadPage`: `acquire` and `finish` |
| `HeadObject`, `Get`, `GetFails`, `Put`, `Record` | the calls of `downloadPage`; an attempt that breaks off leaves its bytes in the buffer |
| `CallCancelled` | any call once the context is cancelled |
| `Collect`, `ReturnPages` | the loop over `results`, the first error, `cancel` |
| `CancelOuter`, `Tick` | the worker's context; time |

`JmcomicArchive` is one page after the other, its client going through the domains
once, unaware of contexts. A chapter is the sequence `ImageKeys` of the object keys of its
images, a page its place there. A PUT may arrive though its answer is lost
(`PutReaches`). Both are shown to implement `ContentArchive` (`HitomiImplements`,
`JmcomicImplements`); `ArchiveApp` has its own, coarser, pages, since it also
lets the table change under them.

### Queries, HttpAccess, ServiceConfig, GalleryShards, ImagePieces, PureParts

Pure functions of their inputs, each beside a definition of what it is for: `Queries`
the two implementations of Query (the memory store's sort by what it puts first, `Precedes`;
the engine's order of equal rows left open, instants as the text `formatTime` writes); `HttpAccess` the answer and the CORS header of a
request; `ServiceConfig` what is read from a file, for each order in which Go may walk
the map of storages, and what main then registers: nothing if the file is refused, and nothing
either, since main exits, for an unknown `document_store` or an s3 with an empty field (`blank`),
which `Load` accepts; `GalleryShards` the mapping read off gg.js against running the
script, whose `o` may get a value in its declaration, in a `default:` clause, in both or in neither; `ImagePieces` the rows of the image put together, and which piece a row is of.
A loop of the code is a recursive function of its turns, local to the operator that
models it. `PureParts` has the sets of inputs as constants (their assumptions are types and
nothing else), takes one input in one step, and states the five properties; `MCFunctions`
gives TLC small sets.

### ArchiveApp

It extends `DocumentStore` and adds the object storage (`objects`, `manifests`),
the storages of the running process (`registered`), `stopping` (the worker's
context is cancelled), the worker `w` (a program counter, the batch, the document
in hand, the edition resolved, a state for each page's task, the manifest's
snapshot), and, for each client, the half-done `mode=all` refresh (`pending`).

| Action | Code |
|---|---|
| `RequestDocument`, `RemoveDocument`, `RefreshMetadata`, `RestoreDocument` | one store call each |
| `RefreshAll`, `RefreshAllReset` | the two store calls of `mode=all` |
| `ListDeleted`, `SweepNext`, `DeletePrefix`, `DeletePrefixFails`, `PurgeDocument`, `EndSweep` | `processDeleted` |
| `ListQueued`, `TakeDocument`, `EndBatch` | `processQueued` and the Get that begins `processDocument` |
| `BeginDocument` ... `ArchiveDocument` | `processDocument`, one action per call |
| `PageHead`, `PagePut`, `PageRecord`, `PageFails`, `PageAborted` | `downloadPage` and `onPageDownloaded`, per page, concurrently |
| `FailDocument`, `MarkFailed` | the two store calls of `failDocument` |
| `Shutdown`, `Exit`, `Kill`, `Restart` | signals, the end of `main`, a new process on the same table and objects |

One step is one call. Any call to a source or a storage may fail; a PUT whose
answer is lost has written its object all the same (`PageFails`,
`ManifestFails`), and a DeletePrefix may fail after some objects are gone. Once
the context is cancelled the worker's calls fail. `swept` and `torn` are history
variables: the documents that a sweep has taken objects from with no purge since, and those
that `mode=all` reset after the worker had compared their progress. They name the
two known races (below), so that the invariants can be stated of everything else.

Left out of the data: titles, raw metadata, page sizes, ETags (an ETag mismatch
is one of the reasons for `PageFails`), timestamps. Left out of the behaviour: I/O
errors of the table itself, the volatility of memory object storage, the reading
side of the API.

### Scheduler

One step is one critical section, one answer of the source, or a wake-up. The
channel `changed` that `signalLocked` closes is the set `woken` of tasks whose
captured channel has been closed: capture and check are one critical section, as in
`acquire`. Time passes in units of the initial backoff; a sleeping task has its
own timer, which it set from the `blockedUntil` it read. `permit` is the
generation of a task's permit.

## Runs

| Run | Instance | Shows |
|---|---|---|
| `store` | all three tables together: one document with 3 page slots and a reader, or two with 2 slots; 1 key; `Create` and `UpdateMeta` set total 2, Error empty | `DoneCountsPages`, `IdentityUnique`, `PurgedIsEmpty`, `IdsPermanent`, `HiddenFrozen`, `SnapshotsKeepPages`, `StoresAgree`, and the refinements `MemImplements`, `SqlImplements` |
| `app_safety` | 1 document, 3 editions of 1-2 pages (one with changed content), 2 clients, 5 client operations, 1 signal or kill, restart with either of 2 storages | `PagesBacked`, `PurgedLeavesNothing`, `WorkOwned`, `ErrorTells`, `ArchivedComplete`, `ManifestMatches`, `SweepSpares`, and `StoreSpec` as the abstract specification |
| `app_live` | 2 documents in batches of 2, 1 page, 4 client operations, 1 stop | `QueuedIsTaken`, `BegunEndsWhileUp`, `DeletedIsSwept` |
| `scheduler` | 3 tasks, limit 2 of at most 3, backoffs 1, 2, 3, delays asked for beyond the cap, 2 attempts | `WindowOpen`, `CurrentWithinLimit`, `BlockedQuiet`, `NoLostWakeup`, `OncePerGeneration`, `EveryDoReturns` |
| `content` | 2 pages with one hash; limit 1 of at most 2, 2 attempts per request and per task; 2 domains; cancellation at any point | `FirstErrorIsCause`, `RecordedIsFinal`, `ArchiveContentReturns`, and the refinements `HitomiImplements`, `JmcomicImplements` |
| `torn_body` | the same instance | a finding |
| `functions` | one input per behaviour, of the sets in `MCFunctions` | `QueriesAgree`, `AccessAsConfigured`, `ConfigMeansOneThing`, `ShardAsScript`, `RowsRearranged` |
| `restore_race`, `refresh_race`, `album`, `shutdown`, `sweep_starves` | small instances of `ArchiveApp` | the findings below |

Why the bounds are enough. The worker handles one document at a time and
documents share neither objects nor rows, so safety needs one document and the
longest history of it: request, delete, restore, delete, refresh fit in five
operations, and two clients are what a half-done refresh needs to overlap with
another. A stop and a restart fit in one `MaxStops`; a second one adds nothing
but a repetition, since a restart starts the worker from scratch. Two pages are what it takes for one to fail while
the other is written. Several documents matter to the queue and the sweep, and are
in `app_live` and `sweep_starves`. `MaxOps` and `MaxStops` are the only bounds on
behaviour; `Batch` takes the batch size (5 in the code) as a parameter, 1 or 2 in
the runs, so that a batch can be full. The scheduler run disables the deadlock
check: all tasks having returned is its normal end; so do `content` (ArchiveContent has
returned) and `functions` (the input has been taken).

In `store`, three slots are what a page slice needs for a gap with pages on both sides
and for `append` to grow both in place and by moving; a second document brings in
identities, ids one apart and rows of another document, and with it the third slot and the
reader are left out (constraint `OneWithReaderOrTwo`); a second key would only rename
pages. Total 2 set by `Create` and `UpdateMeta`, and the 0 that `Purge` leaves, give a total below, at
and above the `Done` of 0 to 3 that Create and AddPage compare it with. Identities are symmetric. In `content`, the
pages share a hash so that one finds the other's object half-way; two pages are enough
for one to fail while the other is at any of its calls, and the scheduler by itself is
checked with three tasks. In `functions`, tables have three rows (an offset, a limit and one row between),
files two storages, chapters lie on both sides of each threshold, and images have
from one row to 45, which is more than twice the largest number of pieces.

Fairness (`app_live`, `shutdown`, `sweep_starves`). Weak fairness of the
worker's steps: the Go scheduler runs it, and each call ends. Of calls to the sources the
code sees to that (the clients have timeouts of 20 and 10 seconds); of calls to the object
storage it does not: the S3 client has no timeout (`s3_storage.go:54`) and the worker's context
no deadline. There it is an assumption on the storage, that it answers or breaks the connection
off; against one that does neither no liveness below holds, here or in `content`. Strong fairness of the two tickers: a tick waits in its channel, and
`select` picks among ready cases at random. Strong fairness of `DeletePrefix` of
each document: a deletion that is tried again and again succeeds in the end.
Weak fairness of `Exit` and `Restart`: main returns once told to stop, and
whatever runs the service starts it again. Nothing is assumed of clients, sources,
failures or signals. In the scheduler: goroutines run, requests end, time passes. In `content`: weak
fairness of each page's goroutine (`Queueing`, `Serving`), of the collector, of the
request for addresses, of time and of jmcomic's loop; the number of attempts is
bounded in the code, so a source that refuses for ever still lets a page end.

## Findings

Each is a run that TLC refutes; `PROJECT.json` quotes the text it disagrees with.

1. `restore_race`: the sweep acts on a stale list, so a restore just before
   DeletePrefix (or after one that failed half-way) leads to an archived document
   whose page objects are gone (`app.go:264`).
2. `refresh_race`: `mode=all` queues the document before it resets its pages; the
   worker can archive it in between, and it ends archived without pages
   (`app.go:196`).
3. `album`: jmcomic saves the album's JSON as SourceMeta, ArchiveContent reads a
   photo from it, finds no image, and the document is archived empty
   (`jmcomic/handler.go:92`).
4. `shutdown`: after SIGTERM the failure is recorded under the context that was
   just cancelled, hence not at all; the document stays resolving or downloading
   (`app.go:392`).
5. `sweep_starves`: a full batch of documents that cannot be purged keeps the rest
   from being tried (`app.go:279`).
6. `torn_body`: a page's buffer is not emptied between two attempts at its download, so
   that a transfer that broke off is stored in front of the one that succeeded, under
   the hash of the page (`hitomi/resolver.go:158`). The object's ETag is set from the
   hash, so that later runs take it for the page.

Seen while reading, not run as findings:

* `only_metadata` does reset the pages when the source has grown; a source that shrinks
  leaves Done above Total.
* The stores order documents by time alike only if instants of one second are written
  with equally many digits: as text, `.1Z` comes after `.15Z`. `QueriesAgree` has that
  condition (`SameLengthInSecond`); without it TLC refutes it.
* The memory store's Get shares its page slice with later writers. `SnapshotsKeepPages` shows
  that no page moves under a reader; reading while one is written is a data race all the same.
* `ParseGG` takes the last of two groups with one label where the script takes the first;
  `ShardAsScript` asks for distinct labels.
* For a number that no label names, `ParseGG` takes the first value its pattern finds, that of
  `var o =` before that of `default:` (`resolver.go:294`), where the script ends with the default
  clause's; with neither it takes 0, where the script leaves `o` undefined. `ShardAsScript` says
  that these are the only numbers read differently, and that they are read so.
* `Load` accepts an s3 whose bucket, region or keys are empty (`config_test.go:202-207` loads one) and
  any `document_store`; `main` then exits. `ConfigMeansOneThing` tells the two kinds of files apart
  (`Startable`).
* hitomi numbers pages before it sorts them by name, so they are recorded in the order
  of the gallery's files.
* A jmcomic answer whose data is null becomes an empty album or chapter.
* The limit of a query also sizes the slice of its result.

## Proofs

All proofs hold for any values of the constants that the named assumptions allow:
`PageNumbers`, `ErrorsAreFlags` (types), `BlankIsNoKey` (the zero Page has no key),
`CapacitySuffices` (append makes room), `AppAssumption` (editions numbered from 0 whose
size is an announced total), `SchedulerAssumption` (initial concurrency and backoff
within their maxima), `TriesPositive` (one attempt or more), and for the pure parts the types of
their inputs: `QueriesAssumption` (a table is a sequence of rows with instants, offset and limit
are integers), `AccessAssumption` (tokens, permissions and handlers; `absent` is no token),
`FilesAssumption`, `ScriptsAssumption`, `ImagesAssumption`. Every safety invariant,
action property and refinement that the passing runs check is a theorem. The largest inductive invariant, `SafeInv`, was checked by TLC on two instances
before it was proved.

* **Store** (`DocumentStoreProofs`). The invariant `TableOK`, equivalent to
  `StoreInv`, is inductive as it stands once it is put row by row: `RowOK` says of a
  row that it is well typed, counts its pages and is empty if purged. Lemmas show
  that each operation's effect on a document (`WithPage`, `WithoutPage`,
  `Emptied`, ...) keeps `RowOK` and the identity, `StepRewrites` that each operation
  rewrites one row that way, and `Rewrite` and `AppendRow` lift that to the table.
  `StoreIdsPermanent` and `StoreHiddenFrozen` follow from the same step lemma.
* **SQLite store** (`SQLiteStoreProofs`). `SqlImplementsStore`: the two tables implement
  `documents.Store`. The map of pages that `listPagesTx` builds is characterised once
  (`CharacterisePages`: a function that has each row's key at its index, and nothing else, is that
  map), inserting and deleting rows are uses of that, and `Operation` lifts a changed row to
  the table. The inductive invariant `SqlInv` is the schema's: a page row belongs to a
  document, and a document has one row for a page; without the latter neither the
  map nor the effect of a deletion would be determined.
* **Memory store** (first part of `StoresProofs`). `MemImplementsStore`, `MemSliceShape` and
  `MemSnapshots`, for any capacities. `MemInv` says of a row that its slice ends with a page and is
  blank beyond its end (`SliceOK`; without it growing in place would show a removed page again) and
  that Done counts its filled slots, and of a reader's copy that it shows, as far as it reaches,
  what is in the array it shares (`HeldOK`). One lemma per operation gives the invariant, the
  operation of the table and what the reader may see of it (`Gentle`). Where
  `removePageLocked` stops cutting is the least length that holds the pages left; that there is one
  is the least element of a set of naturals (`LeastNatural`, from the well-foundedness of `<`).
* **Both stores** (second part of `StoresProofs`). `StoresNeverDiffer`: whatever the calls, the two
  accept the same of them and show the same documents. The invariant `Agreeing` is `MemInv`, `SqlInv`
  and both views equal to the table. From it each guard is the same in all three (`SameView`: ids
  one apart, the same status, progress and free slots), and an accepted call is the table's
  operation in both by the lemmas of the two refinements; since the table's operations
  determine the next table, the views stay equal.
* **Application, table** (`ArchiveAppProofs`). `AppImplementsStore` is the refinement: every
  step of the service is a step of `StoreSpec` or leaves the table alone. It needs
  to know that the worker's memory is of use, which is `AppInv`: at a step with
  a document in hand that document is in the table, metadata is saved from an
  edition of the source, tasks are pages of that edition. `AppInv` is inductive
  together with the store's invariant, which also gives `AppTyped`. Everything
  proved of the store then holds of the service (`AppStoreInvariant`, `AppHiddenFrozen`,
  `AppIdsPermanent`).
* **Application, safety** (`ArchiveSafetyProofs`). `AppPagesBacked`, `AppPurgedLeavesNothing`, `AppWorkOwned`,
  `AppErrorTells`, `AppArchivedComplete`, `AppManifestMatches` and `AppSweepSpares`, from one invariant
  `SafeInv`, since none of them is inductive alone. `DocOK` is what they say of one document.
  `HandOK` is what the worker may rely on, at each step, about the document in hand while clients
  delete, restore and reset that very document: having been listed as queued or deleted, it
  can only have been moved between those two (`Listed`), and once begun to them or
  onwards by the worker itself (`Kept`); so it is never purged or archived behind the worker's back, which is
  why the sweep spares archived documents and why nothing is written for a purged one. Where no
  client has interfered, `ProgressOK` carries what was announced, recorded and put in the
  manifest from one step to the next. `ListOK` is the same of the documents listed and not yet
  taken. The races that `swept` and `torn` name are exactly where the conjuncts stop.
* **Scheduler** (`SchedulerProofs`). All its safety properties, for any number of
  tasks. They are inductive with two additions: no permit is of a generation to
  come (`PermitsPast`, which makes a new generation start with no permit out) and a permit
  of the current generation was granted since the last rate limit
  (`CurrentFresh`, which `OncePerGeneration` needs).
* **hitomi's ArchiveContent** (first part of `ContentProofs`). `HitomiUsesScheduler`: every step is a
  step of the scheduler or leaves it alone, so the scheduler's theorems hold within it.
  `HitomiImplementsContent`: it implements `ContentArchive`. The invariant `HInv` says for each
  page how the call its goroutine is in goes with the state of its task (`PageOK`: a page is
  recorded exactly when its step is `ok`, a page about to be recorded has its object), and
  for the collector that it has heard of no failure while there is no first error, and of
  all tasks when it answers (`CollectOK`); without the last a page could still be stored
  behind the answer. `HitomiFirstError` and `HitomiRecordedIsFinal` follow from it.
* **jmcomic's ArchiveContent** (second part of `ContentProofs`). `JmcomicImplementsContent`, for any chapter
  (`Chapter`: a finite sequence of keys, equal ones included, or none at all) and any domains. The invariant `JInv`: the
  pages recorded are exactly those before the one in hand, whose object is stored once the loop is
  about to record it.
* **Pure parts** (`PurePartsProofs`): tables, files, scripts and images of any size. Library
  theorems on induction take an operator as parameter, which the provers cannot instantiate.
  So a loop is handled by the least element of a set of naturals: `LoopExists` shows that
  a recursive function on the turns is what its recursion says, `EachTurn` that a *set* of turns
  closed under the next one holds them all.
  * `PartsConfig`: after every turn, `normalize` holds what `Collected` says of the entries
    walked so far, and that definition knows no order; so each order in which Go may walk the map
    gives one configuration (`NormalizeLoop`, `NormalizeOK`, `CollectedOK`), and its storages are
    the file's (`FileOK`); main registers all of them or exits, by whether the file is `Startable`.
  * `PartsShard`: the mapping that ParseGG has built and the value that the script has assigned
    agree after every statement (`MapGroupsLoop`, `MapIfsLoop`, `RunScriptLoop`), on the
    condition of the property that labels are distinct; a number that no label or `if` names gets
    the first of the declaration's and the default clause's values from the one, the last from the
    other (`SwitchedOK`, `OtherwiseOK`, `ShardOK`).
  * `PartsRows`: from the laws of division (`Division`, `Quotient`), each row of the result is
    drawn by one piece (`RowsCovered`, `RowsInOrder`), each row of the image is drawn
    (`EveryRowShown`) and comes from the piece that the property counts from the top
    (`RowShown`); so no piece covers another and none of the loop's order shows (`RearrangeOK`).
  * `PartsQueriesAgree`: a strict total order has a sorted sequence (`LastExists`, `SortExists`), `Precedes`
    is such an order, and texts of equal length are ordered as their instants (`TextOrder`); the
    memory store's window of that sequence is then one that SQL's offset and limit allow
    (`WindowsAgree`).
  * `PartsAccess`: what a role reaches through the permissions the routes require is what
    they are said to open (`OpensRequired`, `ReachOK`), and `matchOrigin` finds an allowed origin
    wherever it stands in the list (`MatchOriginOK`).

Only model-checked is all liveness (`QueuedIsTaken`, `BegunEndsWhileUp`, `DeletedIsSwept`,
`EveryDoReturns`, `ArchiveContentReturns`): the prover does not handle fairness. The findings
are TLC's counterexamples.

## Not modelled

The JSON of galleries, albums, chapters, requests and answers; names and their natural
sort; jmcomic's tokens and decryption, whose only outcomes are an answer or an error; the codecs of
images; S3's signing, listing by pages and presigned URLs; log levels, addresses and
intervals of the configuration; the YAML merge tool and the error wrapper. I/O errors
of the tables: an operation is refused, cancelled or done. The volatility of memory object
storage under a table that survives a restart, which is how the default configuration and
`config.demo.yml` pair them: a restart loses every object and keeps every record, so that all pages of all
archived documents point at nothing, with no interleaving to explore; `Restart` keeps the
objects, as S3 does, and what is said here of restarts is said of such a storage. GetPage,
GetDocument and QueryDocument change no state; what a reader's copy shows is in `MemoryStore`,
what a query answers in `Queries`.

## Plan

1. Done: all the modules above, and proofs of every safety invariant, action property and
   refinement that the runs check.
2. `Lifecycle`, the abstract promise to a client about one document (requested, archived
   complete, hidden, gone), and `ArchiveApp` shown to implement it outside the two races;
   `SafeInv` is what that proof needs.
3. The download phase of `ArchiveApp` shown to be a `ContentArchive` as long as the table
   lets its pages be recorded.
