------------------------------ MODULE ArchiveApp ------------------------------
(* The archive service around the document table: HTTP handlers that request, *)
(* delete, refresh and restore documents; the one worker goroutine that       *)
(* archives queued documents and sweeps deleted ones; the object store; and   *)
(* the process, which may be told to stop, be killed, and be started again    *)
(* on the same table and objects.                                             *)
(*                                                                            *)
(* One step is one call to the store, the object store or the source.  Once   *)
(* the context is cancelled, the worker's next call fails: a call that was    *)
(* under way then counts as having taken effect before the cancellation,      *)
(* which nobody but the worker observes.                                      *)
EXTENDS DocumentStore

CONSTANTS
    Clients,      \* HTTP requests that can be in progress together
    Storages,     \* names of object storages
    StorageOf,    \* the storage each identity is requested on
    Albums,       \* identities whose source is jmcomic
    Editions,     \* the page maps that a source may answer a resolve with
    Configs,      \* the sets of storages a start of the process may register
    Modes,        \* refresh modes that clients use
    BatchSize,    \* deletedPurgeBatchSize, and the limit of the queued query
    SweepTicks,   \* whether deletedSweep > 0
    MaxOps,       \* bound: operations that clients perform
    Signals,      \* the signals that may end the process: "term", "kill"
    MaxStops      \* bound: times the process is killed or told to stop

ASSUME AppAssumption ==
    /\ StorageOf \in [Identities -> Storages]
    /\ Albums \subseteq Identities
    /\ Editions \subseteq PageMap
    /\ \A e \in Editions : Contiguous(e) /\ Cardinality(DOMAIN e) \in Totals
    /\ Configs \subseteq SUBSET Storages
    /\ Modes \subseteq {"only_metadata", "all", "restore"}
    /\ BatchSize \in Nat \ {0}
    /\ SweepTicks \in BOOLEAN
    /\ Signals \subseteq {"term", "kill"}
    /\ MaxOps \in Nat /\ MaxStops \in Nat

VARIABLES
    objects,      \* page objects in the storages: <<id, key>>
    manifests,    \* manifest.json of each document that has one: its pages
    registered,   \* storages registered with the running process
    stopping,     \* the worker's context is cancelled
    w,            \* the worker goroutine
    pending,      \* per request: the document whose ResetPages is still to come
    ops, stops,   \* what the bounds count
    swept,        \* history: ids with objects deleted and no purge since
    torn          \* history: ids that mode=all reset after the worker had
                  \* compared their progress

env     == <<registered, stopping, stops>>
storage == <<objects, manifests>>
history == <<swept, torn>>
vars    == <<docs, w, pending, ops, env, storage, history>>

Steps == {"down", "idle", "sweep", "sweepNext", "deletePrefix", "purge",
          "next", "begin", "resolve", "meta", "reset", "start", "download",
          "snapshot", "manifest", "archive", "fail", "markFailed"}

TaskStates == {"head", "put", "record", "done", "failed"}

NoTasks == [p \in {} |-> "head"]

\* The worker with nothing in hand, at the given step.
Fresh(pc) == [pc |-> pc, batch |-> {}, cur |-> 0, full |-> FALSE, purged |-> FALSE,
              edition |-> NoPages, task |-> NoTasks, snap |-> NoPages]

Up      == w.pc # "down"
At(pc)  == w.pc = pc
Go(pc)  == w' = [w EXCEPT !.pc = pc]
Cur     == docs[w.cur]

\* The worker is done with the current document of its batch.
NextDocument == w' = [Fresh("next") EXCEPT !.batch = w.batch]

\* The first ids of a Query by status, in the order of ids.
Batch(status) ==
    LET found == {id \in DOMAIN docs : docs[id].status = status}
    IN  {id \in found : Cardinality({j \in found : j < id}) < BatchSize}

IsNext(id) == id \in w.batch /\ \A j \in w.batch : id <= j

StorageKnown(id) == StorageOf[docs[id].identity] \in registered

ObjectsOf(id) == {o \in objects : o[1] = id}

AppInit ==
    /\ StoreInit
    /\ objects = {}
    /\ manifests = NoPages
    /\ registered \in Configs
    /\ stopping = FALSE
    /\ w = Fresh("sweep")
    /\ pending = [c \in Clients |-> 0]
    /\ ops = 0 /\ stops = 0
    /\ swept = {} /\ torn = {}
-----------------------------------------------------------------------------
(* HTTP handlers.  They keep being served while the process is stopping.     *)

ClientStep ==
    /\ Up
    /\ ops < MaxOps
    /\ ops' = ops + 1
    /\ UNCHANGED <<w, env, storage, history>>

RequestDocument(identity) ==
    /\ ClientStep
    /\ StorageOf[identity] \in registered
    /\ Create(identity, NoPages, 0, FALSE)
    /\ UNCHANGED pending

RemoveDocument(id) == ClientStep /\ Delete(id) /\ UNCHANGED pending

RefreshMetadata(id) ==
    /\ ClientStep
    /\ "only_metadata" \in Modes
    /\ TransitionTo(id, "queued")
    /\ UNCHANGED pending

\* mode=all is two store calls: the document is queued first, reset second.
RefreshAll(c, id) ==
    /\ ClientStep
    /\ "all" \in Modes
    /\ pending[c] = 0
    /\ TransitionTo(id, "queued")
    /\ pending' = [pending EXCEPT ![c] = id]

RefreshAllReset(c) ==
    /\ Up
    /\ pending[c] # 0
    /\ pending' = [pending EXCEPT ![c] = 0]
    /\ \/ /\ ResetPages(pending[c])
          /\ torn' = IF docs[pending[c]].status = "queued" THEN torn
                     ELSE torn \cup {pending[c]}
       \/ UNCHANGED <<docs, torn>>   \* hidden by now, or the client has gone away
    /\ UNCHANGED <<w, ops, env, storage, swept>>

RestoreDocument(id) ==
    /\ ClientStep
    /\ "restore" \in Modes
    /\ Restore(id)
    /\ UNCHANGED pending

Client ==
    \/ \E identity \in Identities : RequestDocument(identity)
    \/ \E id \in DOMAIN docs : \/ RemoveDocument(id)
                               \/ RefreshMetadata(id)
                               \/ RestoreDocument(id)
                               \/ \E c \in Clients : RefreshAll(c, id)
    \/ \E c \in Clients : RefreshAllReset(c)
-----------------------------------------------------------------------------
(* processDeleted: sweep the objects of deleted documents, then purge them.  *)

WorkerStep == UNCHANGED <<pending, ops, env>>

ListFailedToo ==  \* mutant: the sweep also lists failed documents
    /\ At("sweep")
    /\ w' = [Fresh("sweepNext") EXCEPT !.batch = Batch("deleted") \cup Batch("failed")]
    /\ UNCHANGED <<docs, storage, history>>
    /\ WorkerStep

\* At the start of RunWorker, and again while full batches make progress.
ListDeleted ==
    /\ At("sweep")
    /\ IF stopping \/ Batch("deleted") = {}
       THEN w' = Fresh("idle")
       ELSE w' = [Fresh("sweepNext") EXCEPT
                    !.batch = Batch("deleted"),
                    !.full  = Cardinality(Batch("deleted")) = BatchSize]
    /\ UNCHANGED <<docs, storage, history>>
    /\ WorkerStep

SweepNext ==
    /\ At("sweepNext")
    /\ \E id \in w.batch :
        /\ IsNext(id)
        /\ w' = [w EXCEPT !.batch = @ \ {id}, !.cur = id,
                           !.pc = IF StorageKnown(id) THEN "deletePrefix" ELSE "sweepNext"]
    /\ UNCHANGED <<docs, storage, history>>
    /\ WorkerStep

\* What DeletePrefix leaves when it is done with the first keys of the prefix:
\* the manifest's key comes before those of the pages.
Remove(removed) ==
    /\ objects' = objects \ removed
    /\ manifests' = [id \in DOMAIN manifests \ {w.cur} |-> manifests[id]]
    /\ swept' = swept \cup {w.cur}
    /\ UNCHANGED torn

DeletePrefixMissing ==  \* mutant: having nothing to delete counts as a failure
    /\ At("deletePrefix")
    /\ ~stopping
    /\ Remove(ObjectsOf(w.cur))
    /\ Go(IF ObjectsOf(w.cur) = {} THEN "sweepNext" ELSE "purge")
    /\ UNCHANGED docs
    /\ WorkerStep

DeletePrefix ==
    /\ At("deletePrefix")
    /\ ~stopping
    /\ Remove(ObjectsOf(w.cur))
    /\ Go("purge")
    /\ UNCHANGED docs
    /\ WorkerStep

DeletePrefixIgnored ==  \* mutant: the error of DeletePrefix is ignored
    /\ At("deletePrefix")
    /\ Go("purge")
    /\ UNCHANGED <<docs, storage, history>>
    /\ WorkerStep

\* The document stays deleted, and is left to a later sweep.
DeletePrefixFails ==
    /\ At("deletePrefix")
    /\ \/ UNCHANGED <<storage, history>>
       \/ ~stopping /\ \E removed \in SUBSET ObjectsOf(w.cur) : Remove(removed)
    /\ Go("sweepNext")
    /\ UNCHANGED docs
    /\ WorkerStep

\* Purge is refused when the document has been restored since it was listed.
PurgeDocument ==
    /\ At("purge")
    /\ \/ /\ ~stopping
          /\ Purge(w.cur)
          /\ w' = [w EXCEPT !.pc = "sweepNext", !.purged = TRUE]
          /\ swept' = swept \ {w.cur}
       \/ /\ stopping \/ ~MayPurge(w.cur)
          /\ Go("sweepNext")
          /\ UNCHANGED <<docs, swept>>
    /\ UNCHANGED <<storage, torn>>
    /\ WorkerStep

EndSweep ==
    /\ At("sweepNext")
    /\ w.batch = {}
    /\ w' = Fresh(IF w.full /\ w.purged THEN "sweep" ELSE "idle")
    /\ UNCHANGED <<docs, storage, history>>
    /\ WorkerStep

Sweep ==
    ListDeleted \/ SweepNext \/ DeletePrefix \/ DeletePrefixFails \/ PurgeDocument \/ EndSweep

\* The deleted ticker.
SweepTick ==
    /\ At("idle") /\ ~stopping /\ SweepTicks
    /\ w' = Fresh("sweep")
    /\ UNCHANGED <<docs, storage, history>>
    /\ WorkerStep
-----------------------------------------------------------------------------
(* processQueued and processDocument.                                        *)

ListFullBatch ==  \* mutant: the worker waits until a batch is full
    /\ At("idle") /\ ~stopping
    /\ Cardinality(Batch("queued")) = BatchSize
    /\ w' = [Fresh("next") EXCEPT !.batch = Batch("queued")]
    /\ UNCHANGED <<docs, storage, history>>
    /\ WorkerStep

\* The queued ticker, when there is something to do.
ListQueued ==
    /\ At("idle") /\ ~stopping
    /\ Batch("queued") # {}
    /\ w' = [Fresh("next") EXCEPT !.batch = Batch("queued")]
    /\ UNCHANGED <<docs, storage, history>>
    /\ WorkerStep

\* Get: a document deleted since it was listed is skipped.
TakeDocument ==
    /\ At("next")
    /\ \E id \in w.batch :
        /\ IsNext(id)
        /\ w' = [Fresh(IF Live(id) /\ ~stopping THEN "begin" ELSE "next") EXCEPT
                    !.batch = w.batch \ {id},
                    !.cur = IF Live(id) /\ ~stopping THEN id ELSE 0]
    /\ UNCHANGED <<docs, storage, history>>
    /\ WorkerStep

EndBatch ==
    /\ At("next")
    /\ w.batch = {}
    /\ w' = Fresh("idle")
    /\ UNCHANGED <<docs, storage, history>>
    /\ WorkerStep

\* A TransitionTo of the worker, and where it goes from there.
Advance(status, pc) ==
    /\ ~stopping
    /\ TransitionTo(w.cur, status)
    /\ Go(pc)

Refused(status) ==
    /\ stopping \/ ~MayTransition(w.cur, status)
    /\ Go("fail")
    /\ UNCHANGED docs

BeginDocument ==
    /\ At("begin")
    /\ \/ StorageKnown(w.cur) /\ Advance("resolving", "resolve")
       \/ StorageKnown(w.cur) /\ Refused("resolving")
       \/ ~StorageKnown(w.cur) /\ Go("fail") /\ UNCHANGED docs
    /\ UNCHANGED <<storage, history>>
    /\ WorkerStep

ResolveDocument ==
    /\ At("resolve")
    /\ ~stopping
    /\ \E e \in Editions : w' = [w EXCEPT !.pc = "meta", !.edition = e]
    /\ UNCHANGED <<docs, storage, history>>
    /\ WorkerStep

ResolveSkips ==  \* mutant: failDocument is not called
    /\ At("resolve")
    /\ NextDocument
    /\ UNCHANGED <<docs, storage, history>>
    /\ WorkerStep

ResolveFails ==
    /\ At("resolve")
    /\ Go("fail")
    /\ UNCHANGED <<docs, storage, history>>
    /\ WorkerStep

SaveKeepsError ==  \* mutant: Error is not cleared
    /\ At("meta")
    /\ ~stopping
    /\ LET total == Cardinality(DOMAIN w.edition)
       IN  /\ UpdateMeta(w.cur, total, Cur.error)
           /\ Go(IF Cur.done < total THEN "reset" ELSE "snapshot")
    /\ torn' = torn \ {w.cur}
    /\ UNCHANGED <<storage, swept>>
    /\ WorkerStep

SaveProgress ==  \* mutant: the callback sets Progress as a whole
    /\ At("meta")
    /\ ~stopping /\ Live(w.cur)
    /\ LET total == Cardinality(DOMAIN w.edition)
       IN  /\ Write(w.cur, [Cur EXCEPT !.total = total, !.done = 0, !.error = FALSE])
           /\ Go(IF Cur.done < total THEN "reset" ELSE "snapshot")
    /\ torn' = torn \ {w.cur}
    /\ UNCHANGED <<storage, swept>>
    /\ WorkerStep

\* UpdateMeta returns the document it wrote, and the worker compares progress
\* there: only a document short of pages is downloaded.
SaveMetadata ==
    /\ At("meta")
    /\ \/ /\ ~stopping
          /\ LET total == Cardinality(DOMAIN w.edition)
             IN  /\ UpdateMeta(w.cur, total, FALSE)
                 /\ Go(IF Cur.done < total THEN "reset" ELSE "snapshot")
          /\ torn' = torn \ {w.cur}
       \/ (stopping \/ ~Live(w.cur)) /\ Go("fail") /\ UNCHANGED <<docs, torn>>
    /\ UNCHANGED <<storage, swept>>
    /\ WorkerStep

ResetDocument ==
    /\ At("reset")
    /\ \/ ~stopping /\ ResetPages(w.cur) /\ Go("start")
       \/ (stopping \/ ~Live(w.cur)) /\ Go("fail") /\ UNCHANGED docs
    /\ UNCHANGED <<storage, history>>
    /\ WorkerStep

ContentPagesFixed == Indexes  \* mutant: as many pages as an earlier edition had

\* ArchiveContent reads its pages from the saved SourceMeta.  For jmcomic that
\* is the album's JSON, which lists no images: there is nothing to archive.
ContentPages == IF Cur.identity \in Albums THEN {} ELSE DOMAIN w.edition

StartDownload ==
    /\ At("start")
    /\ \/ /\ ~stopping
          /\ TransitionTo(w.cur, "downloading")
          /\ w' = [w EXCEPT !.pc = "download", !.task = [p \in ContentPages |-> "head"]]
       \/ Refused("downloading")
    /\ UNCHANGED <<storage, history>>
    /\ WorkerStep

TaskAt(p, state) == At("download") /\ p \in DOMAIN w.task /\ w.task[p] = state
Task(p, state)   == w' = [w EXCEPT !.task[p] = state]

Object(p) == <<w.cur, w.edition[p]>>

\* HEAD: an object written before, by this or an earlier run, is used again.
PageHead(p) ==
    /\ TaskAt(p, "head")
    /\ ~stopping
    /\ Task(p, IF Object(p) \in objects THEN "record" ELSE "put")
    /\ UNCHANGED <<docs, storage, history>>
    /\ WorkerStep

PagePutUnchecked(p) ==  \* mutant: the error of PutObject is ignored
    /\ TaskAt(p, "put")
    /\ Task(p, "record")
    /\ UNCHANGED <<docs, storage, history>>
    /\ WorkerStep

\* Download, then PUT: the object is there before the page is recorded.
PagePut(p) ==
    /\ TaskAt(p, "put")
    /\ ~stopping
    /\ objects' = objects \cup {Object(p)}
    /\ Task(p, "record")
    /\ UNCHANGED <<docs, manifests, history>>
    /\ WorkerStep

\* onPageDownloaded; fails for a document hidden or already given that page.
PageRecord(p) ==
    /\ TaskAt(p, "record")
    /\ \/ ~stopping /\ AddPage(w.cur, p, w.edition[p]) /\ Task(p, "done")
       \/ (stopping \/ ~MayAddPage(w.cur, p)) /\ Task(p, "failed") /\ UNCHANGED docs
    /\ UNCHANGED <<storage, history>>
    /\ WorkerStep

\* A source or storage error, or the context that the first error cancelled.
\* A PUT whose answer is lost has written its object all the same.
PageFails(p) ==
    /\ \/ TaskAt(p, "head") /\ UNCHANGED objects
       \/ /\ TaskAt(p, "put")
          /\ UNCHANGED objects \/ (~stopping /\ objects' = objects \cup {Object(p)})
    /\ Task(p, "failed")
    /\ UNCHANGED <<docs, manifests, history>>
    /\ WorkerStep

PageAborted(p) ==
    /\ TaskAt(p, "record")
    /\ \E q \in DOMAIN w.task : w.task[q] = "failed"
    /\ Task(p, "failed")
    /\ UNCHANGED <<docs, storage, history>>
    /\ WorkerStep

\* ArchiveContent fails before its first page: unreadable metadata, no answer.
ContentFails ==
    /\ At("download")
    /\ \A p \in DOMAIN w.task : w.task[p] = "head"
    /\ Go("fail")
    /\ UNCHANGED <<docs, storage, history>>
    /\ WorkerStep

DownloadIgnores ==  \* mutant: the first error is not returned
    /\ At("download")
    /\ \A p \in DOMAIN w.task : w.task[p] \in {"done", "failed"}
    /\ Go("snapshot")
    /\ UNCHANGED <<docs, storage, history>>
    /\ WorkerStep

\* ArchiveContent waits for every page, and fails if one failed.
DownloadReturns ==
    /\ At("download")
    /\ \A p \in DOMAIN w.task : w.task[p] \in {"done", "failed"}
    /\ Go(IF \E p \in DOMAIN w.task : w.task[p] = "failed" THEN "fail" ELSE "snapshot")
    /\ UNCHANGED <<docs, storage, history>>
    /\ WorkerStep

Download ==
    \/ \E p \in DOMAIN w.task :
          PageHead(p) \/ PagePut(p) \/ PageRecord(p) \/ PageFails(p) \/ PageAborted(p)
    \/ ContentFails \/ DownloadReturns

SnapshotOfSource ==  \* mutant: the manifest is made of what was resolved
    /\ At("snapshot")
    /\ ~stopping /\ Live(w.cur)
    /\ w' = [w EXCEPT !.pc = "manifest", !.snap = w.edition]
    /\ UNCHANGED <<docs, storage, history>>
    /\ WorkerStep

\* The document that ArchiveManifest writes is read before it is archived.
TakeSnapshot ==
    /\ At("snapshot")
    /\ \/ ~stopping /\ Live(w.cur) /\ w' = [w EXCEPT !.pc = "manifest", !.snap = Cur.pages]
       \/ (stopping \/ ~Live(w.cur)) /\ Go("fail")
    /\ UNCHANGED <<docs, storage, history>>
    /\ WorkerStep

WriteManifest ==
    manifests' = [id \in DOMAIN manifests \cup {w.cur} |->
                    IF id = w.cur THEN w.snap ELSE manifests[id]]

ArchiveManifest ==
    /\ At("manifest")
    /\ ~stopping
    /\ WriteManifest
    /\ Go("archive")
    /\ UNCHANGED <<docs, objects, history>>
    /\ WorkerStep

ManifestFails ==
    /\ At("manifest")
    /\ UNCHANGED manifests \/ (~stopping /\ WriteManifest)
    /\ Go("fail")
    /\ UNCHANGED <<docs, objects, history>>
    /\ WorkerStep

ArchiveDocument ==
    /\ At("archive")
    /\ \/ ~stopping /\ TransitionTo(w.cur, "archived") /\ NextDocument
       \/ Refused("archived")
    /\ UNCHANGED <<storage, history>>
    /\ WorkerStep

\* failDocument: record the error, then the status.  Neither is done for a
\* document hidden by now, nor under a cancelled context.
FailDocument ==
    /\ At("fail")
    /\ \/ ~stopping /\ UpdateMeta(w.cur, Cur.total, TRUE) /\ Go("markFailed")
       \/ (stopping \/ ~Live(w.cur)) /\ NextDocument /\ UNCHANGED docs
    /\ UNCHANGED <<storage, history>>
    /\ WorkerStep

MarkFailed ==
    /\ At("markFailed")
    /\ \/ ~stopping /\ TransitionTo(w.cur, "failed")
       \/ (stopping \/ ~MayTransition(w.cur, "failed")) /\ UNCHANGED docs
    /\ NextDocument
    /\ UNCHANGED <<storage, history>>
    /\ WorkerStep

Process ==
    \/ TakeDocument \/ EndBatch \/ BeginDocument \/ ResolveDocument \/ ResolveFails
    \/ SaveMetadata \/ ResetDocument \/ StartDownload \/ Download \/ TakeSnapshot
    \/ ArchiveManifest \/ ManifestFails \/ ArchiveDocument \/ FailDocument \/ MarkFailed

Worker == Sweep \/ SweepTick \/ ListQueued \/ Process
-----------------------------------------------------------------------------
(* The process.                                                              *)

\* SIGTERM, or a listener that fails, cancels the worker's context.
Shutdown ==
    /\ Up /\ ~stopping
    /\ "term" \in Signals /\ stops < MaxStops
    /\ stops' = stops + 1
    /\ stopping' = TRUE
    /\ UNCHANGED <<docs, registered, w, pending, ops, storage, history>>

Down ==
    /\ w' = Fresh("down")
    /\ stopping' = FALSE
    /\ pending' = [c \in Clients |-> 0]
    /\ UNCHANGED <<docs, registered, ops, storage, history>>

\* main returns when the HTTP server has shut down; it does not wait for the
\* worker, whatever step that has reached.
Exit == stopping /\ Down /\ UNCHANGED stops

\* SIGKILL, or a crash of the machine.
Kill ==
    /\ Up
    /\ "kill" \in Signals /\ stops < MaxStops
    /\ stops' = stops + 1
    /\ Down

\* The same table and objects, perhaps another configuration.
Restart ==
    /\ ~Up
    /\ registered' \in Configs
    /\ w' = Fresh("sweep")
    /\ UNCHANGED <<docs, stopping, pending, ops, stops, storage, history>>

Next == Client \/ Worker \/ Shutdown \/ Exit \/ Kill \/ Restart

Spec == AppInit /\ [][Next]_vars

\* The scheduler runs the worker, and each call it makes ends: the clients of the
\* sources have timeouts, S3's has none, so this is assumed of the storage (it
\* answers or breaks off).  A tick waits in its channel and select picks a ready
\* case at random, so a tick that keeps coming is served.  An object deletion
\* that is tried again and again succeeds in the end.  main exits once it is
\* told to stop, and whoever runs the process starts it again.
Ids == 1 .. Cardinality(Identities)

Fairness ==
    /\ WF_vars(Sweep \/ Process)
    /\ SF_vars(SweepTick)
    /\ SF_vars(ListQueued)
    /\ \A id \in Ids : SF_vars(w.cur = id /\ DeletePrefix)
    /\ WF_vars(Exit)
    /\ WF_vars(Restart)

FairSpec == Spec /\ Fairness
-----------------------------------------------------------------------------
AppTypeOK ==
    /\ DocsTypeOK
    /\ objects \subseteq (DOMAIN docs) \X Keys
    /\ DOMAIN manifests \subseteq DOMAIN docs
    /\ \A id \in DOMAIN manifests : manifests[id] \in PageMap
    /\ registered \in Configs
    /\ stopping \in BOOLEAN
    /\ w.pc \in Steps
    /\ w.batch \subseteq DOMAIN docs
    /\ w.cur \in {0} \cup DOMAIN docs
    /\ w.full \in BOOLEAN /\ w.purged \in BOOLEAN
    /\ w.edition \in PageMap /\ w.snap \in PageMap
    /\ w.task \in [DOMAIN w.task -> TaskStates]
    /\ DOMAIN w.task \subseteq DOMAIN w.edition
    /\ pending \in [Clients -> {0} \cup DOMAIN docs]
    /\ ops \in 0 .. MaxOps /\ stops \in 0 .. MaxStops
    /\ swept \subseteq DOMAIN docs /\ torn \subseteq DOMAIN docs

\* Progress is only recorded for objects that are there, and objects go away
\* only behind documents that the sweep has reached: README.md "a page's
\* progress is recorded after its object is written".  However requests,
\* failures and restarts fall between PUT, AddPage, DeletePrefix and Purge.
PagesBacked ==
    \A id \in DOMAIN docs \ swept : \A p \in DOMAIN docs[id].pages :
        <<id, docs[id].pages[p]>> \in objects

\* Nothing of a purged document is left in the object storage, even when it was
\* deleted while the worker was writing its pages.
PurgedLeavesNothing ==
    \A id \in DOMAIN docs : docs[id].status = "purged" =>
        ObjectsOf(id) = {} /\ id \notin DOMAIN manifests

\* As long as the process has not been told to stop, a document is resolving or
\* downloading only while it is the one the worker has in hand.
WorkOwned ==
    stops = 0 => \A id \in DOMAIN docs :
        docs[id].status \in {"resolving", "downloading"} =>
            /\ w.cur = id
            /\ w.pc \in {"resolve", "meta", "reset", "start", "download", "snapshot",
                        "manifest", "archive", "fail", "markFailed"}

\* An archived document has as many pages as its source announced, whatever
\* failed before: unless mode=all cleared them behind the worker's back, or its
\* content came from an album.
ArchivedComplete ==
    \A id \in DOMAIN docs \ torn :
        docs[id].status = "archived" /\ docs[id].identity \notin Albums =>
            docs[id].done >= docs[id].total

\* The manifest of an archived document lists the pages of the table: nothing
\* but such a reset comes between the snapshot and the status, and no sweep
\* takes the manifest of a document that is archived.
ManifestMatches ==
    \A id \in DOMAIN docs \ torn : docs[id].status = "archived" =>
        id \in DOMAIN manifests /\ manifests[id] = docs[id].pages

\* Error says why a failed document failed, and an archived one has no error
\* left from an earlier run.
ErrorTells ==
    \A id \in DOMAIN docs :
        /\ docs[id].status = "failed" => docs[id].error
        /\ docs[id].status = "archived" => ~docs[id].error

\* The sweep works from a list that goes stale, yet takes objects only from
\* documents deleted, or queued again by a restore, never from one that has
\* been or is being archived.
SweepSpares ==
    [][\A o \in objects \ objects' : docs[o[1]].status \in {"deleted", "queued"}]_vars

StatusOf(id) == IF id \in DOMAIN docs THEN docs[id].status ELSE "none"

\* Every queued document is taken up, whatever stops and restarts.
QueuedIsTaken == \A id \in Ids : StatusOf(id) = "queued" ~> StatusOf(id) # "queued"

Begun(id) == StatusOf(id) \in {"resolving", "downloading"}

\* A document that the worker has begun does not stay begun, whatever fails and
\* whatever clients do to it meanwhile, unless the process is stopped.
BegunEndsWhileUp == \A id \in Ids : Begun(id) /\ stops = 0 ~> ~Begun(id) \/ stops > 0

\* The same of a process that may be stopped, and is then started again.
BegunEnds == \A id \in Ids : Begun(id) ~> ~Begun(id)

\* Every deleted document on a known storage is purged in the end, or restored:
\* README.md has it retried by the background task when its objects could not
\* be deleted.
Sweepable(id) == StatusOf(id) = "deleted" /\ StorageKnown(id)

DeletedIsSwept == \A id \in Ids : Sweepable(id) ~> ~Sweepable(id)

\* README.md without the exceptions that the invariants above make: a page is
\* recorded after its object is written, so an archived page is there...
PageObjectsExist ==
    \A id \in DOMAIN docs : docs[id].status = "archived" =>
        \A p \in DOMAIN docs[id].pages : <<id, docs[id].pages[p]>> \in objects

\* ... and an archived document has all its pages.
ArchivedHasPages ==
    \A id \in DOMAIN docs : docs[id].status = "archived" => docs[id].done >= docs[id].total
=============================================================================
