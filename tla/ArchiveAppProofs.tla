--------------------------- MODULE ArchiveAppProofs ---------------------------
(* Proofs about the archive service for any number of clients, documents,     *)
(* storages, editions, batch size and restarts: whatever its handlers and its *)
(* worker do to the table is an operation of documents.Store, so that all     *)
(* that DocumentStoreProofs proves of the store holds of the service.         *)
EXTENDS ArchiveApp, DocumentStoreProofs

\* The steps at which the worker has a document in hand.
Holding == {"deletePrefix", "purge", "begin", "resolve", "meta", "reset", "start",
            "download", "snapshot", "manifest", "archive", "fail", "markFailed"}

TaskMap == UNION {[S -> TaskStates] : S \in SUBSET Indexes}

WorkerRecord ==
    [pc : Steps, batch : SUBSET DOMAIN docs, cur : {0} \cup DOMAIN docs,
     full : BOOLEAN, purged : BOOLEAN, edition : Editions \cup {NoPages},
     task : TaskMap, snap : PageMap]

\* What the worker remembers is of use: its ids are in the table, its pages are
\* pages of the edition, and that edition comes from the source.
WorkerOK ==
    /\ w \in WorkerRecord
    /\ w.pc \in Holding => w.cur \in DOMAIN docs
    /\ w.pc = "meta" => w.edition \in Editions
    /\ w.pc \in {"begin", "resolve"} => w.task = NoTasks
    /\ DOMAIN w.task \subseteq DOMAIN w.edition

\* What the rest of the service remembers is.
RestOK ==
    /\ objects \subseteq (DOMAIN docs) \X Keys
    /\ DOMAIN manifests \subseteq DOMAIN docs
    /\ \A id \in DOMAIN manifests : manifests[id] \in PageMap
    /\ registered \in Configs
    /\ stopping \in BOOLEAN
    /\ pending \in [Clients -> {0} \cup DOMAIN docs]
    /\ ops \in 0 .. MaxOps /\ stops \in 0 .. MaxStops
    /\ swept \subseteq DOMAIN docs /\ torn \subseteq DOMAIN docs

AppInv == TableOK /\ WorkerOK /\ RestOK

Grows == DOMAIN docs \subseteq DOMAIN docs'
-----------------------------------------------------------------------------
(* Operations of the store, as the service calls them.                       *)

LEMMA NoPagesOK == NoPages \in PageMap /\ Contiguous(NoPages) /\ DOMAIN NoPages = {}
  <1>1. IsFiniteSet({}) /\ Cardinality({}) = 0 /\ NoPages \in [{} -> Keys]
    BY FS_EmptySet DEF NoPages
  <1>2. DOMAIN NoPages = {}
    BY DEF NoPages
  <1>3. NoPages \in PageMap
    BY <1>1, PageMapIntro
  <1>4. Contiguous(NoPages)
    BY <1>1, <1>2 DEF Contiguous
  <1> QED  BY <1>2, <1>3, <1>4

LEMMA EditionOK ==
    ASSUME NEW e \in Editions \cup {NoPages}
    PROVE  e \in PageMap /\ DOMAIN e \subseteq Indexes /\ \A p \in DOMAIN e : e[p] \in Keys
  <1>1. e \in PageMap
    BY AppAssumption, NoPagesOK
  <1> QED  BY <1>1, PageMapFinite

\* An operation on a row of the table is a step of the store.
LEMMA OnRow ==
    ASSUME NEW id \in DOMAIN docs,
           \/ Delete(id)
           \/ \E status \in Status : TransitionTo(id, status)
           \/ \E total \in Totals \cup {docs[id].total}, error \in BOOLEAN :
                 UpdateMeta(id, total, error)
           \/ ResetPages(id)
           \/ \E index \in Indexes, key \in Keys : AddPage(id, index, key)
           \/ Purge(id)
           \/ Restore(id)
    PROVE  StoreNext
  BY DEF StoreNext, StoreStep

\* Ids survive a step of the store.
LEMMA StoreGrows ==
    ASSUME TableOK, [StoreNext]_docs
    PROVE  TableOK' /\ Grows
  BY StoreNextOK DEF Grows
-----------------------------------------------------------------------------
(* What a step does to the table, action by action.                          *)

\* Handlers: each is one call of the store, or none.
LEMMA ClientTable ==
    ASSUME AppInv, Client
    PROVE  [StoreNext]_docs
  <1> USE DEF AppInv
  <1>1. ASSUME NEW identity \in Identities, RequestDocument(identity) PROVE StoreNext
    BY <1>1, NoPagesOK DEF RequestDocument, StoreNext
  <1>2. ASSUME NEW id \in DOMAIN docs,
               RemoveDocument(id) \/ RefreshMetadata(id) \/ RestoreDocument(id)
                 \/ \E c \in Clients : RefreshAll(c, id)
        PROVE  StoreNext
    BY <1>2, OnRow DEF RemoveDocument, RefreshMetadata, RestoreDocument, RefreshAll, Status
  <1>3. ASSUME NEW c \in Clients, RefreshAllReset(c) PROVE [StoreNext]_docs
    BY <1>3, OnRow DEF RefreshAllReset, ResetPages, Live, Exists
  <1> QED  BY <1>1, <1>2, <1>3 DEF Client

LEMMA SweepTable ==
    ASSUME AppInv, Sweep \/ SweepTick \/ ListQueued
    PROVE  [StoreNext]_docs
  <1> USE DEF AppInv
  <1>1. CASE PurgeDocument
    BY <1>1, OnRow DEF PurgeDocument, Purge, MayPurge, Exists
  <1> QED
    BY <1>1 DEF Sweep, SweepTick, ListQueued, ListDeleted, SweepNext, DeletePrefix,
                DeletePrefixFails, EndSweep

LEMMA ProcessTable ==
    ASSUME AppInv, Process
    PROVE  [StoreNext]_docs
  <1> USE DEF AppInv
  <1>1. ASSUME NEW status \in Status, TransitionTo(w.cur, status) PROVE StoreNext
    BY <1>1, OnRow DEF TransitionTo, MayTransition, Exists
  <1>2. ASSUME SaveMetadata PROVE [StoreNext]_docs
    <2>1. CASE UNCHANGED docs
      BY <2>1
    <2>2. CASE UpdateMeta(w.cur, Cardinality(DOMAIN w.edition), FALSE)
      <3>1. w.edition \in Editions /\ w.cur \in DOMAIN docs
        BY <1>2 DEF SaveMetadata, At, WorkerOK, Holding
      <3>2. Cardinality(DOMAIN w.edition) \in Totals
        BY <3>1, AppAssumption
      <3> QED  BY <2>2, <3>1, <3>2, OnRow
    <2> QED  BY <1>2, <2>1, <2>2 DEF SaveMetadata
  <1>3. ASSUME ResetDocument PROVE [StoreNext]_docs
    BY <1>3, OnRow DEF ResetDocument, ResetPages, Live, Exists
  <1>4. ASSUME NEW p \in DOMAIN w.task, PageRecord(p) PROVE [StoreNext]_docs
    <2>1. CASE UNCHANGED docs
      BY <2>1
    <2>2. CASE AddPage(w.cur, p, w.edition[p])
      <3>1. p \in DOMAIN w.edition /\ w.edition \in Editions \cup {NoPages}
        BY DEF WorkerOK, WorkerRecord
      <3>2. p \in Indexes /\ w.edition[p] \in Keys
        BY <3>1, EditionOK
      <3>3. w.cur \in DOMAIN docs
        BY <2>2 DEF AddPage, MayAddPage, Live, Exists
      <3> QED  BY <2>2, <3>2, <3>3, OnRow
    <2> QED  BY <1>4, <2>1, <2>2 DEF PageRecord
  <1>5. ASSUME FailDocument PROVE [StoreNext]_docs
    <2>1. CASE UNCHANGED docs
      BY <2>1
    <2>2. CASE UpdateMeta(w.cur, Cur.total, TRUE)
      <3>1. w.cur \in DOMAIN docs
        BY <2>2 DEF UpdateMeta, Live, Exists
      <3> QED  BY <2>2, <3>1, OnRow DEF Cur
    <2> QED  BY <1>5, <2>1, <2>2 DEF FailDocument
  <1>6. ASSUME BeginDocument \/ StartDownload \/ ArchiveDocument \/ MarkFailed
        PROVE  [StoreNext]_docs
    BY <1>1, <1>6 DEF BeginDocument, StartDownload, ArchiveDocument, MarkFailed, Advance,
                      Refused, Status
  <1>7. ASSUME Download PROVE [StoreNext]_docs
    BY <1>4, <1>7 DEF Download, PageHead, PagePut, PageFails, PageAborted, ContentFails,
                      DownloadReturns
  <1>8. ASSUME \/ TakeDocument \/ EndBatch \/ ResolveDocument \/ ResolveFails
               \/ TakeSnapshot \/ ArchiveManifest \/ ManifestFails
        PROVE  UNCHANGED docs
    BY <1>8 DEF TakeDocument, EndBatch, ResolveDocument, ResolveFails, TakeSnapshot,
                ArchiveManifest, ManifestFails
  <1> QED  BY <1>2, <1>3, <1>5, <1>6, <1>7, <1>8 DEF Process

\* Every step of the service is a step of the store, or leaves the table alone.
LEMMA NextTable ==
    ASSUME AppInv, [Next]_vars
    PROVE  [StoreNext]_docs
  <1>1. ASSUME Shutdown \/ Exit \/ Kill \/ Restart \/ UNCHANGED vars PROVE UNCHANGED docs
    BY <1>1 DEF Shutdown, Exit, Kill, Down, Restart, vars
  <1> QED  BY <1>1, ClientTable, SweepTable, ProcessTable DEF Next, Worker
-----------------------------------------------------------------------------
(* What a step does to the worker.                                           *)

LEMMA WorkerKept ==
    ASSUME WorkerOK, Grows, UNCHANGED w
    PROVE  WorkerOK'
  BY DEF WorkerOK, WorkerRecord, Grows

\* The worker goes to another step with all it has in hand.
LEMMA WorkerMoves ==
    ASSUME WorkerOK, Grows, w.pc \in Holding, NEW pc \in Steps \ {"meta", "begin"}, Go(pc),
           pc = "resolve" => w.pc = "begin"
    PROVE  WorkerOK'
  <1>1. w' \in WorkerRecord'
    BY DEF WorkerOK, WorkerRecord, Grows, Go
  <1>2. /\ w'.pc = pc /\ w'.cur = w.cur
        /\ w'.task = w.task /\ w'.edition = w.edition
    BY DEF WorkerOK, WorkerRecord, Go
  <1> QED  BY <1>1, <1>2 DEF WorkerOK, Grows

\* It drops all of that, and keeps a list of ids at most.
LEMMA WorkerFresh ==
    ASSUME Grows, NEW pc \in Steps \ Holding, NEW batch \in SUBSET DOMAIN docs,
           NEW full \in BOOLEAN,
           w' = [pc |-> pc, batch |-> batch, cur |-> 0, full |-> full, purged |-> FALSE,
                 edition |-> NoPages, task |-> NoTasks, snap |-> NoPages]
    PROVE  WorkerOK'
  <1>1. NoTasks \in TaskMap /\ DOMAIN NoTasks = {}
    <2>1. NoTasks \in [{} -> TaskStates] /\ DOMAIN NoTasks = {}
      BY DEF NoTasks
    <2> QED  BY <2>1 DEF TaskMap
  <1>2. w' \in WorkerRecord'
    BY <1>1, NoPagesOK DEF WorkerRecord, Grows
  <1>3. w'.pc = pc /\ w'.task = NoTasks
    OBVIOUS
  <1> QED  BY <1>1, <1>2, <1>3 DEF WorkerOK, Holding

\* The forms in which the actions write it.
LEMMA WorkerDrops ==
    ASSUME WorkerOK, Grows,
           \/ \E pc \in Steps \ Holding : w' = Fresh(pc)
           \/ \E pc \in Steps \ Holding, batch \in SUBSET DOMAIN docs :
                 w' = [Fresh(pc) EXCEPT !.batch = batch]
           \/ NextDocument
    PROVE  WorkerOK'
  <1>1. ASSUME NEW pc \in Steps \ Holding, w' = Fresh(pc) PROVE WorkerOK'
    BY <1>1, WorkerFresh DEF Fresh
  <1>2. ASSUME NEW pc \in Steps \ Holding, NEW batch \in SUBSET DOMAIN docs,
               w' = [Fresh(pc) EXCEPT !.batch = batch]
        PROVE  WorkerOK'
    BY <1>2, WorkerFresh DEF Fresh
  <1>3. CASE NextDocument
    <2>1. "next" \in Steps \ Holding /\ w.batch \in SUBSET DOMAIN docs
      BY DEF Steps, Holding, WorkerOK, WorkerRecord
    <2> QED  BY <1>2, <1>3, <2>1 DEF NextDocument
  <1> QED  BY <1>1, <1>2, <1>3

LEMMA BatchOK == ASSUME NEW status PROVE Batch(status) \subseteq DOMAIN docs
  BY DEF Batch

LEMMA SweepWorker ==
    ASSUME WorkerOK, Grows, Sweep \/ SweepTick \/ ListQueued
    PROVE  WorkerOK'
  <1>1. {"idle", "sweep", "sweepNext", "next"} \subseteq Steps \ Holding
    BY DEF Steps, Holding
  <1>2. ASSUME ListDeleted PROVE WorkerOK'
    <2>1. CASE w' = Fresh("idle")
      BY <1>1, <2>1, WorkerDrops
    <2>2. CASE w' = [Fresh("sweepNext") EXCEPT
                       !.batch = Batch("deleted"),
                       !.full  = Cardinality(Batch("deleted")) = BatchSize]
      BY <1>1, <2>2, BatchOK, WorkerFresh DEF Fresh
    <2> QED  BY <1>2, <2>1, <2>2 DEF ListDeleted
  <1>3. ASSUME SweepNext PROVE WorkerOK'
    <2>1. PICK id \in w.batch :
            w' = [w EXCEPT !.batch = @ \ {id}, !.cur = id,
                           !.pc = IF StorageKnown(id) THEN "deletePrefix" ELSE "sweepNext"]
      BY <1>3 DEF SweepNext
    <2>2. id \in DOMAIN docs
      BY DEF WorkerOK, WorkerRecord
    <2>3. PICK pc \in {"deletePrefix", "sweepNext"} :
            w' = [w EXCEPT !.batch = @ \ {id}, !.cur = id, !.pc = pc]
      BY <2>1
    <2>4. w' \in WorkerRecord'
      BY <2>2, <2>3 DEF WorkerOK, WorkerRecord, Grows, Steps
    <2>5. /\ w'.pc = pc /\ w'.cur = id
          /\ w'.task = w.task /\ w'.edition = w.edition
      BY <2>3 DEF WorkerOK, WorkerRecord
    <2> QED  BY <2>2, <2>4, <2>5 DEF WorkerOK, Grows
  <1>4. ASSUME DeletePrefix \/ DeletePrefixFails PROVE WorkerOK'
    BY <1>4, WorkerMoves DEF DeletePrefix, DeletePrefixFails, At, Holding, Steps
  <1>5. ASSUME PurgeDocument PROVE WorkerOK'
    <2>1. CASE Go("sweepNext")
      BY <1>5, <2>1, WorkerMoves DEF PurgeDocument, At, Holding, Steps
    <2>2. CASE w' = [w EXCEPT !.pc = "sweepNext", !.purged = TRUE]
      <3>1. w' \in WorkerRecord'
        BY <2>2 DEF WorkerOK, WorkerRecord, Grows, Steps
      <3>2. w'.pc = "sweepNext" /\ w'.task = w.task /\ w'.edition = w.edition
        BY <2>2 DEF WorkerOK, WorkerRecord
      <3> QED  BY <3>1, <3>2 DEF WorkerOK, Holding
    <2> QED  BY <1>5, <2>1, <2>2 DEF PurgeDocument
  <1>6. ASSUME EndSweep \/ SweepTick PROVE WorkerOK'
    BY <1>1, <1>6, WorkerDrops DEF EndSweep, SweepTick
  <1>7. ASSUME ListQueued PROVE WorkerOK'
    BY <1>1, <1>7, BatchOK, WorkerDrops DEF ListQueued
  <1> QED  BY <1>2, <1>3, <1>4, <1>5, <1>6, <1>7 DEF Sweep

\* A task changes its state.
LEMMA TaskMoves ==
    ASSUME WorkerOK, Grows, w.pc = "download", NEW p \in DOMAIN w.task,
           NEW state \in TaskStates, Task(p, state)
    PROVE  WorkerOK'
  <1>1. PICK S \in SUBSET Indexes : w.task \in [S -> TaskStates]
    BY DEF WorkerOK, WorkerRecord, TaskMap
  <1>2. [w.task EXCEPT ![p] = state] \in [S -> TaskStates]
    BY <1>1
  <1>3. /\ [w.task EXCEPT ![p] = state] \in TaskMap
        /\ DOMAIN [w.task EXCEPT ![p] = state] = DOMAIN w.task
    BY <1>2 DEF TaskMap
  <1>4. w' = [w EXCEPT !.task = [w.task EXCEPT ![p] = state]]
    BY DEF Task
  <1>5. w' \in WorkerRecord'
    BY <1>3, <1>4 DEF WorkerOK, WorkerRecord, Grows
  <1>6. /\ w'.pc = "download" /\ w'.cur = w.cur /\ w'.edition = w.edition
        /\ DOMAIN w'.task = DOMAIN w.task
    BY <1>3, <1>4 DEF WorkerOK, WorkerRecord
  <1> QED  BY <1>5, <1>6 DEF WorkerOK, Grows, Holding

LEMMA DownloadWorker ==
    ASSUME WorkerOK, Grows, Download
    PROVE  WorkerOK'
  <1>1. ASSUME NEW p \in DOMAIN w.task,
               PageHead(p) \/ PagePut(p) \/ PageRecord(p) \/ PageFails(p) \/ PageAborted(p)
        PROVE  WorkerOK'
    <2>1. w.pc = "download"
      BY <1>1 DEF PageHead, PagePut, PageRecord, PageFails, PageAborted, TaskAt, At
    <2>2. \E state \in TaskStates : Task(p, state)
      BY <1>1 DEF PageHead, PagePut, PageRecord, PageFails, PageAborted, TaskStates
    <2> QED  BY <2>1, <2>2, TaskMoves
  <1>2. ASSUME ContentFails \/ DownloadReturns PROVE WorkerOK'
    <2>1. w.pc \in Holding /\ \E pc \in {"fail", "snapshot"} : Go(pc)
      BY <1>2 DEF ContentFails, DownloadReturns, At, Holding, Steps
    <2> QED  BY <2>1, WorkerMoves DEF Steps
  <1> QED  BY <1>1, <1>2 DEF Download

\* The worker takes the next document of its list, or skips it.
LEMMA TakeWorker ==
    ASSUME WorkerOK, Grows, TakeDocument
    PROVE  WorkerOK'
  <1>1. PICK id \in w.batch :
          w' = [Fresh(IF Live(id) /\ ~stopping THEN "begin" ELSE "next") EXCEPT
                  !.batch = w.batch \ {id},
                  !.cur = IF Live(id) /\ ~stopping THEN id ELSE 0]
    BY DEF TakeDocument
  <1>2. id \in DOMAIN docs /\ w.batch \ {id} \in SUBSET DOMAIN docs
    BY DEF WorkerOK, WorkerRecord
  <1>3. CASE Live(id) /\ ~stopping
    <2>1. w' = [pc |-> "begin", batch |-> w.batch \ {id}, cur |-> id, full |-> FALSE,
                purged |-> FALSE, edition |-> NoPages, task |-> NoTasks, snap |-> NoPages]
      BY <1>1, <1>3 DEF Fresh
    <2>2. NoTasks \in TaskMap /\ DOMAIN NoTasks = {}
      <3>1. NoTasks \in [{} -> TaskStates] /\ DOMAIN NoTasks = {}
        BY DEF NoTasks
      <3> QED  BY <3>1 DEF TaskMap
    <2>3. w' \in WorkerRecord'
      BY <1>2, <2>1, <2>2, NoPagesOK DEF WorkerRecord, Grows, Steps
    <2>4. w'.pc = "begin" /\ w'.cur = id /\ w'.task = NoTasks
      BY <2>1
    <2> QED  BY <1>2, <2>2, <2>3, <2>4 DEF WorkerOK, Grows
  <1>4. CASE ~(Live(id) /\ ~stopping)
    <2>1. w' = [pc |-> "next", batch |-> w.batch \ {id}, cur |-> 0, full |-> FALSE,
                purged |-> FALSE, edition |-> NoPages, task |-> NoTasks, snap |-> NoPages]
      BY <1>1, <1>4 DEF Fresh
    <2> QED  BY <1>2, <2>1, WorkerFresh DEF Steps, Holding
  <1> QED  BY <1>3, <1>4

LEMMA ProcessWorker ==
    ASSUME AppInv, Grows, Process
    PROVE  WorkerOK'
  <1> USE DEF AppInv
  <1>1. {"idle", "next"} \subseteq Steps \ Holding
    BY DEF Steps, Holding
  <1>2. ASSUME w.pc \in Holding, NEW pc \in {"reset", "start", "snapshot", "archive", "fail",
                                            "markFailed"}, Go(pc)
        PROVE  WorkerOK'
    BY <1>2, WorkerMoves DEF Steps
  <1>3. ASSUME EndBatch PROVE WorkerOK'
    BY <1>1, <1>3, WorkerDrops DEF EndBatch
  <1>4. ASSUME BeginDocument \/ ResolveFails \/ SaveMetadata \/ ResetDocument
               \/ ArchiveManifest \/ ManifestFails
        PROVE  WorkerOK'
    <2>1. w.pc \in Holding
      BY <1>4 DEF BeginDocument, ResolveFails, SaveMetadata, ResetDocument, ArchiveManifest,
                  ManifestFails, At, Holding
    <2>2. \/ \E pc \in {"reset", "start", "snapshot", "archive", "fail"} : Go(pc)
          \/ w.pc = "begin" /\ Go("resolve")
      BY <1>4 DEF BeginDocument, ResolveFails, SaveMetadata, ResetDocument, ArchiveManifest,
                  ManifestFails, Advance, Refused, At
    <2> QED  BY <1>2, <2>1, <2>2, WorkerMoves DEF Steps
  <1>5. ASSUME ResolveDocument PROVE WorkerOK'
    <2>1. PICK e \in Editions : w' = [w EXCEPT !.pc = "meta", !.edition = e]
      BY <1>5 DEF ResolveDocument
    <2>2. w.cur \in DOMAIN docs
      BY <1>5 DEF ResolveDocument, At, WorkerOK, Holding
    <2>3. w' \in WorkerRecord'
      BY <2>1 DEF WorkerOK, WorkerRecord, Grows, Steps
    <2>4. /\ w'.pc = "meta" /\ w'.cur = w.cur
          /\ w'.task = w.task /\ w'.edition = e
      BY <2>1 DEF WorkerOK, WorkerRecord
    <2>5. w.task = NoTasks
      BY <1>5 DEF ResolveDocument, At, WorkerOK
    <2> QED  BY <2>1, <2>2, <2>3, <2>4, <2>5 DEF WorkerOK, Grows, NoTasks
  <1>6. ASSUME StartDownload PROVE WorkerOK'
    <2>0. w.pc = "start"
      BY <1>6 DEF StartDownload, At
    <2>1. CASE Go("fail")
      BY <1>2, <2>0, <2>1 DEF Holding
    <2>2. CASE w' = [w EXCEPT !.pc = "download", !.task = [p \in ContentPages |-> "head"]]
      <3>1. w.edition \in Editions \cup {NoPages} /\ w.cur \in DOMAIN docs
        BY <2>0 DEF WorkerOK, WorkerRecord, Holding
      <3>2. ContentPages \subseteq DOMAIN w.edition /\ ContentPages \in SUBSET Indexes
        BY <3>1, EditionOK DEF ContentPages
      <3>3. [p \in ContentPages |-> "head"] \in TaskMap
        <4>1. [p \in ContentPages |-> "head"] \in [ContentPages -> TaskStates]
          BY DEF TaskStates
        <4> QED  BY <3>2, <4>1 DEF TaskMap
      <3>4. w' \in WorkerRecord'
        BY <2>2, <3>3 DEF WorkerOK, WorkerRecord, Grows, Steps
      <3>5. /\ w'.pc = "download" /\ w'.cur = w.cur /\ w'.edition = w.edition
            /\ DOMAIN w'.task = ContentPages
        BY <2>2 DEF WorkerOK, WorkerRecord
      <3> QED  BY <3>1, <3>2, <3>4, <3>5 DEF WorkerOK, Grows
    <2> QED  BY <1>6, <2>1, <2>2 DEF StartDownload, Refused
  <1>7. ASSUME TakeSnapshot PROVE WorkerOK'
    <2>0. w.pc = "snapshot"
      BY <1>7 DEF TakeSnapshot, At
    <2>1. CASE Go("fail")
      BY <1>2, <2>0, <2>1 DEF Holding
    <2>2. CASE w' = [w EXCEPT !.pc = "manifest", !.snap = Cur.pages]
      <3>1. w.cur \in DOMAIN docs
        BY <2>0 DEF WorkerOK, Holding
      <3>2. Cur.pages \in PageMap
        BY <3>1 DEF Cur, TableOK, RowOK, Document
      <3>3. w' \in WorkerRecord'
        BY <2>2, <3>2 DEF WorkerOK, WorkerRecord, Grows, Steps
      <3>4. /\ w'.pc = "manifest" /\ w'.cur = w.cur
            /\ w'.task = w.task /\ w'.edition = w.edition
        BY <2>2 DEF WorkerOK, WorkerRecord
      <3> QED  BY <3>1, <3>3, <3>4 DEF WorkerOK, Grows
    <2> QED  BY <1>7, <2>1, <2>2 DEF TakeSnapshot
  <1>8. ASSUME ArchiveDocument \/ FailDocument \/ MarkFailed PROVE WorkerOK'
    <2>1. CASE NextDocument
      BY <2>1, WorkerDrops
    <2>2. CASE \E pc \in {"fail", "markFailed"} : Go(pc)
      <3>1. w.pc \in Holding
        BY <1>8 DEF ArchiveDocument, FailDocument, MarkFailed, At, Holding
      <3> QED  BY <1>2, <2>2, <3>1
    <2> QED  BY <1>8, <2>1, <2>2 DEF ArchiveDocument, FailDocument, MarkFailed, Refused
  <1> QED
    BY <1>3, <1>4, <1>5, <1>6, <1>7, <1>8, TakeWorker, DownloadWorker DEF Process

LEMMA NextWorker ==
    ASSUME AppInv, Grows, [Next]_vars
    PROVE  WorkerOK'
  <1> USE DEF AppInv
  <1>1. ASSUME Client \/ Shutdown \/ UNCHANGED vars PROVE WorkerOK'
    <2>1. UNCHANGED w
      BY <1>1 DEF Client, ClientStep, RequestDocument, RemoveDocument, RefreshMetadata,
                  RefreshAll, RefreshAllReset, RestoreDocument, Shutdown, vars
    <2> QED  BY <2>1, WorkerKept
  <1>2. ASSUME Exit \/ Kill \/ Restart PROVE WorkerOK'
    <2>1. \E pc \in Steps \ Holding : w' = Fresh(pc)
      BY <1>2 DEF Exit, Kill, Down, Restart, Steps, Holding
    <2> QED  BY <2>1, WorkerDrops
  <1> QED  BY <1>1, <1>2, SweepWorker, ProcessWorker DEF Next, Worker
-----------------------------------------------------------------------------
(* What a step does to the rest.                                             *)

\* A step that writes nothing but the table and the worker.
LEMMA RestKept ==
    ASSUME RestOK, Grows, UNCHANGED <<pending, ops, env, storage, history>>
    PROVE  RestOK'
  BY DEF RestOK, Grows, env, storage, history

\* Objects and manifests come from the document in hand, or go away.
LEMMA RestStorage ==
    ASSUME RestOK, Grows, UNCHANGED <<pending, ops, env>>,
           objects' \subseteq (DOMAIN docs) \X Keys,
           DOMAIN manifests' \subseteq DOMAIN docs,
           \A id \in DOMAIN manifests' : manifests'[id] \in PageMap,
           swept' \subseteq DOMAIN docs, torn' \subseteq torn
    PROVE  RestOK'
  BY DEF RestOK, Grows, env

LEMMA ClientRest ==
    ASSUME AppInv, Grows, Client
    PROVE  RestOK'
  <1> USE DEF AppInv
  <1>1. ASSUME ClientStep, \/ UNCHANGED pending
                           \/ \E c \in Clients, id \in DOMAIN docs :
                                 pending' = [pending EXCEPT ![c] = id]
        PROVE  RestOK'
    <2>1. pending' \in [Clients -> {0} \cup DOMAIN docs]
      BY <1>1 DEF RestOK
    <2>2. ops' \in 0 .. MaxOps
      BY <1>1, AppAssumption DEF ClientStep, RestOK
    <2> QED
      BY <1>1, <2>1, <2>2 DEF ClientStep, RestOK, Grows, env, storage, history
  <1>2. ASSUME NEW c \in Clients, RefreshAllReset(c) PROVE RestOK'
    <2>1. pending' \in [Clients -> {0} \cup DOMAIN docs]
      BY <1>2 DEF RefreshAllReset, RestOK
    <2>2. torn' \subseteq DOMAIN docs
      BY <1>2 DEF RefreshAllReset, ResetPages, Live, Exists, RestOK
    <2> QED
      BY <1>2, <2>1, <2>2 DEF RefreshAllReset, RestOK, Grows, env, storage
  <1> QED
    BY <1>1, <1>2 DEF Client, RequestDocument, RemoveDocument, RefreshMetadata,
                      RestoreDocument, RefreshAll

LEMMA SweepRest ==
    ASSUME AppInv, Grows, Sweep \/ SweepTick \/ ListQueued
    PROVE  RestOK'
  <1> USE DEF AppInv
  <1>1. ASSUME DeletePrefix \/ DeletePrefixFails PROVE RestOK'
    <2>1. w.cur \in DOMAIN docs
      BY <1>1 DEF DeletePrefix, DeletePrefixFails, At, WorkerOK, Holding
    <2>2. CASE UNCHANGED <<storage, history>>
      BY <1>1, <2>2, RestKept DEF DeletePrefix, DeletePrefixFails, WorkerStep
    <2>3. ASSUME NEW removed, Remove(removed) PROVE RestOK'
      <3>1. objects' \subseteq (DOMAIN docs) \X Keys
        BY <2>3 DEF Remove, RestOK
      <3>2. /\ DOMAIN manifests' = DOMAIN manifests \ {w.cur}
            /\ \A id \in DOMAIN manifests' : manifests'[id] = manifests[id]
        BY <2>3 DEF Remove
      <3>3. swept' \subseteq DOMAIN docs /\ torn' = torn
        BY <2>1, <2>3 DEF Remove, RestOK
      <3> QED
        BY <1>1, <3>1, <3>2, <3>3, RestStorage
        DEF DeletePrefix, DeletePrefixFails, WorkerStep, RestOK
    <2> QED  BY <1>1, <2>2, <2>3 DEF DeletePrefix, DeletePrefixFails
  <1>2. ASSUME PurgeDocument PROVE RestOK'
    <2>1. swept' \subseteq swept /\ UNCHANGED <<storage, torn>>
      BY <1>2 DEF PurgeDocument
    <2> QED
      BY <1>2, <2>1, RestStorage DEF PurgeDocument, WorkerStep, RestOK, storage
  <1> QED
    BY <1>1, <1>2, RestKept DEF Sweep, SweepTick, ListQueued, ListDeleted, SweepNext, EndSweep,
                                WorkerStep

LEMMA ProcessRest ==
    ASSUME AppInv, Grows, Process
    PROVE  RestOK'
  <1> USE DEF AppInv
  <1>1. ASSUME UNCHANGED <<storage, history>>, WorkerStep PROVE RestOK'
    BY <1>1, RestKept DEF WorkerStep
  <1>2. ASSUME SaveMetadata PROVE RestOK'
    <2>1. UNCHANGED <<storage, swept>> /\ torn' \subseteq torn
      BY <1>2 DEF SaveMetadata
    <2> QED
      BY <1>2, <2>1, RestStorage DEF SaveMetadata, WorkerStep, RestOK, storage
  <1>3. ASSUME NEW p \in DOMAIN w.task, PagePut(p) \/ PageFails(p) PROVE RestOK'
    <2>1. w.pc = "download" /\ UNCHANGED <<manifests, history>> /\ WorkerStep
      BY <1>3 DEF PagePut, PageFails, TaskAt, At
    <2>2. w.cur \in DOMAIN docs
      BY <2>1 DEF WorkerOK, Holding
    <2>3. p \in DOMAIN w.edition /\ w.edition \in Editions \cup {NoPages}
      BY DEF WorkerOK, WorkerRecord
    <2>4. Object(p) \in (DOMAIN docs) \X Keys
      BY <2>2, <2>3, EditionOK DEF Object
    <2>5. objects' \subseteq objects \cup {Object(p)}
      BY <1>3 DEF PagePut, PageFails
    <2> QED
      BY <2>1, <2>4, <2>5, RestStorage DEF WorkerStep, RestOK, history
  <1>4. ASSUME ArchiveManifest \/ ManifestFails PROVE RestOK'
    <2>1. w.cur \in DOMAIN docs /\ w.snap \in PageMap
      BY <1>4 DEF ArchiveManifest, ManifestFails, At, WorkerOK, WorkerRecord, Holding
    <2>2. UNCHANGED <<objects, history>> /\ WorkerStep
      BY <1>4 DEF ArchiveManifest, ManifestFails
    <2>3. CASE UNCHANGED manifests
      BY <2>2, <2>3, RestKept DEF WorkerStep, storage
    <2>4. CASE WriteManifest
      <3>1. /\ DOMAIN manifests' = DOMAIN manifests \cup {w.cur}
            /\ \A id \in DOMAIN manifests' :
                  manifests'[id] = IF id = w.cur THEN w.snap ELSE manifests[id]
        BY <2>4 DEF WriteManifest
      <3> QED
        BY <2>1, <2>2, <3>1, RestStorage DEF WorkerStep, RestOK, history
    <2> QED  BY <1>4, <2>3, <2>4 DEF ArchiveManifest, ManifestFails
  <1>5. ASSUME NEW p \in DOMAIN w.task, PageHead(p) \/ PageRecord(p) \/ PageAborted(p)
        PROVE  RestOK'
    BY <1>1, <1>5 DEF PageHead, PageRecord, PageAborted
  <1>6. ASSUME ContentFails \/ DownloadReturns PROVE RestOK'
    BY <1>1, <1>6 DEF ContentFails, DownloadReturns
  <1>7. ASSUME \/ TakeDocument \/ EndBatch \/ BeginDocument \/ ResolveDocument \/ ResolveFails
               \/ ResetDocument \/ StartDownload \/ TakeSnapshot \/ ArchiveDocument
               \/ FailDocument \/ MarkFailed
        PROVE  RestOK'
    BY <1>1, <1>7 DEF TakeDocument, EndBatch, BeginDocument, ResolveDocument, ResolveFails,
                      ResetDocument, StartDownload, TakeSnapshot, ArchiveDocument, FailDocument,
                      MarkFailed
  <1> QED  BY <1>2, <1>3, <1>4, <1>5, <1>6, <1>7 DEF Process, Download

LEMMA NextRest ==
    ASSUME AppInv, Grows, [Next]_vars
    PROVE  RestOK'
  <1> USE DEF AppInv
  <1>1. ASSUME UNCHANGED vars PROVE RestOK'
    BY <1>1, RestKept DEF vars
  <1>2. ASSUME Shutdown \/ Exit \/ Kill PROVE RestOK'
    <2>1. stops' \in 0 .. MaxStops
      BY <1>2, AppAssumption DEF Shutdown, Exit, Kill, RestOK
    <2>2. pending' \in [Clients -> {0} \cup DOMAIN docs]
      BY <1>2 DEF Shutdown, Exit, Kill, Down, RestOK
    <2>3. stopping' \in BOOLEAN
      BY <1>2 DEF Shutdown, Exit, Kill, Down
    <2>4. UNCHANGED <<docs, registered, ops, storage, history>>
      BY <1>2 DEF Shutdown, Exit, Kill, Down
    <2> QED  BY <2>1, <2>2, <2>3, <2>4 DEF RestOK, storage, history
  <1>3. ASSUME Restart PROVE RestOK'
    BY <1>3 DEF Restart, RestOK, storage, history
  <1> QED  BY <1>1, <1>2, <1>3, ClientRest, SweepRest, ProcessRest DEF Next, Worker
-----------------------------------------------------------------------------
LEMMA AppInitOK == AppInit => AppInv
  <1> SUFFICES ASSUME AppInit PROVE AppInv
    OBVIOUS
  <1>1. TableOK /\ docs = << >>
    BY StoreInitOK DEF AppInit, StoreInit
  <1>2. WorkerOK
    <2>1. w = [pc |-> "sweep", batch |-> {}, cur |-> 0, full |-> FALSE, purged |-> FALSE,
               edition |-> NoPages, task |-> NoTasks, snap |-> NoPages]
      BY DEF AppInit, Fresh
    <2>2. NoTasks \in TaskMap /\ DOMAIN NoTasks = {}
      <3>1. NoTasks \in [{} -> TaskStates] /\ DOMAIN NoTasks = {}
        BY DEF NoTasks
      <3> QED  BY <3>1 DEF TaskMap
    <2>3. w \in WorkerRecord
      BY <2>1, <2>2, NoPagesOK DEF WorkerRecord, Steps
    <2>4. w.pc = "sweep" /\ w.task = NoTasks
      BY <2>1
    <2> QED  BY <2>2, <2>3, <2>4 DEF WorkerOK, Holding
  <1>3. RestOK
    <2>1. DOMAIN manifests = {}
      BY NoPagesOK DEF AppInit
    <2>2. ops \in 0 .. MaxOps /\ stops \in 0 .. MaxStops
      BY AppAssumption DEF AppInit
    <2>3. stopping \in BOOLEAN
      BY DEF AppInit
    <2> QED  BY <2>1, <2>2, <2>3 DEF AppInit, RestOK
  <1> QED  BY <1>1, <1>2, <1>3 DEF AppInv

\* AppInv is inductive, and with it every step is a step of the store.
LEMMA AppNextOK == AppInv /\ [Next]_vars => AppInv' /\ [StoreNext]_docs
  <1> SUFFICES ASSUME AppInv, [Next]_vars PROVE AppInv' /\ [StoreNext]_docs
    OBVIOUS
  <1>1. [StoreNext]_docs
    BY NextTable
  <1>2. TableOK' /\ Grows
    BY <1>1, StoreGrows DEF AppInv
  <1> QED  BY <1>1, <1>2, NextWorker, NextRest DEF AppInv

LEMMA AppInvariant == Spec => []AppInv
  BY AppInitOK, AppNextOK, PTL DEF Spec

\* The service implements the store: no handler and no step of the worker does
\* to the table what no operation of documents.Store does.
THEOREM AppImplementsStore == Spec => StoreSpec
  <1>1. AppInit => StoreInit
    BY DEF AppInit
  <1> QED  BY <1>1, AppInvariant, AppNextOK, PTL DEF Spec, StoreSpec

\* So what is true of the store is true of its table within the service.
THEOREM AppStoreInvariant == Spec => []StoreInv
  BY AppImplementsStore, StoreInvariant, PTL

\* An id that a request, the worker's batch or an object key remembers means the
\* same document for good.
THEOREM AppIdsPermanent == Spec => IdsPermanent
  BY AppImplementsStore, StoreIdsPermanent, PTL

\* Nothing that the worker still has to do for a document deleted meanwhile
\* changes that document, but its purge.
THEOREM AppHiddenFrozen == Spec => HiddenFrozen
  BY AppImplementsStore, StoreHiddenFrozen, PTL

\* The worker's ids are in the table and its pages those of an edition; objects
\* and manifests are of documents there are.
THEOREM AppTyped == Spec => []AppTypeOK
  <1>1. AppInv => AppTypeOK
    <2> SUFFICES ASSUME AppInv PROVE AppTypeOK
      OBVIOUS
    <2>1. DocsTypeOK
      BY DEF AppInv, TableOK, DocsTypeOK
    <2>2. w \in WorkerRecord /\ DOMAIN w.task \subseteq DOMAIN w.edition
      BY DEF AppInv, WorkerOK
    <2>3. w.edition \in PageMap
      BY <2>2, EditionOK DEF WorkerRecord
    <2>4. w.task \in [DOMAIN w.task -> TaskStates]
      BY <2>2 DEF WorkerRecord, TaskMap
    <2>5. /\ w.pc \in Steps /\ w.batch \subseteq DOMAIN docs
          /\ w.cur \in {0} \cup DOMAIN docs
          /\ w.full \in BOOLEAN /\ w.purged \in BOOLEAN /\ w.snap \in PageMap
      BY <2>2 DEF WorkerRecord
    <2>6. RestOK
      BY DEF AppInv
    <2> QED  BY <2>1, <2>2, <2>3, <2>4, <2>5, <2>6 DEF AppTypeOK, RestOK
  <1> QED  BY <1>1, AppInvariant, PTL
=============================================================================
