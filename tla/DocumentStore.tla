---------------------------- MODULE DocumentStore ----------------------------
(* documents.Store: a table of documents, and its operations, each atomic    *)
(* (the memory store holds one mutex for a whole operation, the SQLite store *)
(* one transaction on its only connection).  A document's id is its place in *)
(* the table.  An operation that returns an error changes nothing.           *)
EXTENDS Documents, Sequences

VARIABLE docs

Exists(id) == id \in DOMAIN docs

\* Get succeeds.
Live(id) == Exists(id) /\ Visible(docs[id].status)

Write(id, d) == docs' = [docs EXCEPT ![id] = d]

\* Deleted and purged documents keep their identity: no second document has it.
TakenByVisible(identity) ==  \* mutant: only visible documents are looked up
    \E id \in DOMAIN docs : Live(id) /\ docs[id].identity = identity

Taken(identity) == \E id \in DOMAIN docs : docs[id].identity = identity

MayCreate(identity, pages) == ~Taken(identity) /\ Contiguous(pages)

Create(identity, pages, total, error) ==
    /\ MayCreate(identity, pages)
    /\ docs' = Append(docs, NewDocument(identity, pages, total, error))

DeleteRow(id) ==  \* mutant: the row is removed and the later ones move up
    Live(id) /\ docs' = SubSeq(docs, 1, id - 1) \o SubSeq(docs, id + 1, Len(docs))

MayDelete(id) == Live(id) /\ CanTransition(docs[id].status, "deleted")

Delete(id) ==
    /\ MayDelete(id)
    /\ Write(id, WithStatus(docs[id], "deleted"))

MayTransitionUnchecked(id, status) ==  \* mutant: no validatePurgedDocumentState
    Exists(id) /\ CanTransition(docs[id].status, status)

\* TransitionTo sees hidden documents too; purged is for emptied ones only.
MayTransition(id, status) ==
    /\ Exists(id)
    /\ CanTransition(docs[id].status, status)
    /\ status = "purged" => IsEmpty(docs[id])

TransitionTo(id, status) ==
    /\ MayTransition(id, status)
    /\ Write(id, WithStatus(docs[id], status))

\* The callbacks handed to UpdateMeta set total and error, never done.
UpdateMeta(id, total, error) ==
    /\ Live(id)
    /\ Write(id, [docs[id] EXCEPT !.total = total, !.error = error])

ResetPagesHidden(id) ==  \* mutant: the visibility check is dropped
    Exists(id) /\ Write(id, WithoutPages(docs[id]))

ResetPages(id) ==
    /\ Live(id)
    /\ Write(id, WithoutPages(docs[id]))

MayAddPageTwice(id, index) == Live(id)  \* mutant: no pageSlotExists check

MayAddPage(id, index) == Live(id) /\ index \notin DOMAIN docs[id].pages

AddPage(id, index, key) ==
    /\ MayAddPage(id, index)
    /\ Write(id, WithPage(docs[id], index, key))

RemovePageBlindly(id, index) ==  \* mutant: a missing page is removed and counted
    Live(id) /\ Write(id, [docs[id] EXCEPT !.done = @ - 1,
                                          !.pages = [p \in DOMAIN @ \ {index} |-> @[p]]])

MayRemovePage(id, index) == Live(id) /\ index \in DOMAIN docs[id].pages

RemovePage(id, index) ==
    /\ MayRemovePage(id, index)
    /\ Write(id, WithoutPage(docs[id], index))

MayPurge(id) == Exists(id) /\ CanTransition(docs[id].status, "purged")

Purge(id) ==
    /\ MayPurge(id)
    /\ Write(id, Emptied(docs[id]))

MayRestore(id) == Exists(id) /\ docs[id].status \in {"deleted", "purged"}

\* Restore keeps pages and progress as they were.
Restore(id) ==
    /\ MayRestore(id)
    /\ Write(id, WithStatus(docs[id], "queued"))

StoreInit == docs = << >>

StoreStep(id) ==
    \/ Delete(id)
    \/ \E status \in Status : TransitionTo(id, status)
    \/ \E total \in Totals \cup {docs[id].total}, error \in BOOLEAN :
            UpdateMeta(id, total, error)
    \/ ResetPages(id)
    \/ \E index \in Indexes, key \in Keys : AddPage(id, index, key)
    \/ \E index \in Indexes : RemovePage(id, index)
    \/ Purge(id)
    \/ Restore(id)

StoreNext ==
    \/ \E identity \in Identities, pages \in PageMap, total \in Totals \cup {0}, error \in BOOLEAN :
            Create(identity, pages, total, error)
    \/ \E id \in DOMAIN docs : StoreStep(id)

StoreSpec == StoreInit /\ [][StoreNext]_docs
-----------------------------------------------------------------------------
DocsTypeOK == docs \in Seq(Document)

\* Progress.Done is the number of recorded pages: every operation of the store
\* that touches one of the two touches both (TODO.md asks who owns Progress).
DoneCountsPages ==
    \A id \in DOMAIN docs :
        /\ IsFiniteSet(DOMAIN docs[id].pages)
        /\ docs[id].done = Cardinality(DOMAIN docs[id].pages)

\* (source, source_document_id) is unique in the whole collection, deleted and
\* purged documents included, so Create after Delete cannot make a second one.
IdentityUnique ==
    \A i, j \in DOMAIN docs : docs[i].identity = docs[j].identity => i = j

\* A purged document has no page and no progress, whichever operation made it
\* purged, and stays so: no operation but Restore touches it.
PurgedIsEmpty ==
    \A id \in DOMAIN docs : docs[id].status = "purged" => IsEmpty(docs[id])

StoreInv == DocsTypeOK /\ DoneCountsPages /\ IdentityUnique /\ PurgedIsEmpty

\* Ids are permanent: a row never goes away, moves, or changes its identity,
\* so an id that a client or the worker remembers never means another document.
IdsPermanent ==
    [][\A id \in DOMAIN docs :
         id \in DOMAIN docs' /\ docs'[id].identity = docs[id].identity]_docs

\* A hidden document changes only by being purged, or by being restored with
\* its pages and progress as they were: no late AddPage, ResetPages or
\* UpdateMeta of a worker that read it earlier gets through.
HiddenFrozen ==
    [][\A id \in DOMAIN docs :
         ~Visible(docs[id].status) /\ docs'[id] # docs[id] =>
            \/ docs'[id] = WithStatus(docs[id], "queued")
            \/ docs[id].status = "deleted" /\ docs'[id] = Emptied(docs[id])]_docs
=============================================================================
