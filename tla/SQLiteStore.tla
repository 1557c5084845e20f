----------------------------- MODULE SQLiteStore -----------------------------
(* documents.SQLiteStore: two tables.  An operation is one transaction on the *)
(* only connection: its statements take effect together when it commits, and  *)
(* not at all when one of them refuses, fails or is cancelled, or the process *)
(* dies.  So an operation is one step whose guards are all its statements'.   *)
EXTENDS Documents, Sequences

VARIABLES
    documents,       \* the table documents, by the id AUTOINCREMENT gave
    document_pages   \* the table document_pages

sqlVars == <<documents, document_pages>>

SExists(id) == id \in DOMAIN documents                          \* getTx, all
SLive(id)   == SExists(id) /\ Visible(documents[id].status)     \* getTx, visible only

PageRows(id) == {row \in document_pages : row.document_id = id}
PageRow(id, index) == {row \in PageRows(id) : row.page_index = index}

\* updateDocumentTx
Update(id, row) == documents' = [documents EXCEPT ![id] = row]

\* Unlike the slice of the memory store, an added page is an inserted row.
NewRow(id, index, key) == [document_id |-> id, page_index |-> index, object_key |-> key]

SMayCreate(identity, pages) ==
    (\A id \in DOMAIN documents : documents[id].identity # identity) /\ Contiguous(pages)

SCreate(identity, pages, total, error) ==
    LET n == Cardinality(DOMAIN pages)
    IN  /\ SMayCreate(identity, pages)
        /\ documents' = Append(documents,
               [identity |-> identity, status |-> "queued", done |-> n,
                total |-> IF total < n THEN n ELSE total, error |-> error])
        /\ document_pages' = document_pages \cup
               {NewRow(Len(documents) + 1, index, pages[index]) : index \in DOMAIN pages}

SMayDelete(id) == SLive(id) /\ CanTransition(documents[id].status, "deleted")

SDelete(id) ==
    /\ SMayDelete(id)
    /\ Update(id, WithStatus(documents[id], "deleted"))
    /\ UNCHANGED document_pages

SMayTransition(id, status) ==
    /\ SExists(id)
    /\ CanTransition(documents[id].status, status)
    /\ status = "purged" =>
         documents[id].done = 0 /\ documents[id].total = 0 /\ PageRows(id) = {}

STransitionTo(id, status) ==
    /\ SMayTransition(id, status)
    /\ Update(id, WithStatus(documents[id], status))
    /\ UNCHANGED document_pages

SUpdateMeta(id, total, error) ==
    /\ SLive(id)
    /\ Update(id, [documents[id] EXCEPT !.total = total, !.error = error])
    /\ UNCHANGED document_pages

SResetPages(id) ==
    /\ SLive(id)
    /\ Update(id, [documents[id] EXCEPT !.done = 0])
    /\ document_pages' = document_pages \ PageRows(id)

SMayAddPage(id, index) == PageRow(id, index) = {} /\ SLive(id)

SAddPage(id, index, key) ==
    LET row == documents[id]
    IN  /\ SMayAddPage(id, index)
        /\ Update(id, [row EXCEPT !.done  = @ + 1,
                                  !.total = IF @ < row.done + 1 THEN row.done + 1 ELSE @])
        /\ document_pages' = document_pages \cup {NewRow(id, index, key)}

SRemovePageNoTx(id, index) ==  \* mutant: the DELETE is not rolled back
    /\ PageRow(id, index) # {}
    /\ document_pages' = document_pages \ PageRow(id, index)
    /\ IF SLive(id)
       THEN Update(id, [documents[id] EXCEPT !.done = IF @ > 0 THEN @ - 1 ELSE @])
       ELSE UNCHANGED documents

\* The row goes first; updateMeta then refuses a hidden document, and the row
\* comes back with the rollback.
SMayRemovePage(id, index) == PageRow(id, index) # {} /\ SLive(id)

SRemovePage(id, index) ==
    /\ SMayRemovePage(id, index)
    /\ Update(id, [documents[id] EXCEPT !.done = IF @ > 0 THEN @ - 1 ELSE @])
    /\ document_pages' = document_pages \ PageRow(id, index)

SPurgeKeepsRows(id) ==  \* mutant: rows are left to ON DELETE CASCADE
    /\ SExists(id) /\ CanTransition(documents[id].status, "purged")
    /\ Update(id, [documents[id] EXCEPT !.done = 0, !.total = 0, !.status = "purged"])
    /\ UNCHANGED document_pages

SMayPurge(id) == SExists(id) /\ CanTransition(documents[id].status, "purged")

SPurge(id) ==
    /\ SMayPurge(id)
    /\ Update(id, [documents[id] EXCEPT !.done = 0, !.total = 0, !.status = "purged"])
    /\ document_pages' = document_pages \ PageRows(id)

SMayRestore(id) == SExists(id) /\ documents[id].status \in {"deleted", "purged"}

SRestore(id) ==
    /\ SMayRestore(id)
    /\ Update(id, WithStatus(documents[id], "queued"))
    /\ UNCHANGED document_pages

SqlInit == documents = << >> /\ document_pages = {}

SqlStep(id) ==
    \/ SDelete(id)
    \/ \E status \in Status : STransitionTo(id, status)
    \/ \E total \in Totals \cup {documents[id].total}, error \in BOOLEAN :
            SUpdateMeta(id, total, error)
    \/ SResetPages(id)
    \/ \E index \in Indexes, key \in Keys : SAddPage(id, index, key)
    \/ \E index \in Indexes : SRemovePage(id, index)
    \/ SPurge(id)
    \/ SRestore(id)

SqlNext ==
    \/ \E identity \in Identities, pages \in PageMap, total \in Totals \cup {0}, error \in BOOLEAN :
            SCreate(identity, pages, total, error)
    \/ \E id \in DOMAIN documents : SqlStep(id)

SqlSpec == SqlInit /\ [][SqlNext]_sqlVars
-----------------------------------------------------------------------------
\* listPagesTx puts each row back into its slot, gaps left blank.
PagesOf(id) == [index \in {row.page_index : row \in PageRows(id)} |->
                  (CHOOSE row \in PageRow(id, index) : TRUE).object_key]

SqlDocument(id) ==
    LET row == documents[id]
    IN  [identity |-> row.identity, status |-> row.status, done |-> row.done,
         total |-> row.total, error |-> row.error, pages |-> PagesOf(id)]

SqlDocs == [id \in DOMAIN documents |-> SqlDocument(id)]

Sql == INSTANCE DocumentStore WITH docs <- SqlDocs

\* The two tables implement the one: page rows and the progress of their
\* document change in the same transaction, or neither does.
SqlImplements == Sql!StoreSpec

\* The constraints the schema declares: a page row belongs to a document, and a
\* document has one row for a page.
SqlTypeOK ==
    /\ \A row \in document_pages : SExists(row.document_id)
    /\ \A row, other \in document_pages :
         row.document_id = other.document_id /\ row.page_index = other.page_index
            => row = other
=============================================================================
