--------------------------- MODULE SQLiteStoreProofs ---------------------------
(* The two tables of the SQLite store implement documents.Store, for any      *)
(* identities, indexes, keys and totals.  Page rows are turned into the page  *)
(* map of a document by PagesIn; CharacterisePages says when a function is    *)
(* that map, and each operation on the rows is one use of it.                 *)
EXTENDS SQLiteStore, FiniteSetTheorems, SequenceTheorems, TLAPS

\* Page rows of a set T, and the page map that listPagesTx makes of them.
RowsIn(T, id) == {row \in T : row.document_id = id}

PagesIn(T, id) ==
    [index \in {row.page_index : row \in RowsIn(T, id)} |->
        (CHOOSE row \in {r \in RowsIn(T, id) : r.page_index = index} : TRUE).object_key]

OneRowPerPage(T) ==
    \A row, other \in T :
        row.document_id = other.document_id /\ row.page_index = other.page_index
           => row = other

Rows == [identity : Identities, status : Status, done : Nat, total : Nat, error : BOOLEAN]

PageRowsOf(ids) == [document_id : ids, page_index : Indexes, object_key : Keys]

SqlInv ==
    /\ documents \in Seq(Rows)
    /\ document_pages \subseteq PageRowsOf(DOMAIN documents)
    /\ OneRowPerPage(document_pages)

LEMMA PagesOfIsPagesIn ==
    ASSUME NEW id
    PROVE  PagesOf(id) = PagesIn(document_pages, id)
  BY DEF PagesOf, PagesIn, RowsIn, PageRows, PageRow

LEMMA CharacterisePages ==
    ASSUME NEW T, NEW id, NEW f, f = [index \in DOMAIN f |-> f[index]],
           \A row \in T : row.document_id = id =>
               row.page_index \in DOMAIN f /\ f[row.page_index] = row.object_key,
           \A index \in DOMAIN f :
               \E row \in T : row.document_id = id /\ row.page_index = index
    PROVE  PagesIn(T, id) = f
  <1> DEFINE At(index) == {r \in RowsIn(T, id) : r.page_index = index}
             Chosen(index) == CHOOSE row \in At(index) : TRUE
  <1>1. {row.page_index : row \in RowsIn(T, id)} = DOMAIN f
    BY DEF RowsIn
  <1>2. ASSUME NEW index \in DOMAIN f
        PROVE  Chosen(index).object_key = f[index]
    <2>1. \E row : row \in At(index)
      BY DEF RowsIn
    <2>2. Chosen(index) \in At(index)
      <3> HIDE DEF At
      <3> QED BY <2>1
    <2> QED  BY <2>2 DEF RowsIn
  <1>3. PagesIn(T, id) = [index \in DOMAIN f |-> Chosen(index).object_key]
    BY <1>1 DEF PagesIn
  <1> HIDE DEF Chosen
  <1>4. [index \in DOMAIN f |-> Chosen(index).object_key] = [index \in DOMAIN f |-> f[index]]
    BY <1>2
  <1> QED  BY <1>3, <1>4

\* What PagesIn gives back.
LEMMA PagesInFacts ==
    ASSUME NEW T, NEW id, OneRowPerPage(T)
    PROVE  /\ \A row \in T : row.document_id = id =>
                /\ row.page_index \in DOMAIN PagesIn(T, id)
                /\ PagesIn(T, id)[row.page_index] = row.object_key
           /\ \A index \in DOMAIN PagesIn(T, id) :
                \E row \in T : row.document_id = id /\ row.page_index = index
  <1> DEFINE At(index) == {r \in RowsIn(T, id) : r.page_index = index}
             Chosen(index) == CHOOSE row \in At(index) : TRUE
             D == {row.page_index : row \in RowsIn(T, id)}
  <1>1. PagesIn(T, id) = [index \in D |-> Chosen(index).object_key]
    BY DEF PagesIn
  <1>2. ASSUME NEW row \in T, row.document_id = id
        PROVE  Chosen(row.page_index) = row
    <2>1. At(row.page_index) = {row}
      BY <1>2 DEF RowsIn, OneRowPerPage
    <2> HIDE DEF At
    <2> QED  BY <2>1
  <1> HIDE DEF Chosen
  <1> QED  BY <1>1, <1>2 DEF RowsIn
-----------------------------------------------------------------------------
(* What each statement on the page rows does to the page maps.               *)

\* A page map with one more page, and with one less; the rows
\* with all pages of a new document, and less one page.
Added(pages, index, key) ==
    [p \in DOMAIN pages \cup {index} |-> IF p = index THEN key ELSE pages[p]]
Dropped(pages, index) == [p \in DOMAIN pages \ {index} |-> pages[p]]
WithRows(T, id, pages) == T \cup {NewRow(id, index, pages[index]) : index \in DOMAIN pages}
WithoutRow(T, id, index) == T \ {row \in RowsIn(T, id) : row.page_index = index}

LEMMA NoRows ==
    ASSUME NEW T, NEW id, RowsIn(T, id) = {}
    PROVE  PagesIn(T, id) = NoPages
  BY DEF PagesIn, NoPages

LEMMA SameRows ==
    ASSUME NEW T, NEW U, NEW id, RowsIn(U, id) = RowsIn(T, id)
    PROVE  PagesIn(U, id) = PagesIn(T, id)
  BY DEF PagesIn

LEMMA InsertRow ==
    ASSUME NEW T, OneRowPerPage(T), NEW id, NEW index, NEW key,
           index \notin DOMAIN PagesIn(T, id)
    PROVE  LET U == T \cup {NewRow(id, index, key)}
               pages == PagesIn(T, id)
           IN  /\ OneRowPerPage(U)
               /\ PagesIn(U, id) = Added(pages, index, key)
  <1> DEFINE U == T \cup {NewRow(id, index, key)}
             pages == PagesIn(T, id)
             f == [p \in DOMAIN pages \cup {index} |-> IF p = index THEN key ELSE pages[p]]
  <1>1. /\ \A row \in T : row.document_id = id =>
             row.page_index \in DOMAIN pages /\ pages[row.page_index] = row.object_key
        /\ \A p \in DOMAIN pages : \E row \in T : row.document_id = id /\ row.page_index = p
    BY PagesInFacts
  <1> HIDE DEF pages
  <1>2. OneRowPerPage(U)
    BY <1>1 DEF OneRowPerPage, NewRow, pages
  <1>3. DOMAIN f = DOMAIN pages \cup {index} /\ f = [p \in DOMAIN f |-> f[p]]
    OBVIOUS
  <1>4. \A row \in U : row.document_id = id => row.page_index \in DOMAIN f /\ f[row.page_index] = row.object_key
    BY <1>1 DEF NewRow, pages
  <1>5. \A p \in DOMAIN f : \E row \in U : row.document_id = id /\ row.page_index = p
    <2>1. NewRow(id, index, key) \in U /\ NewRow(id, index, key).document_id = id
          /\ NewRow(id, index, key).page_index = index
      BY DEF NewRow
    <2> HIDE DEF f
    <2>2. \A p \in DOMAIN pages : \E row \in U : row.document_id = id /\ row.page_index = p
      BY <1>1
    <2> QED  BY <1>3, <2>1, <2>2
  <1> HIDE DEF U, f
  <1>6. PagesIn(U, id) = f
    BY <1>2, <1>3, <1>4, <1>5, CharacterisePages
  <1> QED  BY <1>2, <1>6 DEF U, f, pages, Added

LEMMA TakeRow ==
    ASSUME NEW T, OneRowPerPage(T), NEW id, NEW index
    PROVE  LET U == WithoutRow(T, id, index)
               pages == PagesIn(T, id)
           IN  /\ OneRowPerPage(U)
               /\ PagesIn(U, id) = Dropped(pages, index)
  <1> DEFINE U == WithoutRow(T, id, index)
             pages == PagesIn(T, id)
             f == [p \in DOMAIN pages \ {index} |-> pages[p]]
  <1>1. /\ \A row \in T : row.document_id = id =>
             row.page_index \in DOMAIN pages /\ pages[row.page_index] = row.object_key
        /\ \A p \in DOMAIN pages : \E row \in T : row.document_id = id /\ row.page_index = p
    BY PagesInFacts
  <1> HIDE DEF pages
  <1>2. OneRowPerPage(U)
    BY DEF OneRowPerPage, WithoutRow
  <1>3. DOMAIN f = DOMAIN pages \ {index} /\ f = [p \in DOMAIN f |-> f[p]]
    OBVIOUS
  <1>4. \A row \in U : row.document_id = id => row.page_index \in DOMAIN f /\ f[row.page_index] = row.object_key
    BY <1>1 DEF RowsIn, WithoutRow
  <1>5. \A p \in DOMAIN f : \E row \in U : row.document_id = id /\ row.page_index = p
    BY <1>1, <1>3 DEF RowsIn, WithoutRow
  <1> HIDE DEF U, f
  <1>6. PagesIn(U, id) = f
    BY <1>2, <1>3, <1>4, <1>5, CharacterisePages
  <1> QED  BY <1>2, <1>6 DEF U, f, pages, Dropped

LEMMA InsertPages ==
    ASSUME NEW T, OneRowPerPage(T), NEW id, RowsIn(T, id) = {}, NEW pages \in PageMap
    PROVE  LET U == WithRows(T, id, pages)
           IN  OneRowPerPage(U) /\ PagesIn(U, id) = pages
  <1> DEFINE U == WithRows(T, id, pages)
  <1>1. \A row \in U :
           \/ row \in T /\ row.document_id # id
           \/ \E index \in DOMAIN pages : row = NewRow(id, index, pages[index])
    BY DEF RowsIn, WithRows
  <1>2. OneRowPerPage(U)
    BY <1>1 DEF OneRowPerPage, NewRow
  <1>3. pages = [index \in DOMAIN pages |-> pages[index]]
    BY DEF PageMap
  <1>4. \A row \in U : row.document_id = id =>
            row.page_index \in DOMAIN pages /\ pages[row.page_index] = row.object_key
    BY <1>1 DEF NewRow
  <1>5. \A index \in DOMAIN pages : \E row \in U : row.document_id = id /\ row.page_index = index
    <2> TAKE index \in DOMAIN pages
    <2>1. NewRow(id, index, pages[index]) \in U
      BY DEF WithRows
    <2> QED  BY <2>1 DEF NewRow
  <1> HIDE DEF U
  <1>6. PagesIn(U, id) = pages
    BY <1>2, <1>3, <1>4, <1>5, CharacterisePages
  <1> QED  BY <1>2, <1>6 DEF U
-----------------------------------------------------------------------------
(* The table that the rows stand for.                                        *)

DocumentIn(D, T, id) ==
    [identity |-> D[id].identity, status |-> D[id].status, done |-> D[id].done,
     total |-> D[id].total, error |-> D[id].error, pages |-> PagesIn(T, id)]

TableIn(D, T) == [id \in DOMAIN D |-> DocumentIn(D, T, id)]

LEMMA SqlDocsIsTable ==
    /\ SqlDocs = TableIn(documents, document_pages)
    /\ SqlDocs' = TableIn(documents', document_pages')
  BY DEF SqlDocs, SqlDocument, PagesOf, PageRows, PageRow, TableIn, DocumentIn, PagesIn, RowsIn

\* Types, and one row for a page of a document that exists.
LEMMA InvUpdate ==
    ASSUME NEW D \in Seq(Rows), NEW id \in DOMAIN D, NEW row \in Rows
    PROVE  /\ [D EXCEPT ![id] = row] \in Seq(Rows)
           /\ DOMAIN [D EXCEPT ![id] = row] = DOMAIN D
           /\ [D EXCEPT ![id] = row][id] = row
  BY SMTT(30)

LEMMA InvImpliesSqlTypeOK == SqlInv => SqlTypeOK
  BY DEF SqlInv, SqlTypeOK, OneRowPerPage, SExists, PageRowsOf
-----------------------------------------------------------------------------
(* An operation on one document: its row is replaced, and page rows of it are *)
(* inserted or deleted.                                                       *)

LEMMA Operation ==
    ASSUME SqlInv, NEW id \in DOMAIN documents, NEW row \in Rows, Update(id, row),
           document_pages' \subseteq PageRowsOf(DOMAIN documents),
           OneRowPerPage(document_pages'),
           \A other \in DOMAIN documents \ {id} :
               RowsIn(document_pages', other) = RowsIn(document_pages, other)
    PROVE  /\ SqlInv'
           /\ id \in DOMAIN SqlDocs
           /\ SqlDocs[id] = DocumentIn(documents, document_pages, id)
           /\ SqlDocs' = [SqlDocs EXCEPT ![id] =
                [identity |-> row.identity, status |-> row.status, done |-> row.done,
                 total |-> row.total, error |-> row.error,
                 pages |-> PagesIn(document_pages', id)]]
  <1>1. /\ documents' \in Seq(Rows)
        /\ DOMAIN documents' = DOMAIN documents
        /\ documents'[id] = row
    BY InvUpdate DEF SqlInv, Update
  <1>2. SqlInv'
    BY <1>1 DEF SqlInv, OneRowPerPage
  <1>3. SqlDocs = TableIn(documents, document_pages) /\ SqlDocs' = TableIn(documents', document_pages')
    BY SqlDocsIsTable
  <1>4. SqlDocs' = [SqlDocs EXCEPT ![id] = DocumentIn(documents', document_pages', id)]
    <2>1. \A other \in DOMAIN documents \ {id} :
             DocumentIn(documents', document_pages', other) = DocumentIn(documents, document_pages, other)
      BY SameRows DEF DocumentIn, Update
    <2> QED  BY <1>1, <1>3, <2>1 DEF TableIn
  <1>5. id \in DOMAIN SqlDocs /\ SqlDocs[id] = DocumentIn(documents, document_pages, id)
    BY <1>3 DEF TableIn
  <1> QED  BY <1>1, <1>2, <1>4, <1>5 DEF DocumentIn

\* The table's view of a document and of its page slots.
LEMMA View ==
    ASSUME SqlInv, NEW id
    PROVE  /\ SExists(id) <=> Sql!Exists(id)
           /\ SLive(id) <=> Sql!Live(id)
           /\ SExists(id) =>
                /\ SqlDocs[id] = DocumentIn(documents, document_pages, id)
                /\ SqlDocs[id].status = documents[id].status
                /\ SqlDocs[id].total = documents[id].total
                /\ documents[id] \in Rows
  <1>1. DOMAIN SqlDocs = DOMAIN documents
    BY DEF SqlDocs
  <1>2. ASSUME SExists(id)
        PROVE  SqlDocs[id] = DocumentIn(documents, document_pages, id) /\ documents[id] \in Rows
    BY <1>2, SqlDocsIsTable DEF TableIn, SExists, SqlInv
  <1>3. SExists(id) <=> Sql!Exists(id)
    BY <1>1 DEF SExists, Sql!Exists
  <1> QED  BY <1>2, <1>3 DEF SLive, Sql!Live, Visible, Sql!Visible, DocumentIn

LEMMA SameGraph ==
    ASSUME NEW from, NEW to
    PROVE  Sql!CanTransition(from, to) <=> CanTransition(from, to)
  BY DEF CanTransition, Sql!CanTransition, Edges, Sql!Edges
-----------------------------------------------------------------------------
(* Each operation keeps the invariant and is the operation of the table.     *)

\* What two or more fields of a document set at once come to.
Doc(n, s, d, t, e, p) ==
    [identity |-> n, status |-> s, done |-> d, total |-> t, error |-> e, pages |-> p]

WithMeta(d, total, error) == [d EXCEPT !.total = total, !.error = error]

LEMMA SetMeta ==
    ASSUME NEW n, NEW s, NEW d, NEW t, NEW e, NEW p, NEW r, r = Doc(n, s, d, t, e, p),
           NEW total, NEW error
    PROVE  WithMeta(r, total, error) = Doc(n, s, d, total, error, p)
  <1> DEFINE q == [r EXCEPT !.total = total]
  <1>1. q = Doc(n, s, d, total, e, p)
    BY DEF Doc
  <1>2. WithMeta(r, total, error) = [q EXCEPT !.error = error]
    BY DEF WithMeta
  <1> HIDE DEF q
  <1> QED  BY <1>1, <1>2 DEF Doc

LEMMA SetNoPages ==
    ASSUME NEW n, NEW s, NEW d, NEW t, NEW e, NEW p, NEW r, r = Doc(n, s, d, t, e, p)
    PROVE  /\ Sql!WithoutPages(r) = Doc(n, s, 0, t, e, NoPages)
           /\ Sql!Emptied(r) = Doc(n, "purged", 0, 0, e, NoPages)
  <1> DEFINE q1 == [r EXCEPT !.pages = NoPages]
             q2 == [q1 EXCEPT !.done = 0]
             q3 == [q2 EXCEPT !.total = 0]
  <1>1. q1 = Doc(n, s, d, t, e, NoPages)
    BY DEF Doc
  <1>2. Sql!WithoutPages(r) = q2 /\ Sql!Emptied(r) = [q3 EXCEPT !.status = "purged"]
    BY DEF Sql!WithoutPages, Sql!Emptied, Sql!NoPages, NoPages
  <1> HIDE DEF q1
  <1>3. q2 = Doc(n, s, 0, t, e, NoPages)
    BY <1>1 DEF Doc
  <1> HIDE DEF q2
  <1>4. q3 = Doc(n, s, 0, 0, e, NoPages)
    BY <1>3 DEF Doc
  <1> HIDE DEF q3
  <1> QED  BY <1>2, <1>3, <1>4 DEF Doc

\* Operations that leave the page rows alone.
LEMMA RowOnly ==
    ASSUME SqlInv, NEW id, SExists(id), NEW row \in Rows, Update(id, row),
           UNCHANGED document_pages
    PROVE  /\ SqlInv'
           /\ SqlDocs' = [SqlDocs EXCEPT ![id] =
                [identity |-> row.identity, status |-> row.status, done |-> row.done,
                 total |-> row.total, error |-> row.error,
                 pages |-> PagesIn(document_pages, id)]]
  BY Operation DEF SqlInv, SExists

LEMMA StatusStep ==
    ASSUME SqlInv, NEW id, SExists(id), NEW status \in Status,
           Update(id, WithStatus(documents[id], status)), UNCHANGED document_pages
    PROVE  /\ SqlInv'
           /\ SqlDocs' = [SqlDocs EXCEPT ![id] = Sql!WithStatus(SqlDocs[id], status)]
  <1> DEFINE row == WithStatus(documents[id], status)
  <1>1. documents[id] \in Rows /\ SqlDocs[id] = DocumentIn(documents, document_pages, id)
    BY View
  <1>2. /\ row \in Rows
        /\ row.identity = documents[id].identity /\ row.status = status
        /\ row.done = documents[id].done /\ row.total = documents[id].total
        /\ row.error = documents[id].error
    BY <1>1 DEF WithStatus, Rows
  <1> HIDE DEF row
  <1>3. /\ SqlInv'
        /\ SqlDocs' = [SqlDocs EXCEPT ![id] =
             [identity |-> row.identity, status |-> row.status, done |-> row.done,
              total |-> row.total, error |-> row.error, pages |-> PagesIn(document_pages, id)]]
    BY <1>2, RowOnly DEF row
  <1>4. Sql!WithStatus(SqlDocs[id], status) =
           [identity |-> row.identity, status |-> row.status, done |-> row.done,
            total |-> row.total, error |-> row.error, pages |-> PagesIn(document_pages, id)]
    BY <1>1, <1>2 DEF DocumentIn, Sql!WithStatus
  <1> QED  BY <1>3, <1>4

LEMMA DeleteStep ==
    ASSUME SqlInv, NEW id, SDelete(id)
    PROVE  SqlInv' /\ Sql!Delete(id)
  <1>1. SExists(id) /\ Sql!Live(id) /\ SqlDocs[id].status = documents[id].status
    BY View DEF SDelete, SLive, SMayDelete
  <1> QED  BY <1>1, StatusStep, SameGraph DEF SDelete, Sql!Delete, Sql!Write, Status, SMayDelete, Sql!MayDelete

LEMMA RestoreStep ==
    ASSUME SqlInv, NEW id, SRestore(id)
    PROVE  SqlInv' /\ Sql!Restore(id)
  <1>1. Sql!Exists(id) /\ SqlDocs[id].status = documents[id].status
    BY View DEF SRestore, SMayRestore
  <1> QED  BY <1>1, StatusStep DEF SRestore, Sql!Restore, Sql!Write, Status, SMayRestore, Sql!MayRestore

\* No page row is no page.
LEMMA EmptyView ==
    ASSUME SqlInv, NEW id, PageRows(id) = {}
    PROVE  DOMAIN PagesIn(document_pages, id) = {}
  BY DEF PagesIn, RowsIn, PageRows

LEMMA TransitionStep ==
    ASSUME SqlInv, NEW id, NEW status \in Status, STransitionTo(id, status)
    PROVE  SqlInv' /\ Sql!TransitionTo(id, status)
  <1>1. Sql!Exists(id) /\ SqlDocs[id] = DocumentIn(documents, document_pages, id)
    BY View DEF STransitionTo, SMayTransition
  <1>2. Sql!CanTransition(SqlDocs[id].status, status)
    BY View, SameGraph DEF STransitionTo, SMayTransition
  <1>3. status = "purged" => Sql!IsEmpty(SqlDocs[id])
    BY <1>1, EmptyView DEF STransitionTo, Sql!IsEmpty, DocumentIn, SMayTransition
  <1> QED  BY <1>1, <1>2, <1>3, StatusStep DEF STransitionTo, Sql!TransitionTo, Sql!MayTransition, Sql!Write, SMayTransition

LEMMA UpdateMetaStep ==
    ASSUME SqlInv, NEW id, NEW total \in Totals \cup {documents[id].total},
           NEW error \in BOOLEAN, SUpdateMeta(id, total, error)
    PROVE  /\ SqlInv'
           /\ Sql!UpdateMeta(id, total, error)
           /\ total \in Totals \cup {SqlDocs[id].total}
  <1> DEFINE row == [documents[id] EXCEPT !.total = total, !.error = error]
  <1>1. /\ SExists(id) /\ Sql!Live(id)
        /\ documents[id] \in Rows /\ SqlDocs[id] = DocumentIn(documents, document_pages, id)
    BY View DEF SUpdateMeta, SLive
  <1>2. /\ row \in Rows
        /\ row.identity = documents[id].identity /\ row.status = documents[id].status
        /\ row.done = documents[id].done /\ row.total = total /\ row.error = error
    BY <1>1, PageNumbers DEF Rows
  <1> HIDE DEF row
  <1>3. /\ SqlInv'
        /\ SqlDocs' = [SqlDocs EXCEPT ![id] =
             [identity |-> row.identity, status |-> row.status, done |-> row.done,
              total |-> row.total, error |-> row.error, pages |-> PagesIn(document_pages, id)]]
    BY <1>1, <1>2, RowOnly DEF row, SUpdateMeta
  <1>4. [SqlDocs[id] EXCEPT !.total = total, !.error = error] =
           [identity |-> row.identity, status |-> row.status, done |-> row.done,
            total |-> row.total, error |-> row.error, pages |-> PagesIn(document_pages, id)]
    <2>1. SqlDocs[id] = Doc(row.identity, documents[id].status, documents[id].done,
                            documents[id].total, documents[id].error,
                            PagesIn(document_pages, id))
      BY <1>1, <1>2 DEF DocumentIn, Doc
    <2>2. WithMeta(SqlDocs[id], total, error) =
             Doc(row.identity, documents[id].status, documents[id].done, total, error,
                 PagesIn(document_pages, id))
      BY <2>1, SetMeta
    <2> QED  BY <1>2, <2>2 DEF Doc, WithMeta
  <1>5. SqlDocs[id].total = documents[id].total
    BY <1>1, View
  <1> QED  BY <1>1, <1>3, <1>4, <1>5 DEF Sql!UpdateMeta, Sql!Write

\* Operations that delete all the page rows of the document.
LEMMA ClearStep ==
    ASSUME SqlInv, NEW id, SExists(id), NEW row \in Rows, Update(id, row),
           document_pages' = document_pages \ PageRows(id)
    PROVE  /\ SqlInv'
           /\ SqlDocs' = [SqlDocs EXCEPT ![id] =
                [identity |-> row.identity, status |-> row.status, done |-> row.done,
                 total |-> row.total, error |-> row.error, pages |-> NoPages]]
  <1>1. RowsIn(document_pages', id) = {}
    BY DEF RowsIn, PageRows
  <1>2. \A other \in DOMAIN documents \ {id} :
           RowsIn(document_pages', other) = RowsIn(document_pages, other)
    BY DEF RowsIn, PageRows
  <1>3. OneRowPerPage(document_pages') /\ document_pages' \subseteq PageRowsOf(DOMAIN documents)
    BY DEF SqlInv, OneRowPerPage
  <1>4. PagesIn(document_pages', id) = NoPages
    BY <1>1, NoRows
  <1> QED  BY <1>2, <1>3, <1>4, Operation DEF SExists

LEMMA ResetPagesStep ==
    ASSUME SqlInv, NEW id, SResetPages(id)
    PROVE  SqlInv' /\ Sql!ResetPages(id)
  <1> DEFINE row == [documents[id] EXCEPT !.done = 0]
  <1>1. /\ SExists(id) /\ Sql!Live(id)
        /\ documents[id] \in Rows /\ SqlDocs[id] = DocumentIn(documents, document_pages, id)
    BY View DEF SResetPages, SLive
  <1>2. /\ row \in Rows
        /\ row.identity = documents[id].identity /\ row.status = documents[id].status
        /\ row.done = 0 /\ row.total = documents[id].total /\ row.error = documents[id].error
    BY <1>1 DEF Rows
  <1> HIDE DEF row
  <1>3. /\ SqlInv'
        /\ SqlDocs' = [SqlDocs EXCEPT ![id] =
             [identity |-> row.identity, status |-> row.status, done |-> row.done,
              total |-> row.total, error |-> row.error, pages |-> NoPages]]
    BY <1>1, <1>2, ClearStep DEF row, SResetPages
  <1>4. Sql!WithoutPages(SqlDocs[id]) =
           [identity |-> row.identity, status |-> row.status, done |-> row.done,
            total |-> row.total, error |-> row.error, pages |-> NoPages]
    <2>1. SqlDocs[id] = Doc(row.identity, documents[id].status, documents[id].done,
                            documents[id].total, documents[id].error,
                            PagesIn(document_pages, id))
      BY <1>1, <1>2 DEF DocumentIn, Doc
    <2>2. Sql!WithoutPages(SqlDocs[id]) =
             Doc(row.identity, documents[id].status, 0, documents[id].total,
                 documents[id].error, NoPages)
      BY <2>1, SetNoPages
    <2> QED  BY <1>2, <2>2 DEF Doc
  <1> QED  BY <1>1, <1>3, <1>4 DEF Sql!ResetPages, Sql!Write

LEMMA PurgeStep ==
    ASSUME SqlInv, NEW id, SPurge(id)
    PROVE  SqlInv' /\ Sql!Purge(id)
  <1> DEFINE row == [documents[id] EXCEPT !.done = 0, !.total = 0, !.status = "purged"]
  <1>1. /\ SExists(id) /\ Sql!Exists(id)
        /\ documents[id] \in Rows /\ SqlDocs[id] = DocumentIn(documents, document_pages, id)
    BY View DEF SPurge, SMayPurge
  <1>2. /\ row \in Rows
        /\ row.identity = documents[id].identity /\ row.status = "purged"
        /\ row.done = 0 /\ row.total = 0 /\ row.error = documents[id].error
    BY <1>1 DEF Rows, Status
  <1> HIDE DEF row
  <1>3. /\ SqlInv'
        /\ SqlDocs' = [SqlDocs EXCEPT ![id] =
             [identity |-> row.identity, status |-> row.status, done |-> row.done,
              total |-> row.total, error |-> row.error, pages |-> NoPages]]
    BY <1>1, <1>2, ClearStep DEF row, SPurge, SMayPurge
  <1>4. Sql!CanTransition(SqlDocs[id].status, "purged")
    BY View, SameGraph DEF SPurge, SMayPurge
  <1>5. Sql!Emptied(SqlDocs[id]) =
           [identity |-> row.identity, status |-> row.status, done |-> row.done,
            total |-> row.total, error |-> row.error, pages |-> NoPages]
    <2>1. SqlDocs[id] = Doc(row.identity, documents[id].status, documents[id].done,
                            documents[id].total, documents[id].error,
                            PagesIn(document_pages, id))
      BY <1>1, <1>2 DEF DocumentIn, Doc
    <2>2. Sql!Emptied(SqlDocs[id]) =
             Doc(row.identity, "purged", 0, 0, documents[id].error, NoPages)
      BY <2>1, SetNoPages
    <2> QED  BY <1>2, <2>2 DEF Doc
  <1> QED  BY <1>1, <1>3, <1>4, <1>5 DEF Sql!Purge, Sql!MayPurge, Sql!Write

LEMMA SetOnePage ==
    ASSUME NEW n, NEW s, NEW d, NEW t, NEW e, NEW p, NEW r, r = Doc(n, s, d, t, e, p),
           NEW index, NEW key
    PROVE  Sql!WithPage(r, index, key) =
               Doc(n, s, d + 1, IF t < d + 1 THEN d + 1 ELSE t, e, Added(p, index, key))
  <1> DEFINE q1 == [r EXCEPT !.pages = Added(p, index, key)]
             q2 == [q1 EXCEPT !.done = d + 1]
  <1>1. r.pages = p /\ r.done = d /\ r.total = t
    BY DEF Doc
  <1>2. Sql!WithPage(r, index, key) = [q2 EXCEPT !.total = IF t < d + 1 THEN d + 1 ELSE t]
    BY <1>1 DEF Sql!WithPage, Added
  <1>3. q1 = Doc(n, s, d, t, e, Added(p, index, key))
    BY DEF Doc
  <1> HIDE DEF q1
  <1>4. q2 = Doc(n, s, d + 1, t, e, Added(p, index, key))
    BY <1>3 DEF Doc
  <1> HIDE DEF q2
  <1> QED  BY <1>2, <1>4 DEF Doc

LEMMA UnsetOnePage ==
    ASSUME NEW n, NEW s, NEW d, NEW t, NEW e, NEW p, NEW r, r = Doc(n, s, d, t, e, p),
           NEW index
    PROVE  Sql!WithoutPage(r, index) =
               Doc(n, s, IF d > 0 THEN d - 1 ELSE d, t, e, Dropped(p, index))
  <1> DEFINE q == [r EXCEPT !.pages = Dropped(p, index)]
  <1>1. r.pages = p /\ r.done = d
    BY DEF Doc
  <1>2. Sql!WithoutPage(r, index) = [q EXCEPT !.done = IF d > 0 THEN d - 1 ELSE d]
    BY <1>1 DEF Sql!WithoutPage, Dropped
  <1>3. q = Doc(n, s, d, t, e, Dropped(p, index))
    BY DEF Doc
  <1> HIDE DEF q
  <1> QED  BY <1>2, <1>3 DEF Doc

LEMMA AddPageStep ==
    ASSUME SqlInv, NEW id, NEW index \in Indexes, NEW key \in Keys, SAddPage(id, index, key)
    PROVE  SqlInv' /\ Sql!AddPage(id, index, key)
  <1> DEFINE d     == documents[id]
             total == IF d.total < d.done + 1 THEN d.done + 1 ELSE d.total
             r     == [d EXCEPT !.done = d.done + 1]
             row   == [r EXCEPT !.total = total]
             pages == PagesIn(document_pages, id)
  <1>1. /\ SExists(id) /\ Sql!Live(id) /\ d \in Rows
        /\ SqlDocs[id] = DocumentIn(documents, document_pages, id)
    BY View DEF SAddPage, SLive, SMayAddPage
  <1>2. /\ row \in Rows
        /\ row.identity = d.identity /\ row.status = d.status
        /\ row.done = d.done + 1 /\ row.total = total /\ row.error = d.error
    <2>1. total \in Nat
      BY <1>1 DEF Rows
    <2>2. /\ r \in Rows /\ r.done = d.done + 1 /\ r.identity = d.identity
          /\ r.status = d.status /\ r.error = d.error
      BY <1>1 DEF Rows
    <2> HIDE DEF r, total
    <2> QED  BY <2>1, <2>2 DEF Rows
  <1>3. Update(id, row) /\ document_pages' = document_pages \cup {NewRow(id, index, key)}
    BY DEF SAddPage, SMayAddPage
  <1>4. OneRowPerPage(document_pages) /\ document_pages \subseteq PageRowsOf(DOMAIN documents)
    BY DEF SqlInv
  <1>5. index \notin DOMAIN pages
    BY <1>4, PagesInFacts DEF SAddPage, PageRow, PageRows, SMayAddPage
  <1> HIDE DEF row, r, total, d
  <1>6. /\ OneRowPerPage(document_pages')
        /\ PagesIn(document_pages', id) = Added(pages, index, key)
    BY <1>3, <1>4, <1>5, InsertRow
  <1>7. document_pages' \subseteq PageRowsOf(DOMAIN documents)
    BY <1>1, <1>3, <1>4 DEF PageRowsOf, NewRow, SExists
  <1>8. \A other \in DOMAIN documents \ {id} :
           RowsIn(document_pages', other) = RowsIn(document_pages, other)
    BY <1>3 DEF RowsIn, NewRow
  <1>9. /\ SqlInv'
        /\ SqlDocs' = [SqlDocs EXCEPT ![id] =
             [identity |-> row.identity, status |-> row.status, done |-> row.done,
              total |-> row.total, error |-> row.error, pages |-> PagesIn(document_pages', id)]]
    BY <1>1, <1>2, <1>3, <1>6, <1>7, <1>8, Operation DEF SExists
  <1>10. SqlDocs[id] = Doc(d.identity, d.status, d.done, d.total, d.error, pages)
    BY <1>1 DEF DocumentIn, Doc, d
  <1>11. Sql!WithPage(SqlDocs[id], index, key) =
            Doc(d.identity, d.status, d.done + 1, total, d.error, PagesIn(document_pages', id))
    BY <1>6, <1>10, SetOnePage DEF total
  <1>12. SqlDocs[id].pages = pages
    BY <1>10 DEF Doc
  <1> QED  BY <1>1, <1>2, <1>5, <1>9, <1>11, <1>12 DEF Doc, Sql!AddPage, Sql!MayAddPage, Sql!Write

LEMMA RemovePageStep ==
    ASSUME SqlInv, NEW id, NEW index \in Indexes, SRemovePage(id, index)
    PROVE  SqlInv' /\ Sql!RemovePage(id, index)
  <1> DEFINE d     == documents[id]
             done  == IF d.done > 0 THEN d.done - 1 ELSE d.done
             row   == [d EXCEPT !.done = done]
             pages == PagesIn(document_pages, id)
  <1>1. /\ SExists(id) /\ Sql!Live(id) /\ d \in Rows
        /\ SqlDocs[id] = DocumentIn(documents, document_pages, id)
    BY View DEF SRemovePage, SLive, SMayRemovePage
  <1>2. /\ row \in Rows
        /\ row.identity = d.identity /\ row.status = d.status
        /\ row.done = done /\ row.total = d.total /\ row.error = d.error
    BY <1>1 DEF Rows
  <1>3. Update(id, row)
    BY DEF SRemovePage, SMayRemovePage
  <1>4. document_pages' = WithoutRow(document_pages, id, index)
    BY DEF SRemovePage, PageRow, PageRows, RowsIn, WithoutRow, SMayRemovePage
  <1>5. OneRowPerPage(document_pages) /\ document_pages \subseteq PageRowsOf(DOMAIN documents)
    BY DEF SqlInv
  <1>6. index \in DOMAIN pages
    BY <1>5, PagesInFacts DEF SRemovePage, PageRow, PageRows, SMayRemovePage
  <1> HIDE DEF row, done, d
  <1>7. /\ OneRowPerPage(document_pages')
        /\ PagesIn(document_pages', id) = Dropped(pages, index)
    BY <1>4, <1>5, TakeRow
  <1>8. document_pages' \subseteq PageRowsOf(DOMAIN documents)
    BY <1>4, <1>5 DEF WithoutRow
  <1>9. \A other \in DOMAIN documents \ {id} :
           RowsIn(document_pages', other) = RowsIn(document_pages, other)
    BY <1>4 DEF RowsIn, WithoutRow
  <1>10. /\ SqlInv'
         /\ SqlDocs' = [SqlDocs EXCEPT ![id] =
              [identity |-> row.identity, status |-> row.status, done |-> row.done,
               total |-> row.total, error |-> row.error, pages |-> PagesIn(document_pages', id)]]
    BY <1>1, <1>2, <1>3, <1>7, <1>8, <1>9, Operation DEF SExists
  <1>11. SqlDocs[id] = Doc(d.identity, d.status, d.done, d.total, d.error, pages)
    BY <1>1 DEF DocumentIn, Doc, d
  <1>12. Sql!WithoutPage(SqlDocs[id], index) =
            Doc(d.identity, d.status, done, d.total, d.error, PagesIn(document_pages', id))
    BY <1>7, <1>11, UnsetOnePage DEF done
  <1>13. SqlDocs[id].pages = pages
    BY <1>11 DEF Doc
  <1> QED  BY <1>1, <1>2, <1>6, <1>10, <1>12, <1>13 DEF Doc, Sql!RemovePage, Sql!Write, Sql!MayRemovePage

\* The operators of a standard module that Sql brings along are the same.
LEMMA SameFiniteSets ==
    ASSUME NEW S
    PROVE  Sql!Cardinality(S) = Cardinality(S) /\ (Sql!IsFiniteSet(S) <=> IsFiniteSet(S))
  BY DEF Sql!Cardinality, Cardinality, Sql!IsFiniteSet, IsFiniteSet

LEMMA SamePageMap == Sql!PageMap = PageMap
  BY SameFiniteSets DEF Sql!PageMap, PageMap

LEMMA CreateStep ==
    ASSUME SqlInv, NEW n \in Identities, NEW pages \in PageMap,
           NEW total \in Nat, NEW error \in BOOLEAN, SCreate(n, pages, total, error)
    PROVE  SqlInv' /\ Sql!Create(n, pages, total, error)
  <1> DEFINE count == Cardinality(DOMAIN pages)
             most  == IF total < count THEN count ELSE total
             row   == [identity |-> n, status |-> "queued", done |-> count,
                       total |-> most, error |-> error]
             id    == Len(documents) + 1
             T     == document_pages
             U     == WithRows(T, id, pages)
             new   == Sql!NewDocument(n, pages, total, error)
             all   == {SqlDocs[i] : i \in DOMAIN documents} \cup {new}
  <1>1. PICK S \in SUBSET Indexes : IsFiniteSet(S) /\ pages \in [S -> Keys]
    BY DEF PageMap
  <1>2. DOMAIN pages = S /\ count \in Nat
    BY <1>1, FS_CardinalityType
  <1>3. row \in Rows
    BY <1>2 DEF Rows, Status
  <1>4. /\ documents \in Seq(Rows) /\ OneRowPerPage(T)
        /\ T \subseteq PageRowsOf(DOMAIN documents)
    BY DEF SqlInv
  <1>5. documents' = Append(documents, row) /\ document_pages' = U
    BY DEF SCreate, WithRows, SMayCreate
  <1>6. /\ documents' \in Seq(Rows) /\ DOMAIN documents' = DOMAIN documents \cup {id}
        /\ DOMAIN documents = 1 .. Len(documents) /\ Len(documents) \in Nat
        /\ documents'[id] = row /\ \A i \in DOMAIN documents : documents'[i] = documents[i]
    BY <1>3, <1>4, <1>5
  <1>7. RowsIn(T, id) = {}
    BY <1>4, <1>6 DEF PageRowsOf, RowsIn
  <1>8. OneRowPerPage(U) /\ PagesIn(U, id) = pages
    <2> HIDE DEF T, id
    <2> QED  BY <1>4, <1>7, InsertPages
  <1>9. U \subseteq PageRowsOf(DOMAIN documents')
    BY <1>1, <1>2, <1>4, <1>6 DEF PageRowsOf, NewRow, WithRows
  <1>10. SqlInv'
    BY <1>5, <1>6, <1>8, <1>9 DEF SqlInv, OneRowPerPage
  <1>11. SqlDocs = TableIn(documents, T) /\ SqlDocs' = TableIn(documents', U)
    BY <1>5, SqlDocsIsTable
  <1>12. \A i \in DOMAIN documents : DocumentIn(documents', U, i) = DocumentIn(documents, T, i)
    <2> SUFFICES ASSUME NEW i \in DOMAIN documents
                 PROVE  DocumentIn(documents', U, i) = DocumentIn(documents, T, i)
      OBVIOUS
    <2>1. RowsIn(U, i) = RowsIn(T, i)
      BY <1>6 DEF RowsIn, NewRow, WithRows
    <2> QED  BY <1>6, <2>1, SameRows DEF DocumentIn
  <1>13. DocumentIn(documents', U, id) = new
    <2>1. /\ documents'[id].identity = n /\ documents'[id].status = "queued"
          /\ documents'[id].done = count /\ documents'[id].total = most
          /\ documents'[id].error = error
      BY <1>6
    <2>2. Sql!Cardinality(DOMAIN pages) = count
      BY SameFiniteSets
    <2> HIDE DEF row, count, U, T, id
    <2> QED  BY <1>8, <2>1, <2>2 DEF DocumentIn, Sql!NewDocument
  <1> HIDE DEF U, new, row, T
  <1>14. SqlDocs' = [i \in 1 .. id |-> IF i = id THEN new ELSE SqlDocs[i]]
    BY <1>6, <1>11, <1>12, <1>13 DEF TableIn
  <1>15. SqlDocs \in Seq(all) /\ Len(SqlDocs) = Len(documents)
    BY <1>6, <1>11 DEF TableIn
  <1>16. SqlDocs' = Append(SqlDocs, new)
    <2>1. /\ Append(SqlDocs, new) \in Seq(all)
          /\ Len(Append(SqlDocs, new)) = id
          /\ Append(SqlDocs, new)[id] = new
          /\ \A i \in 1 .. Len(documents) : Append(SqlDocs, new)[i] = SqlDocs[i]
      <3>1. new \in all
        OBVIOUS
      <3> HIDE DEF all
      <3> QED  BY <1>15, <3>1, AppendProperties
    <2>2. Append(SqlDocs, new) = [i \in 1 .. id |-> Append(SqlDocs, new)[i]]
      <3> HIDE DEF all
      <3>1. Append(SqlDocs, new) \in [1 .. id -> all]
        BY <2>1, LenProperties
      <3> QED  BY <3>1
    <2>3. \A i \in 1 .. id : i = id \/ i \in 1 .. Len(documents)
      BY <1>6
    <2> QED  BY <1>14, <2>1, <2>2, <2>3
  <1>17. ~Sql!Taken(n)
    BY <1>11 DEF Sql!Taken, TableIn, DocumentIn, SCreate, SMayCreate
  <1> QED  BY <1>10, <1>16, <1>17, SameFiniteSets DEF Sql!Create, Sql!Contiguous, Contiguous, SCreate, new, Sql!MayCreate, SMayCreate

-----------------------------------------------------------------------------

\* A step of the SQLite store keeps its invariant and is a step of the table.
LEMMA SqlStepOK ==
    ASSUME SqlInv, [SqlNext]_sqlVars
    PROVE  SqlInv' /\ [Sql!StoreNext]_SqlDocs
  <1>1. CASE UNCHANGED sqlVars
    BY <1>1 DEF sqlVars, SqlInv, OneRowPerPage, SqlDocs, SqlDocument, PagesOf, PageRows, PageRow
  <1>2. CASE \E n \in Identities, pages \in PageMap,
                total \in Totals \cup {0}, error \in BOOLEAN : SCreate(n, pages, total, error)
    BY <1>2, CreateStep, SamePageMap, PageNumbers DEF Sql!StoreNext
  <1>3. ASSUME NEW id \in DOMAIN documents, SqlStep(id)
        PROVE  SqlInv' /\ Sql!StoreNext
    <2>1. id \in DOMAIN SqlDocs
      BY View DEF SExists, Sql!Exists
    <2> SUFFICES SqlInv' /\ Sql!StoreStep(id)
      BY <2>1 DEF Sql!StoreNext
    <2>2. CASE SDelete(id)
      BY <2>2, DeleteStep DEF Sql!StoreStep
    <2>3. CASE \E status \in Status : STransitionTo(id, status)
      BY <2>3, TransitionStep DEF Sql!StoreStep, Sql!Status, Status
    <2>4. CASE \E total \in Totals \cup {documents[id].total}, error \in BOOLEAN :
                  SUpdateMeta(id, total, error)
      BY <2>4, UpdateMetaStep DEF Sql!StoreStep
    <2>5. CASE SResetPages(id)
      BY <2>5, ResetPagesStep DEF Sql!StoreStep
    <2>6. CASE \E index \in Indexes, key \in Keys : SAddPage(id, index, key)
      BY <2>6, AddPageStep DEF Sql!StoreStep
    <2>7. CASE \E index \in Indexes : SRemovePage(id, index)
      BY <2>7, RemovePageStep DEF Sql!StoreStep
    <2>8. CASE SPurge(id)
      BY <2>8, PurgeStep DEF Sql!StoreStep
    <2>9. CASE SRestore(id)
      BY <2>9, RestoreStep DEF Sql!StoreStep
    <2> QED  BY <1>3, <2>2, <2>3, <2>4, <2>5, <2>6, <2>7, <2>8, <2>9 DEF SqlStep
  <1> QED  BY <1>1, <1>2, <1>3 DEF SqlNext

LEMMA SqlInitOK == SqlInit => SqlInv /\ Sql!StoreInit
  <1> SUFFICES ASSUME SqlInit PROVE SqlInv /\ Sql!StoreInit
    OBVIOUS
  <1>1. documents = << >> /\ document_pages = {}
    BY DEF SqlInit
  <1>2. SqlInv
    BY <1>1 DEF SqlInv, OneRowPerPage
  <1>3. SqlDocs = [id \in {} |-> SqlDocument(id)]
    BY <1>1 DEF SqlDocs
  <1>4. SqlDocs = << >>
    BY <1>3
  <1> QED  BY <1>2, <1>4 DEF Sql!StoreInit

\* Types and the schema's constraints hold of the two tables at any time.
THEOREM SqlInvariant == SqlSpec => []SqlInv
  <1>1. SqlInv /\ [SqlNext]_sqlVars => SqlInv'
    BY SqlStepOK
  <1> QED  BY <1>1, SqlInitOK, PTL DEF SqlSpec

\* A page row belongs to a document, and a document has one row for a page.
THEOREM SqlConstraints == SqlSpec => []SqlTypeOK
  BY SqlInvariant, InvImpliesSqlTypeOK, PTL

\* Whatever is called on the SQLite store, its two tables do what documents.Store
\* says: progress and page rows change together, and a refused call changes neither.
THEOREM SqlImplementsStore == SqlSpec => SqlImplements
  <1>1. SqlInv /\ [SqlNext]_sqlVars => [Sql!StoreNext]_SqlDocs
    BY SqlStepOK
  <1> QED  BY <1>1, SqlInitOK, SqlInvariant, PTL DEF SqlSpec, SqlImplements, Sql!StoreSpec
================================================================================
