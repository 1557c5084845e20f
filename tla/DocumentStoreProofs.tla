-------------------------- MODULE DocumentStoreProofs --------------------------
(* Proofs about documents.Store for any identities, indexes, keys and totals. *)
(* StoreInv is inductive: each operation rewrites at most one row, so the     *)
(* proof reduces a step to what it does to that row (Rewrite) or to the row   *)
(* that Create appends.                                                       *)
EXTENDS DocumentStore, FiniteSetTheorems, SequenceTheorems, TLAPS

\* What StoreInv says of one row.
RowOK(d) ==
    /\ d \in Document
    /\ d.done = Cardinality(DOMAIN d.pages)
    /\ d.status = "purged" => IsEmpty(d)

\* The page map of a document is a finite partial function.
LEMMA PageMapFinite ==
    ASSUME NEW pages \in PageMap
    PROVE  /\ IsFiniteSet(DOMAIN pages)
           /\ DOMAIN pages \in SUBSET Indexes
           /\ pages \in [DOMAIN pages -> Keys]
           /\ Cardinality(DOMAIN pages) \in Nat
  <1>1. PICK S \in {T \in SUBSET Indexes : IsFiniteSet(T)} : pages \in [S -> Keys]
    BY DEF PageMap
  <1>2. DOMAIN pages = S
    BY <1>1
  <1> QED  BY <1>1, <1>2, FS_CardinalityType

LEMMA PageMapIntro ==
    ASSUME NEW S \in SUBSET Indexes, IsFiniteSet(S), NEW pages \in [S -> Keys]
    PROVE  pages \in PageMap
  BY DEF PageMap

LEMMA NoPagesFacts == NoPages \in PageMap /\ DOMAIN NoPages = {} /\ Cardinality({}) = 0
  <1>1. NoPages \in [{} -> Keys]
    BY DEF NoPages
  <1> QED  BY <1>1, FS_EmptySet, PageMapIntro DEF NoPages

-----------------------------------------------------------------------------
(* Each operation on one document keeps a row that is in order in order.     *)

LEMMA NewDocumentOK ==
    ASSUME NEW n \in Identities, NEW pages \in PageMap, NEW total \in Nat, NEW error \in BOOLEAN
    PROVE  RowOK(NewDocument(n, pages, total, error))
  BY PageMapFinite DEF RowOK, NewDocument, Document, Status

LEMMA WithStatusOK ==
    ASSUME NEW d, RowOK(d), NEW status \in Status, status = "purged" => IsEmpty(d)
    PROVE  RowOK(WithStatus(d, status))
  BY DEF RowOK, WithStatus, Document, IsEmpty

LEMMA WithPageOK ==
    ASSUME NEW d, RowOK(d), NEW index \in Indexes \ DOMAIN d.pages, NEW key \in Keys,
           d.status # "purged"
    PROVE  RowOK(WithPage(d, index, key)) /\ WithPage(d, index, key).identity = d.identity
  <1> DEFINE S == DOMAIN d.pages \cup {index}
  <1>0. PICK pages : pages = [p \in S |-> IF p = index THEN key ELSE d.pages[p]]
    OBVIOUS
  <1>1. /\ IsFiniteSet(DOMAIN d.pages) /\ DOMAIN d.pages \in SUBSET Indexes
        /\ d.pages \in [DOMAIN d.pages -> Keys]
    BY PageMapFinite DEF RowOK, Document
  <1>2. IsFiniteSet(S) /\ Cardinality(S) = Cardinality(DOMAIN d.pages) + 1
    BY <1>1, FS_AddElement
  <1>3. pages \in PageMap
    BY <1>0, <1>1, <1>2, PageMapIntro
  <1>4. DOMAIN pages = S
    BY <1>0
  <1>5. WithPage(d, index, key) =
           [d EXCEPT !.pages = pages, !.done = d.done + 1,
                     !.total = IF d.total < d.done + 1 THEN d.done + 1 ELSE d.total]
    BY <1>0 DEF WithPage
  <1>6. /\ WithPage(d, index, key) \in Document
        /\ WithPage(d, index, key).pages = pages
        /\ WithPage(d, index, key).done = d.done + 1
        /\ WithPage(d, index, key).status = d.status
        /\ WithPage(d, index, key).identity = d.identity
    <2>1. /\ d \in Document /\ d.done + 1 \in Nat
          /\ (IF d.total < d.done + 1 THEN d.done + 1 ELSE d.total) \in Nat
      BY DEF RowOK, Document
    <2> QED  BY <1>3, <1>5, <2>1 DEF Document
  <1> QED  BY <1>2, <1>4, <1>6 DEF RowOK

LEMMA WithoutPageOK ==
    ASSUME NEW d, RowOK(d), NEW index \in DOMAIN d.pages, d.status # "purged"
    PROVE  RowOK(WithoutPage(d, index)) /\ WithoutPage(d, index).identity = d.identity
  <1> DEFINE S == DOMAIN d.pages \ {index}
  <1>0. PICK pages : pages = [p \in S |-> d.pages[p]]
    OBVIOUS
  <1>1. /\ IsFiniteSet(DOMAIN d.pages) /\ DOMAIN d.pages \in SUBSET Indexes
        /\ d.pages \in [DOMAIN d.pages -> Keys]
    BY PageMapFinite DEF RowOK, Document
  <1>2. /\ IsFiniteSet(S)
        /\ Cardinality(S) = Cardinality(DOMAIN d.pages) - 1
        /\ Cardinality(S) \in Nat
    BY <1>1, FS_RemoveElement, FS_CardinalityType
  <1>3. pages \in PageMap
    BY <1>0, <1>1, <1>2, PageMapIntro
  <1>4. DOMAIN pages = S
    BY <1>0
  <1>5. d.done > 0 /\ d.done \in Nat
    BY <1>2 DEF RowOK, Document
  <1>6. WithoutPage(d, index) =
           [d EXCEPT !.pages = pages, !.done = d.done - 1, !.total = d.total]
    BY <1>0, <1>5 DEF WithoutPage, RowOK, Document
  <1>7. /\ WithoutPage(d, index) \in Document
        /\ WithoutPage(d, index).pages = pages
        /\ WithoutPage(d, index).done = d.done - 1
        /\ WithoutPage(d, index).status = d.status
        /\ WithoutPage(d, index).identity = d.identity
    <2>1. d \in Document /\ d.done - 1 \in Nat /\ d.total \in Nat
      BY <1>5 DEF RowOK, Document
    <2> QED  BY <1>3, <1>6, <2>1 DEF Document
  <1> QED  BY <1>2, <1>4, <1>7 DEF RowOK

LEMMA WithoutPagesOK ==
    ASSUME NEW d, RowOK(d), d.status # "purged"
    PROVE  RowOK(WithoutPages(d))
  BY NoPagesFacts DEF RowOK, WithoutPages, Document

LEMMA EmptiedOK ==
    ASSUME NEW d, RowOK(d)
    PROVE  RowOK(Emptied(d))
  BY NoPagesFacts DEF RowOK, Emptied, Document, Status, IsEmpty

-----------------------------------------------------------------------------
(* From rows to the table.                                                   *)

\* Every row in order, and identities distinct: the inductive form of StoreInv.
TableOK ==
    /\ docs \in Seq(Document)
    /\ \A id \in DOMAIN docs : RowOK(docs[id])
    /\ IdentityUnique

LEMMA TableOKisStoreInv == TableOK <=> StoreInv
  <1>1. ASSUME docs \in Seq(Document), NEW id \in DOMAIN docs
        PROVE  docs[id] \in Document /\ IsFiniteSet(DOMAIN docs[id].pages)
    <2>1. docs[id] \in Document
      BY <1>1
    <2> QED  BY <2>1, PageMapFinite DEF Document
  <1> QED  BY <1>1 DEF TableOK, StoreInv, DocsTypeOK, DoneCountsPages, PurgedIsEmpty, RowOK

\* Rewriting one row by a row in order of the same identity.
LEMMA Rewrite ==
    ASSUME TableOK, NEW id \in DOMAIN docs, NEW d, RowOK(d),
           d.identity = docs[id].identity, Write(id, d)
    PROVE  /\ TableOK'
           /\ DOMAIN docs' = DOMAIN docs
           /\ \A j \in DOMAIN docs : docs'[j] = IF j = id THEN d ELSE docs[j]
  <1>1. docs \in Seq(Document) /\ d \in Document /\ DOMAIN docs = 1 .. Len(docs)
    BY DEF TableOK, RowOK
  <1>2. docs' = [docs EXCEPT ![id] = d]
    BY DEF Write
  <1>3. /\ docs' \in Seq(Document)
        /\ DOMAIN docs' = DOMAIN docs
        /\ \A j \in DOMAIN docs : docs'[j] = IF j = id THEN d ELSE docs[j]
    BY <1>1, <1>2, ExceptSeq
  <1>4. \A j \in DOMAIN docs : docs'[j].identity = docs[j].identity
    BY <1>3
  <1>5. \A j \in DOMAIN docs' : RowOK(docs'[j])
    BY <1>3 DEF TableOK
  <1>6. IdentityUnique'
    BY <1>3, <1>4 DEF TableOK, IdentityUnique
  <1> QED  BY <1>3, <1>5, <1>6 DEF TableOK, RowOK

\* Appending a row in order of a new identity.
LEMMA AppendRow ==
    ASSUME TableOK, NEW d, RowOK(d), ~Taken(d.identity), docs' = Append(docs, d)
    PROVE  /\ TableOK'
           /\ DOMAIN docs \subseteq DOMAIN docs'
           /\ \A id \in DOMAIN docs : docs'[id] = docs[id]
  <1>1. docs \in Seq(Document) /\ d \in Document /\ DOMAIN docs = 1 .. Len(docs)
    BY DEF TableOK, RowOK
  <1>2. /\ docs' \in Seq(Document)
        /\ DOMAIN docs' = 1 .. (Len(docs) + 1)
        /\ \A id \in DOMAIN docs : docs'[id] = docs[id]
        /\ docs'[Len(docs) + 1] = d
    BY <1>1, AppendProperties
  <1>3. DOMAIN docs' = DOMAIN docs \cup {Len(docs) + 1}
    BY <1>1, <1>2
  <1>4. \A id \in DOMAIN docs' : RowOK(docs'[id])
    BY <1>2, <1>3 DEF TableOK
  <1>5. IdentityUnique'
    BY <1>2, <1>3 DEF TableOK, IdentityUnique, Taken
  <1> QED  BY <1>2, <1>3, <1>4, <1>5 DEF TableOK, RowOK
-----------------------------------------------------------------------------
(* The operations.                                                           *)

\* A step on one document rewrites its row by a row in order, with the same
\* identity, and touches a hidden row only to restore it or to empty it.
LEMMA StepRewrites ==
    ASSUME TableOK, NEW id \in DOMAIN docs, StoreStep(id)
    PROVE  \E d : /\ RowOK(d)
                  /\ d.identity = docs[id].identity
                  /\ Write(id, d)
                  /\ ~Visible(docs[id].status) =>
                        \/ d = docs[id]
                        \/ d = WithStatus(docs[id], "queued")
                        \/ docs[id].status = "deleted" /\ d = Emptied(docs[id])
  <1> DEFINE D == docs[id]
  <1>0. /\ RowOK(D)
        /\ D.status = "purged" => ~Visible(D.status)
    BY DEF TableOK, Visible
  <1>1. CASE Delete(id)
    <2>1. RowOK(WithStatus(D, "deleted")) /\ WithStatus(D, "deleted").identity = D.identity
      BY <1>0, WithStatusOK DEF Status, WithStatus, RowOK, Document
    <2> QED  BY <1>1, <2>1 DEF Delete, Live, MayDelete
  <1>2. CASE \E status \in Status : TransitionTo(id, status)
    <2>1. PICK status \in Status : TransitionTo(id, status)
      BY <1>2
    <2>2. /\ RowOK(WithStatus(D, status))
          /\ WithStatus(D, status).identity = D.identity
      BY <1>0, <2>1, WithStatusOK DEF TransitionTo, MayTransition, WithStatus, RowOK, Document
    <2>3. CASE Visible(D.status)
      BY <2>1, <2>2, <2>3 DEF TransitionTo
    <2>4. CASE ~Visible(D.status)
      <3>1. status = D.status \/ (D.status = "deleted" /\ status = "purged")
        BY <1>0, <2>1, <2>4 DEF TransitionTo, MayTransition, CanTransition, Edges, Visible
      <3>2. CASE status = D.status
        <4>1. WithStatus(D, status) = D
          BY <1>0, <3>2 DEF WithStatus, RowOK, Document
        <4> QED  BY <2>1, <2>2, <4>1 DEF TransitionTo
      <3>3. CASE D.status = "deleted" /\ status = "purged"
        <4>1. IsEmpty(D) /\ D \in Document /\ D.pages \in PageMap
          BY <1>0, <2>1, <3>3 DEF TransitionTo, MayTransition, RowOK, Document
        <4>2. D.pages = NoPages
          <5>1. D.pages \in [{} -> Keys]
            BY <4>1, PageMapFinite DEF IsEmpty
          <5> QED  BY <5>1 DEF NoPages
        <4>3. WithStatus(D, "purged") = Emptied(D)
          BY <4>1, <4>2 DEF WithStatus, Emptied, IsEmpty, Document
        <4> QED  BY <2>1, <2>2, <3>3, <4>3 DEF TransitionTo
      <3> QED  BY <3>1, <3>2, <3>3
    <2> QED  BY <2>3, <2>4
  <1>3. CASE \E total \in Totals \cup {docs[id].total}, error \in BOOLEAN :
                UpdateMeta(id, total, error)
    <2>1. PICK total \in Totals \cup {D.total}, error \in BOOLEAN : UpdateMeta(id, total, error)
      BY <1>3
    <2>2. total \in Nat /\ Visible(D.status)
      BY <1>0, <2>1, PageNumbers DEF RowOK, Document, UpdateMeta, Live
    <2>3. /\ RowOK([D EXCEPT !.total = total, !.error = error])
          /\ [D EXCEPT !.total = total, !.error = error].identity = D.identity
      BY <1>0, <2>1, <2>2 DEF RowOK, Document
    <2> QED  BY <2>1, <2>2, <2>3 DEF UpdateMeta
  <1>4. CASE ResetPages(id)
    <2>1. RowOK(WithoutPages(D)) /\ WithoutPages(D).identity = D.identity
      <3>1. D.status # "purged"
        BY <1>0, <1>4 DEF ResetPages, Live
      <3>2. D \in Document
        BY <1>0 DEF RowOK
      <3> QED  BY <1>0, <3>1, <3>2, WithoutPagesOK DEF WithoutPages, Document
    <2> QED  BY <1>4, <2>1 DEF ResetPages, Live
  <1>5. CASE \E index \in Indexes, key \in Keys : AddPage(id, index, key)
    <2>1. PICK index \in Indexes, key \in Keys : AddPage(id, index, key)
      BY <1>5
    <2>2. /\ RowOK(WithPage(D, index, key))
          /\ WithPage(D, index, key).identity = D.identity
      <3>1. index \in Indexes \ DOMAIN D.pages /\ Visible(D.status)
        BY <2>1 DEF AddPage, MayAddPage, Live
      <3>2. D.status # "purged"
        BY <3>1 DEF Visible
      <3> QED  BY <1>0, <3>1, <3>2, WithPageOK
    <2> QED  BY <2>1, <2>2 DEF AddPage, MayAddPage, Live
  <1>6. CASE \E index \in Indexes : RemovePage(id, index)
    <2>1. PICK index \in Indexes : RemovePage(id, index)
      BY <1>6
    <2>2. /\ RowOK(WithoutPage(D, index))
          /\ WithoutPage(D, index).identity = D.identity
      <3>1. index \in DOMAIN D.pages /\ Visible(D.status)
        BY <2>1 DEF RemovePage, MayRemovePage, Live
      <3>2. D.status # "purged"
        BY <3>1 DEF Visible
      <3> QED  BY <1>0, <3>1, <3>2, WithoutPageOK
    <2> QED  BY <2>1, <2>2 DEF RemovePage, Live, MayRemovePage
  <1>7. CASE Purge(id)
    <2>1. RowOK(Emptied(D)) /\ Emptied(D).identity = D.identity
      BY <1>0, EmptiedOK DEF Emptied, RowOK, Document
    <2>2. D.status \in {"deleted", "purged"}
      BY <1>7 DEF Purge, MayPurge, CanTransition, Edges
    <2>3. CASE D.status = "deleted"
      BY <1>7, <2>1, <2>3 DEF Purge
    <2>4. CASE D.status = "purged"
      <3>1. IsEmpty(D) /\ D \in Document /\ D.pages \in PageMap
        BY <1>0, <2>4 DEF RowOK, Document
      <3>2. D.pages = NoPages
        <4>1. D.pages \in [{} -> Keys]
          BY <3>1, PageMapFinite DEF IsEmpty
        <4> QED  BY <4>1 DEF NoPages
      <3>3. Emptied(D) = D
        BY <2>4, <3>1, <3>2 DEF Emptied, IsEmpty, Document
      <3> QED  BY <1>7, <2>1, <3>3 DEF Purge
    <2> QED  BY <2>2, <2>3, <2>4
  <1>8. CASE Restore(id)
    <2>1. RowOK(WithStatus(D, "queued")) /\ WithStatus(D, "queued").identity = D.identity
      BY <1>0, WithStatusOK DEF Status, WithStatus, RowOK, Document
    <2> QED  BY <1>8, <2>1 DEF Restore, MayRestore
  <1> QED  BY <1>1, <1>2, <1>3, <1>4, <1>5, <1>6, <1>7, <1>8 DEF StoreStep

LEMMA StoreInitOK == StoreInit => TableOK
  BY DEF StoreInit, TableOK, IdentityUnique

LEMMA StoreNextOK ==
    ASSUME TableOK, [StoreNext]_docs
    PROVE  /\ TableOK'
           /\ \A id \in DOMAIN docs :
                 /\ id \in DOMAIN docs'
                 /\ docs'[id].identity = docs[id].identity
                 /\ ~Visible(docs[id].status) /\ docs'[id] # docs[id] =>
                      \/ docs'[id] = WithStatus(docs[id], "queued")
                      \/ docs[id].status = "deleted" /\ docs'[id] = Emptied(docs[id])
  <1>1. CASE \E identity \in Identities, pages \in PageMap,
                total \in Totals \cup {0}, error \in BOOLEAN :
                  Create(identity, pages, total, error)
    <2>1. PICK n \in Identities, pages \in PageMap,
               total \in Totals \cup {0}, error \in BOOLEAN : Create(n, pages, total, error)
      BY <1>1
    <2> DEFINE new == NewDocument(n, pages, total, error)
    <2>2. RowOK(new) /\ new.identity = n
      BY NewDocumentOK, PageNumbers DEF NewDocument
    <2> QED  BY <2>1, <2>2, AppendRow DEF Create, MayCreate
  <1>2. CASE \E id \in DOMAIN docs : StoreStep(id)
    <2>1. PICK id \in DOMAIN docs : StoreStep(id)
      BY <1>2
    <2>2. PICK d : /\ RowOK(d)
                   /\ d.identity = docs[id].identity
                   /\ Write(id, d)
                   /\ ~Visible(docs[id].status) =>
                         \/ d = docs[id]
                         \/ d = WithStatus(docs[id], "queued")
                         \/ docs[id].status = "deleted" /\ d = Emptied(docs[id])
      BY <2>1, StepRewrites
    <2>3. /\ TableOK'
          /\ DOMAIN docs' = DOMAIN docs
          /\ \A j \in DOMAIN docs : docs'[j] = IF j = id THEN d ELSE docs[j]
      BY <2>2, Rewrite
    <2> QED  BY <2>2, <2>3
  <1>3. CASE UNCHANGED docs
    BY <1>3 DEF TableOK, IdentityUnique
  <1> QED  BY <1>1, <1>2, <1>3 DEF StoreNext

\* The inductive invariant.
LEMMA TableInvariant == StoreSpec => []TableOK
  BY StoreInitOK, StoreNextOK, PTL DEF StoreSpec

\* The table is well typed; done counts pages; identities are unique, hidden
\* documents included; purged documents are empty: in every reachable state,
\* however many documents there are.
THEOREM StoreInvariant == StoreSpec => []StoreInv
  BY TableInvariant, TableOKisStoreInv, PTL

\* The same, one by one.  Rows are well typed, ids without a gap.
THEOREM StoreTypeOK == StoreSpec => []DocsTypeOK
  BY StoreInvariant, PTL DEF StoreInv

\* Progress.Done is the number of recorded pages.
THEOREM StoreDoneCountsPages == StoreSpec => []DoneCountsPages
  BY StoreInvariant, PTL DEF StoreInv

\* No two documents, hidden ones included, have the same identity.
THEOREM StoreIdentityUnique == StoreSpec => []IdentityUnique
  BY StoreInvariant, PTL DEF StoreInv

\* A purged document has no page and no progress.
THEOREM StorePurgedIsEmpty == StoreSpec => []PurgedIsEmpty
  BY StoreInvariant, PTL DEF StoreInv

\* No row goes away, moves or changes its identity.
THEOREM StoreIdsPermanent == StoreSpec => IdsPermanent
  <1>1. TableOK /\ [StoreNext]_docs =>
          [\A id \in DOMAIN docs :
             id \in DOMAIN docs' /\ docs'[id].identity = docs[id].identity]_docs
    BY StoreNextOK
  <1> QED  BY <1>1, TableInvariant, PTL DEF StoreSpec, IdsPermanent

\* A hidden document is only ever restored or emptied.
THEOREM StoreHiddenFrozen == StoreSpec => HiddenFrozen
  <1>1. TableOK /\ [StoreNext]_docs =>
          [\A id \in DOMAIN docs :
             ~Visible(docs[id].status) /\ docs'[id] # docs[id] =>
                \/ docs'[id] = WithStatus(docs[id], "queued")
                \/ docs[id].status = "deleted" /\ docs'[id] = Emptied(docs[id])]_docs
    BY StoreNextOK
  <1> QED  BY <1>1, TableInvariant, PTL DEF StoreSpec, HiddenFrozen
=============================================================================
