----------------------------- MODULE StoresProofs -----------------------------
(* Two things, for any identities, indexes, keys and totals, and whatever     *)
(* capacities append chooses.  The memory store implements documents.Store:   *)
(* its page slices, with their blanks, growth and cutting off, are the page   *)
(* maps of the table, and the array a reader's copy shares with the store     *)
(* does not change under the reader but by RemovePage.  And the two stores,   *)
(* given the same calls, are never told apart.                                *)
EXTENDS Stores, SQLiteStoreProofs, WellFoundedInduction

Cells == Keys \cup {Blank}

MRows == [identity : Identities, status : Status, done : Nat, total : Nat,
         error : BOOLEAN, len : Nat, array : Seq(Cells)]

\* A slice ends with a page, and its array is blank beyond it: what append grows
\* into shows nothing of a page that was there once.
SliceOK(d) ==
    /\ d.len <= Len(d.array)
    /\ d.len > 0 => d.array[d.len] # Blank
    /\ \A c \in 1 .. Len(d.array) : c > d.len => d.array[c] = Blank

\* Progress counts the slots that hold a page.
RowOK(d) == d \in MRows /\ SliceOK(d) /\ d.done = Cardinality(Slots(d))

Size == Cardinality(DOMAIN idMap)

TableOK ==
    /\ Size \in Nat /\ DOMAIN idMap = 0 .. (Size - 1)
    /\ idMap = [id \in DOMAIN idMap |-> idMap[id]]
    /\ \A id \in DOMAIN idMap : RowOK(idMap[id])

\* A copy that shares its array with the store shows what is in it.
HeldOK ==
    /\ held \in [id : Nat, cells : Seq(Cells), shared : BOOLEAN]
    /\ held.shared =>
          /\ held.id \in DOMAIN idMap
          /\ Len(held.cells) <= Len(idMap[held.id].array)
          /\ \A c \in 1 .. Len(held.cells) : held.cells[c] = idMap[held.id].array[c]

MemInv == TableOK /\ HeldOK
-----------------------------------------------------------------------------
(* Slots, and how the operations change them.                                *)

\* Every nonempty set of naturals has a least element.
LEMMA LeastNatural ==
    ASSUME NEW S, S \subseteq Nat, S # {}
    PROVE  \E n \in S : \A m \in S : n <= m
  <1> DEFINE R == OpToRel(<, Nat)
  <1>1. IsWellFoundedOn(R, Nat)
    BY NatLessThanWellFounded
  <1>2. \A a, b \in Nat : a < b => <<a, b>> \in R
    BY DEF OpToRel
  <1> HIDE DEF R
  <1>3. PICK n \in S : \A m \in S : ~(<<m, n>> \in R)
    BY <1>1, WFMin
  <1>4. ASSUME NEW m \in S PROVE n <= m
    <2>1. ~(m < n)
      BY <1>2, <1>3
    <2>2. m \in Nat /\ n \in Nat
      OBVIOUS
    <2> QED  BY <2>1, <2>2
  <1> QED  BY <1>4

LEMMA SlotsOf ==
    ASSUME NEW d \in MRows
    PROVE  /\ \A i : i \in Slots(d) <=> i \in Nat /\ i < d.len /\ d.array[i + 1] # Blank
           /\ \A i \in Nat : i \in Slots(d) <=> SlotExists(d, i)
           /\ IsFiniteSet(Slots(d)) /\ Cardinality(Slots(d)) \in Nat
  <1>1. d.len \in Nat
    BY DEF MRows
  <1>2. Slots(d) \subseteq 0 .. (d.len - 1)
    BY DEF Slots
  <1>3. IsFiniteSet(0 .. (d.len - 1))
    BY <1>1, FS_Interval
  <1>4. IsFiniteSet(Slots(d))
    BY <1>2, <1>3, FS_Subset
  <1> QED  BY <1>1, <1>4, FS_CardinalityType DEF Slots, SlotExists

\* The page map a slice stands for.
PagesOfSlice(d) == [index \in Slots(d) |-> d.array[index + 1]]

LEMMA DocumentOfRow ==
    ASSUME NEW d
    PROVE  MemDocument(d) = Doc(d.identity, d.status, d.done, d.total, d.error, PagesOfSlice(d))
  BY DEF MemDocument, Doc, PagesOfSlice

\* Slices that show the same.
LEMMA SameSlice ==
    ASSUME NEW d, NEW e, e.array = d.array, e.len = d.len
    PROVE  Slots(e) = Slots(d) /\ PagesOfSlice(e) = PagesOfSlice(d) /\ (SliceOK(d) => SliceOK(e))
  BY DEF Slots, SlotExists, PagesOfSlice, SliceOK

LEMMA EmptySlice ==
    ASSUME NEW d, d.array = << >>, d.len = 0
    PROVE  Slots(d) = {} /\ PagesOfSlice(d) = NoPages /\ SliceOK(d)
  <1>1. Slots(d) = {}
    BY DEF Slots, SlotExists
  <1> QED  BY <1>1 DEF PagesOfSlice, NoPages, SliceOK
-----------------------------------------------------------------------------
(* An operation on one document replaces its row.                            *)

\* What a reader may see of the change: in place, a page goes only by RemovePage.
Gentle(d, e) ==
    Len(e.array) = Len(d.array) =>
        \A c \in 1 .. Len(d.array) :
            d.array[c] \notin {Blank, e.array[c]} => e.array[c] = Blank /\ e.done = d.done - 1

\* What SnapshotsKeepPages says of a step.
Keeps ==
    idMap' # idMap =>
        \A c \in DOMAIN held.cells :
            held.cells[c] \notin {Blank, held'.cells[c]} =>
                held'.cells[c] = Blank /\ idMap'[held.id].done = idMap[held.id].done - 1

LEMMA PutTable ==
    ASSUME TableOK, NEW id \in DOMAIN idMap, NEW e, RowOK(e),
           idMap' = [idMap EXCEPT ![id] = e]
    PROVE  /\ TableOK' /\ DOMAIN idMap' = DOMAIN idMap /\ idMap'[id] = e
           /\ \A other \in DOMAIN idMap \ {id} : idMap'[other] = idMap[other]
           /\ id + 1 \in DOMAIN MemDocs
           /\ MemDocs' = [MemDocs EXCEPT ![id + 1] = MemDocument(e)]
  <1>1. /\ DOMAIN idMap' = DOMAIN idMap /\ idMap'[id] = e
        /\ \A other \in DOMAIN idMap \ {id} : idMap'[other] = idMap[other]
        /\ idMap' = [i \in DOMAIN idMap' |-> idMap'[i]]
    BY DEF TableOK
  <1>2. TableOK'
    BY <1>1 DEF TableOK, Size
  <1>3. /\ Size \in Nat /\ DOMAIN idMap = 0 .. (Size - 1)
        /\ MemDocs = [i \in 1 .. Size |-> MemDocument(idMap[i - 1])]
        /\ MemDocs' = [i \in 1 .. Size |-> MemDocument(idMap'[i - 1])]
    BY <1>1 DEF TableOK, MemDocs, Size
  <1>4. id + 1 \in 1 .. Size /\ id \in Nat
    BY <1>3
  <1>5. \A i \in 1 .. Size : i # id + 1 => MemDocument(idMap'[i - 1]) = MemDocument(idMap[i - 1])
    BY <1>1, <1>3, <1>4
  <1>6. MemDocument(idMap'[(id + 1) - 1]) = MemDocument(e)
    BY <1>1, <1>4
  <1>7. MemDocs' = [MemDocs EXCEPT ![id + 1] = MemDocument(e)]
    BY <1>3, <1>4, <1>5, <1>6
  <1> QED  BY <1>1, <1>2, <1>3, <1>4, <1>7

LEMMA PutHeld ==
    ASSUME MemInv, NEW id \in DOMAIN idMap, NEW e, RowOK(e), Put(id, e), Gentle(idMap[id], e)
    PROVE  HeldOK' /\ Keeps
  <1>1. /\ DOMAIN idMap' = DOMAIN idMap /\ idMap'[id] = e
        /\ \A other \in DOMAIN idMap \ {id} : idMap'[other] = idMap[other]
    BY PutTable DEF MemInv, Put
  <1>2. /\ held \in [id : Nat, cells : Seq(Cells), shared : BOOLEAN]
        /\ e.array \in Seq(Cells) /\ idMap[id].array \in Seq(Cells)
    BY DEF MemInv, HeldOK, TableOK, RowOK, MRows
  <1>3. Len(held.cells) \in Nat /\ DOMAIN held.cells = 1 .. Len(held.cells)
    BY <1>2
  <1>4. CASE held.id # id \/ ~held.shared
    <2>1. held' = held
      BY <1>4 DEF Put
    <2> QED  BY <1>1, <1>4, <2>1 DEF MemInv, HeldOK, Keeps
  <1>5. CASE held.id = id /\ held.shared /\ SameArray(idMap[id], e)
    <2> DEFINE n == Len(held.cells)
    <2>1. held' = [held EXCEPT !.cells = SubSeq(e.array, 1, n)]
      BY <1>5 DEF Put
    <2>2. /\ n <= Len(e.array) /\ Len(e.array) = Len(idMap[id].array)
          /\ \A c \in 1 .. n : held.cells[c] = idMap[id].array[c]
      BY <1>5 DEF MemInv, HeldOK, SameArray
    <2>3. /\ SubSeq(e.array, 1, n) \in Seq(Cells) /\ Len(SubSeq(e.array, 1, n)) = n
          /\ \A c \in 1 .. n : SubSeq(e.array, 1, n)[c] = e.array[c]
      BY <1>2, <1>3, <2>2
    <2>4. /\ held'.cells = SubSeq(e.array, 1, n) /\ held'.id = id /\ held'.shared
          /\ held' \in [id : Nat, cells : Seq(Cells), shared : BOOLEAN]
      BY <1>2, <1>5, <2>1, <2>3
    <2>5. HeldOK'
      BY <1>1, <2>2, <2>3, <2>4 DEF HeldOK
    <2>6. Keeps
      <3> SUFFICES ASSUME NEW c \in 1 .. n, held.cells[c] \notin {Blank, held'.cells[c]}
                   PROVE  held'.cells[c] = Blank /\ idMap'[held.id].done = idMap[held.id].done - 1
        BY <1>3 DEF Keeps
      <3>1. c \in 1 .. Len(idMap[id].array)
        BY <1>2, <1>3, <2>2
      <3> QED  BY <1>1, <1>5, <2>2, <2>3, <2>4, <3>1 DEF Gentle
    <2> QED  BY <2>5, <2>6
  <1>6. CASE held.id = id /\ held.shared /\ ~SameArray(idMap[id], e)
    <2>1. held' = [held EXCEPT !.shared = FALSE]
      BY <1>6 DEF Put
    <2>2. held'.cells = held.cells /\ held'.shared = FALSE
          /\ held' \in [id : Nat, cells : Seq(Cells), shared : BOOLEAN]
      BY <1>2, <2>1
    <2> QED  BY <2>2 DEF HeldOK, Keeps
  <1> QED  BY <1>4, <1>5, <1>6

LEMMA MOperation ==
    ASSUME MemInv, NEW id \in DOMAIN idMap, NEW e, RowOK(e), Put(id, e), Gentle(idMap[id], e)
    PROVE  MemInv' /\ Keeps /\ Mem!Write(id + 1, MemDocument(e))
  <1>1. TableOK' /\ MemDocs' = [MemDocs EXCEPT ![id + 1] = MemDocument(e)]
    BY PutTable DEF MemInv, Put
  <1> QED  BY <1>1, PutHeld DEF MemInv, Mem!Write

\* The table's view of a document.
LEMMA MView ==
    ASSUME MemInv, NEW id \in DOMAIN idMap
    PROVE  /\ id \in Nat /\ Mem!Exists(id + 1)
           /\ MLive(id) <=> Mem!Live(id + 1)
           /\ MemDocs[id + 1] = Doc(idMap[id].identity, idMap[id].status, idMap[id].done,
                                    idMap[id].total, idMap[id].error, PagesOfSlice(idMap[id]))
           /\ MemDocs[id + 1].status = idMap[id].status
           /\ MemDocs[id + 1].total = idMap[id].total
           /\ MemDocs[id + 1].done = idMap[id].done
           /\ DOMAIN MemDocs[id + 1].pages = Slots(idMap[id])
           /\ idMap[id] \in MRows /\ SliceOK(idMap[id])
           /\ idMap[id].done = Cardinality(Slots(idMap[id]))
  <1>1. /\ Size \in Nat /\ DOMAIN idMap = 0 .. (Size - 1) /\ RowOK(idMap[id])
        /\ MemDocs = [i \in 1 .. Size |-> MemDocument(idMap[i - 1])]
    BY DEF MemInv, TableOK, MemDocs, Size
  <1>2. id + 1 \in 1 .. Size /\ id \in Nat /\ (id + 1) - 1 = id
    BY <1>1
  <1>3. /\ id + 1 \in DOMAIN MemDocs
        /\ MemDocs[id + 1] = Doc(idMap[id].identity, idMap[id].status, idMap[id].done,
                                 idMap[id].total, idMap[id].error, PagesOfSlice(idMap[id]))
    BY <1>1, <1>2, DocumentOfRow
  <1>4. /\ MemDocs[id + 1].status = idMap[id].status /\ MemDocs[id + 1].total = idMap[id].total
        /\ MemDocs[id + 1].done = idMap[id].done
        /\ DOMAIN MemDocs[id + 1].pages = Slots(idMap[id])
    BY <1>3 DEF Doc, PagesOfSlice
  <1> QED  BY <1>1, <1>2, <1>3, <1>4
           DEF RowOK, Mem!Exists, Mem!Live, MLive, MExists, Visible, Mem!Visible

LEMMA MSameGraph ==
    ASSUME NEW from, NEW to
    PROVE  Mem!CanTransition(from, to) <=> CanTransition(from, to)
  BY DEF CanTransition, Mem!CanTransition, Edges, Mem!Edges

\* The operators of a standard module that Mem brings along are the same.
LEMMA MSameFiniteSets ==
    ASSUME NEW S
    PROVE  Mem!Cardinality(S) = Cardinality(S) /\ (Mem!IsFiniteSet(S) <=> IsFiniteSet(S))
  BY DEF Mem!Cardinality, Cardinality, Mem!IsFiniteSet, IsFiniteSet

LEMMA MSamePageMap == Mem!PageMap = PageMap
  BY MSameFiniteSets DEF Mem!PageMap, PageMap
-----------------------------------------------------------------------------
(* Operations that leave the slice alone.                                    *)

\* The row takes another status, total or error.
LEMMA FieldsOnly ==
    ASSUME MemInv, NEW id \in DOMAIN idMap, NEW e \in MRows, Put(id, e),
           e.array = idMap[id].array, e.len = idMap[id].len, e.done = idMap[id].done
    PROVE  /\ MemInv' /\ Keeps
           /\ Mem!Write(id + 1, Doc(e.identity, e.status, e.done, e.total, e.error,
                                    PagesOfSlice(idMap[id])))
  <1>1. /\ Slots(e) = Slots(idMap[id]) /\ PagesOfSlice(e) = PagesOfSlice(idMap[id])
        /\ SliceOK(e)
    BY SameSlice, MView
  <1>2. RowOK(e)
    BY <1>1, MView DEF RowOK
  <1>3. Gentle(idMap[id], e)
    BY DEF Gentle
  <1> QED  BY <1>1, <1>2, <1>3, MOperation, DocumentOfRow

LEMMA MStatusStep ==
    ASSUME MemInv, NEW id \in DOMAIN idMap, NEW status \in Status,
           Put(id, WithStatus(idMap[id], status))
    PROVE  MemInv' /\ Keeps /\ Mem!Write(id + 1, Mem!WithStatus(MemDocs[id + 1], status))
  <1> DEFINE e == WithStatus(idMap[id], status)
  <1>1. /\ e \in MRows /\ e.array = idMap[id].array /\ e.len = idMap[id].len
        /\ e.done = idMap[id].done /\ e.total = idMap[id].total /\ e.error = idMap[id].error
        /\ e.identity = idMap[id].identity /\ e.status = status
    BY MView DEF WithStatus, MRows
  <1> HIDE DEF e
  <1>2. /\ MemInv' /\ Keeps
        /\ Mem!Write(id + 1, Doc(e.identity, e.status, e.done, e.total, e.error,
                                 PagesOfSlice(idMap[id])))
    BY <1>1, FieldsOnly DEF e
  <1>3. Mem!WithStatus(MemDocs[id + 1], status) =
           Doc(e.identity, e.status, e.done, e.total, e.error, PagesOfSlice(idMap[id]))
    <2>1. MemDocs[id + 1] = Doc(e.identity, idMap[id].status, e.done, e.total, e.error,
                                PagesOfSlice(idMap[id]))
      BY <1>1, MView
    <2> QED  BY <1>1, <2>1 DEF Doc, Mem!WithStatus
  <1> QED  BY <1>2, <1>3

LEMMA MDeleteStep ==
    ASSUME MemInv, NEW id, MDelete(id)
    PROVE  MemInv' /\ Keeps /\ Mem!Delete(id + 1)
  <1>1. id \in DOMAIN idMap
    BY DEF MDelete, MLive, MExists, MMayDelete
  <1> QED  BY <1>1, MStatusStep, MView, MSameGraph
              DEF MDelete, Mem!Delete, Status, MMayDelete, Mem!MayDelete

LEMMA MRestoreStep ==
    ASSUME MemInv, NEW id, MRestore(id)
    PROVE  MemInv' /\ Keeps /\ Mem!Restore(id + 1)
  <1>1. id \in DOMAIN idMap
    BY DEF MRestore, MExists, MMayRestore
  <1> QED  BY <1>1, MStatusStep, MView
              DEF MRestore, Mem!Restore, Status, MMayRestore, Mem!MayRestore

LEMMA MTransitionStep ==
    ASSUME MemInv, NEW id, NEW status \in Status, MTransitionTo(id, status)
    PROVE  MemInv' /\ Keeps /\ Mem!TransitionTo(id + 1, status)
  <1>1. id \in DOMAIN idMap
    BY DEF MTransitionTo, MExists, MMayTransition
  <1>2. MIsEmpty(idMap[id]) => Mem!IsEmpty(MemDocs[id + 1])
    BY <1>1, MView DEF MIsEmpty, Mem!IsEmpty
  <1> QED  BY <1>1, <1>2, MStatusStep, MView, MSameGraph
           DEF MTransitionTo, Mem!TransitionTo, Mem!MayTransition, MMayTransition

\* What two or more fields of a document set at once come to.
LEMMA MSetMeta ==
    ASSUME NEW n, NEW s, NEW d, NEW t, NEW e, NEW p, NEW r, r = Doc(n, s, d, t, e, p),
           NEW total, NEW error
    PROVE  WithMeta(r, total, error) = Doc(n, s, d, total, error, p)
  <1> DEFINE q == [r EXCEPT !.total = total]
  <1>1. q = Doc(n, s, d, total, e, p)
    BY DEF Doc
  <1>2. WithMeta(r, total, error) = [q EXCEPT !.error = error]
    BY DEF WithMeta
  <1> HIDE DEF q
  <1> QED  BY <1>1, <1>2 DEF Doc

LEMMA MUpdateMetaStep ==
    ASSUME MemInv, NEW id, NEW total \in Nat, NEW error \in BOOLEAN, MUpdateMeta(id, total, error)
    PROVE  MemInv' /\ Keeps /\ Mem!UpdateMeta(id + 1, total, error)
  <1> DEFINE e == WithMeta(idMap[id], total, error)
  <1>1. id \in DOMAIN idMap /\ MLive(id) /\ Put(id, e)
    BY DEF MUpdateMeta, MLive, MExists, WithMeta
  <1>2. idMap[id] \in MRows
    BY <1>1, MView
  <1>3. /\ e \in MRows /\ e.array = idMap[id].array /\ e.len = idMap[id].len
        /\ e.done = idMap[id].done /\ e.total = total /\ e.error = error
        /\ e.identity = idMap[id].identity /\ e.status = idMap[id].status
    BY <1>2 DEF WithMeta, MRows
  <1> HIDE DEF e
  <1>4. /\ MemInv' /\ Keeps
        /\ Mem!Write(id + 1, Doc(e.identity, e.status, e.done, e.total, e.error,
                                 PagesOfSlice(idMap[id])))
    BY <1>1, <1>3, FieldsOnly
  <1>5. WithMeta(MemDocs[id + 1], total, error) =
           Doc(e.identity, e.status, e.done, e.total, e.error, PagesOfSlice(idMap[id]))
    BY <1>1, <1>3, MView, MSetMeta
  <1> QED  BY <1>1, <1>4, <1>5, MView DEF Mem!UpdateMeta, WithMeta

-----------------------------------------------------------------------------
(* Operations that replace the array by none.                                *)

LEMMA MSetNoPages ==
    ASSUME NEW n, NEW s, NEW d, NEW t, NEW e, NEW p, NEW r, r = Doc(n, s, d, t, e, p)
    PROVE  /\ Mem!WithoutPages(r) = Doc(n, s, 0, t, e, NoPages)
           /\ Mem!Emptied(r) = Doc(n, "purged", 0, 0, e, NoPages)
  <1> DEFINE q1 == [r EXCEPT !.pages = NoPages]
             q2 == [q1 EXCEPT !.done = 0]
             q3 == [q2 EXCEPT !.total = 0]
  <1>1. q1 = Doc(n, s, d, t, e, NoPages)
    BY DEF Doc
  <1>2. Mem!WithoutPages(r) = q2 /\ Mem!Emptied(r) = [q3 EXCEPT !.status = "purged"]
    BY DEF Mem!WithoutPages, Mem!Emptied, Mem!NoPages, NoPages
  <1> HIDE DEF q1
  <1>3. q2 = Doc(n, s, 0, t, e, NoPages)
    BY <1>1 DEF Doc
  <1> HIDE DEF q2
  <1>4. q3 = Doc(n, s, 0, 0, e, NoPages)
    BY <1>3 DEF Doc
  <1> HIDE DEF q3
  <1> QED  BY <1>2, <1>3, <1>4 DEF Doc

\* The reader keeps the array that the store lets go of.
LEMMA Cleared ==
    ASSUME MemInv, NEW id \in DOMAIN idMap, NEW e \in MRows, Put(id, e),
           e.array = << >>, e.len = 0, e.done = 0
    PROVE  /\ MemInv' /\ Keeps
           /\ Mem!Write(id + 1, Doc(e.identity, e.status, 0, e.total, e.error, NoPages))
  <1>1. Slots(e) = {} /\ PagesOfSlice(e) = NoPages /\ SliceOK(e)
    BY EmptySlice
  <1>2. RowOK(e)
    BY <1>1, FS_EmptySet DEF RowOK
  <1>3. Gentle(idMap[id], e)
    <2>1. Len(e.array) = 0
      OBVIOUS
    <2> QED  BY <2>1 DEF Gentle
  <1> QED  BY <1>1, <1>2, <1>3, MOperation, DocumentOfRow

\* The row without its array; emptied, it is without its total too.
Bared(d) == [d EXCEPT !.array = << >>, !.len = 0, !.done = 0]

LEMMA BaredFields ==
    ASSUME NEW d \in MRows
    PROVE  /\ Bared(d) \in MRows /\ Bared(d).array = << >> /\ Bared(d).len = 0 /\ Bared(d).done = 0
           /\ Bared(d).total = d.total /\ Bared(d).error = d.error
           /\ Bared(d).identity = d.identity /\ Bared(d).status = d.status
  <1> DEFINE q == [d EXCEPT !.array = << >>]
  <1>1. << >> \in Seq(Cells)
    BY EmptySeq
  <1>2. /\ q \in MRows /\ q.array = << >> /\ q.total = d.total /\ q.error = d.error
        /\ q.identity = d.identity /\ q.status = d.status
    BY <1>1 DEF MRows
  <1> DEFINE r == [q EXCEPT !.len = 0]
  <1>3. Bared(d) = [r EXCEPT !.done = 0]
    BY DEF Bared
  <1> HIDE DEF q
  <1>4. /\ r \in MRows /\ r.array = << >> /\ r.len = 0 /\ r.total = d.total
        /\ r.error = d.error /\ r.identity = d.identity /\ r.status = d.status
    BY <1>2 DEF MRows
  <1> HIDE DEF r
  <1> QED  BY <1>3, <1>4 DEF MRows

LEMMA MResetPagesStep ==
    ASSUME MemInv, NEW id, MResetPages(id)
    PROVE  MemInv' /\ Keeps /\ Mem!ResetPages(id + 1)
  <1> DEFINE e == Bared(idMap[id])
  <1>1. id \in DOMAIN idMap /\ MLive(id) /\ Put(id, e)
    BY DEF MResetPages, MLive, MExists, Bared
  <1>2. idMap[id] \in MRows
    BY <1>1, MView
  <1>3. /\ e \in MRows /\ e.array = << >> /\ e.len = 0 /\ e.done = 0
        /\ e.total = idMap[id].total /\ e.error = idMap[id].error
        /\ e.identity = idMap[id].identity /\ e.status = idMap[id].status
    BY <1>2, BaredFields
  <1> HIDE DEF e
  <1>4. /\ MemInv' /\ Keeps
        /\ Mem!Write(id + 1, Doc(e.identity, e.status, 0, e.total, e.error, NoPages))
    BY <1>1, <1>3, Cleared
  <1>5. Mem!WithoutPages(MemDocs[id + 1]) =
           Doc(e.identity, e.status, 0, e.total, e.error, NoPages)
    BY <1>1, <1>3, MView, MSetNoPages
  <1> QED  BY <1>1, <1>4, <1>5, MView DEF Mem!ResetPages

LEMMA MPurgeStep ==
    ASSUME MemInv, NEW id, MPurge(id)
    PROVE  MemInv' /\ Keeps /\ Mem!Purge(id + 1)
  <1> DEFINE q == Bared(idMap[id])
             e == [q EXCEPT !.total = 0, !.status = "purged"]
  <1>1. id \in DOMAIN idMap /\ CanTransition(idMap[id].status, "purged") /\ Put(id, e)
    BY DEF MPurge, MExists, Bared, MMayPurge
  <1>2. idMap[id] \in MRows
    BY <1>1, MView
  <1>3. /\ e \in MRows /\ e.array = << >> /\ e.len = 0 /\ e.done = 0 /\ e.total = 0
        /\ e.error = idMap[id].error /\ e.identity = idMap[id].identity /\ e.status = "purged"
    <2>1. /\ q \in MRows /\ q.array = << >> /\ q.len = 0 /\ q.done = 0
          /\ q.error = idMap[id].error /\ q.identity = idMap[id].identity
      BY <1>2, BaredFields
    <2> HIDE DEF q
    <2> QED  BY <2>1 DEF MRows, Status
  <1> HIDE DEF e
  <1>4. /\ MemInv' /\ Keeps
        /\ Mem!Write(id + 1, Doc(e.identity, "purged", 0, 0, e.error, NoPages))
    BY <1>1, <1>3, Cleared
  <1>5. Mem!Emptied(MemDocs[id + 1]) = Doc(e.identity, "purged", 0, 0, e.error, NoPages)
    BY <1>1, <1>3, MView, MSetNoPages
  <1> QED  BY <1>1, <1>4, <1>5, MView, MSameGraph DEF Mem!Purge, Mem!MayPurge

-----------------------------------------------------------------------------
(* AddPage: a slice that grows, in place or into another array.              *)

\* A page map with one more page, and with one less.
LEMMA MSetOnePage ==
    ASSUME NEW n, NEW s, NEW d, NEW t, NEW e, NEW p, NEW r, r = Doc(n, s, d, t, e, p),
           NEW index, NEW key
    PROVE  Mem!WithPage(r, index, key) =
               Doc(n, s, d + 1, IF t < d + 1 THEN d + 1 ELSE t, e, Added(p, index, key))
  <1> DEFINE q1 == [r EXCEPT !.pages = Added(p, index, key)]
             q2 == [q1 EXCEPT !.done = d + 1]
  <1>1. r.pages = p /\ r.done = d /\ r.total = t
    BY DEF Doc
  <1>2. Mem!WithPage(r, index, key) = [q2 EXCEPT !.total = IF t < d + 1 THEN d + 1 ELSE t]
    BY <1>1 DEF Mem!WithPage, Added
  <1>3. q1 = Doc(n, s, d, t, e, Added(p, index, key))
    BY DEF Doc
  <1> HIDE DEF q1
  <1>4. q2 = Doc(n, s, d + 1, t, e, Added(p, index, key))
    BY <1>3 DEF Doc
  <1> HIDE DEF q2
  <1> QED  BY <1>2, <1>4 DEF Doc

\* The slice after the loop of addPageLocked: longer, with blanks.
LEMMA GrownSlice ==
    ASSUME NEW d \in MRows, SliceOK(d), NEW index \in Indexes
    PROVE  /\ Grown(d, index) \in Seq(Cells)
           /\ index + 1 \in 1 .. Len(Grown(d, index)) /\ d.len <= Len(Grown(d, index))
           /\ \A c \in 1 .. Len(Grown(d, index)) :
                 /\ c <= d.len => c \in 1 .. Len(d.array) /\ Grown(d, index)[c] = d.array[c]
                 /\ c > d.len => Grown(d, index)[c] = Blank
           /\ Len(Grown(d, index)) = Len(d.array) => index < Len(d.array)
  <1> DEFINE fits == index < Len(d.array)
             N    == IF fits THEN Len(d.array) ELSE Capacity(index + 1)
             at(c) == IF c <= d.len \/ (fits /\ c > index + 1) THEN d.array[c] ELSE Blank
  <1>1. /\ d.array \in Seq(Cells) /\ d.len \in Nat /\ Len(d.array) \in Nat
        /\ d.len <= Len(d.array) /\ index \in Nat
        /\ \A c \in 1 .. Len(d.array) : d.array[c] \in Cells
    BY PageNumbers DEF MRows, SliceOK
  <1>2. Capacity(index + 1) \in Nat /\ Capacity(index + 1) >= index + 1
    BY CapacitySuffices
  <1>3. /\ N \in Nat /\ index + 1 <= N /\ d.len <= N /\ (fits => N = Len(d.array))
        /\ N = Len(d.array) => fits
    BY <1>1, <1>2
  <1>4. Grown(d, index) = [c \in 1 .. N |-> at(c)]
    BY DEF Grown
  <1>5. ASSUME NEW c \in 1 .. N
        PROVE  /\ at(c) \in Cells
               /\ c <= d.len => c \in 1 .. Len(d.array) /\ at(c) = d.array[c]
               /\ c > d.len => at(c) = Blank
    BY <1>1, <1>3 DEF Cells, SliceOK
  <1> HIDE DEF N, at
  <1>6. Grown(d, index) \in Seq(Cells) /\ Len(Grown(d, index)) = N
    BY <1>3, <1>4, <1>5
  <1> QED  BY <1>1, <1>3, <1>4, <1>5, <1>6

LEMMA MAddPageStep ==
    ASSUME MemInv, NEW id, NEW index \in Indexes, NEW key \in Keys, MAddPage(id, index, key)
    PROVE  MemInv' /\ Keeps /\ Mem!AddPage(id + 1, index, key)
  <1> DEFINE d     == idMap[id]
             total == IF d.total < d.done + 1 THEN d.done + 1 ELSE d.total
             len   == IF d.len <= index THEN index + 1 ELSE d.len
             G     == Grown(d, index)
             array == [G EXCEPT ![index + 1] = key]
             q1    == [d EXCEPT !.array = array]
             q2    == [q1 EXCEPT !.len = len]
             q3    == [q2 EXCEPT !.done = d.done + 1]
             e     == [q3 EXCEPT !.total = total]
  <1>1. id \in DOMAIN idMap /\ MLive(id) /\ ~SlotExists(d, index)
    BY DEF MAddPage, MLive, MExists, MMayAddPage
  <1>2. /\ d \in MRows /\ SliceOK(d) /\ d.done = Cardinality(Slots(d))
        /\ index \in Nat /\ d.len \in Nat /\ d.done \in Nat /\ d.total \in Nat
        /\ d.array \in Seq(Cells)
    BY <1>1, MView, PageNumbers DEF MRows
  <1>3. Put(id, e)
    BY <1>2 DEF MAddPage, MRows, MMayAddPage
  <1>4. /\ G \in Seq(Cells) /\ index + 1 \in 1 .. Len(G) /\ d.len <= Len(G)
        /\ \A c \in 1 .. Len(G) :
              /\ c <= d.len => c \in 1 .. Len(d.array) /\ G[c] = d.array[c]
              /\ c > d.len => G[c] = Blank
        /\ Len(G) = Len(d.array) => index < Len(d.array)
    BY <1>2, GrownSlice
  <1> HIDE DEF G
  <1>5. /\ array \in Seq(Cells) /\ Len(array) = Len(G) /\ array[index + 1] = key
        /\ \A c \in 1 .. Len(G) : c # index + 1 => array[c] = G[c]
    BY <1>4 DEF Cells
  <1>6. total \in Nat /\ len \in Nat /\ index < len /\ d.len <= len /\ len <= Len(G)
        /\ (len = d.len \/ len = index + 1)
    BY <1>2, <1>4
  <1> HIDE DEF total, len, array, d
  <1>7. /\ q1 \in MRows /\ q1.array = array /\ q1.identity = d.identity /\ q1.status = d.status
        /\ q1.error = d.error
    BY <1>2, <1>5 DEF MRows
  <1> HIDE DEF q1
  <1>8. /\ q2 \in MRows /\ q2.array = array /\ q2.len = len /\ q2.identity = d.identity
        /\ q2.status = d.status /\ q2.error = d.error
    BY <1>6, <1>7 DEF MRows
  <1> HIDE DEF q2
  <1>9. /\ q3 \in MRows /\ q3.array = array /\ q3.len = len /\ q3.done = d.done + 1
        /\ q3.identity = d.identity /\ q3.status = d.status /\ q3.error = d.error
    BY <1>2, <1>8 DEF MRows
  <1> HIDE DEF q3
  <1>10. /\ /\ e \in MRows
         /\ e.array = array
         /\ e.len = len
         /\ e.done = d.done + 1
         /\ e.total = total
         /\ e.identity = d.identity /\ e.status = d.status /\ e.error = d.error
    BY <1>6, <1>9 DEF MRows
  <1> HIDE DEF e
  <1>11. key # Blank
    BY BlankIsNoKey
  <1>12. ASSUME NEW i \in Nat
         PROVE  /\ i \in Slots(e) <=> i \in Slots(d) \/ i = index
                /\ i \in Slots(d) /\ i # index => e.array[i + 1] = d.array[i + 1]
    <2>1. i \in Slots(e) <=> i < len /\ array[i + 1] # Blank
      BY <1>10, SlotsOf
    <2>2. i \in Slots(d) <=> i < d.len /\ d.array[i + 1] # Blank
      BY <1>2, SlotsOf
    <2>3. CASE i = index
      BY <1>5, <1>6, <1>11, <2>1, <2>3
    <2>4. CASE i # index /\ i < d.len
      <3>1. i + 1 \in 1 .. Len(G) /\ i + 1 <= d.len /\ i + 1 # index + 1 /\ i < len
        BY <1>2, <1>4, <1>6, <2>4
      <3>2. array[i + 1] = d.array[i + 1]
        BY <1>4, <1>5, <3>1
      <3> QED  BY <1>10, <2>1, <2>2, <2>4, <3>1, <3>2
    <2>5. CASE i # index /\ ~(i < d.len)
      <3>1. i < len => i + 1 \in 1 .. Len(G) /\ i + 1 > d.len /\ i + 1 # index + 1
        BY <1>2, <1>4, <1>6, <2>5
      <3>2. i < len => array[i + 1] = Blank
        BY <1>4, <1>5, <3>1
      <3> QED  BY <2>1, <2>2, <2>5, <3>2
    <2> QED  BY <2>3, <2>4, <2>5
  <1>13. index \notin Slots(d)
    BY <1>1, <1>2, SlotsOf
  <1>14. Slots(e) = Slots(d) \cup {index}
    <2>1. Slots(e) \subseteq Nat /\ Slots(d) \subseteq Nat
      BY <1>2, <1>10, SlotsOf
    <2> QED  BY <1>2, <1>12, <2>1
  <1>15. e.done = Cardinality(Slots(e))
    <2>1. IsFiniteSet(Slots(d))
      BY <1>2, SlotsOf
    <2> QED  BY <1>2, <1>10, <1>13, <1>14, <2>1, FS_AddElement
  <1>16. SliceOK(e)
    <2>1. array[len] # Blank
      <3>1. CASE len = index + 1
        BY <1>5, <1>11, <3>1
      <3>2. CASE len = d.len /\ len # index + 1
        <4>1. len \in 1 .. Len(G) /\ array[len] = d.array[len]
          BY <1>2, <1>4, <1>5, <1>6, <3>2
        <4> QED  BY <1>2, <1>6, <3>2, <4>1 DEF SliceOK
      <3> QED  BY <1>6, <3>1, <3>2
    <2>2. ASSUME NEW c \in 1 .. Len(G), c > len PROVE array[c] = Blank
      <3>1. c > d.len /\ c # index + 1
        BY <1>2, <1>6, <2>2
      <3> QED  BY <1>4, <1>5, <3>1
    <2> QED  BY <1>5, <1>6, <1>10, <2>1, <2>2 DEF SliceOK
  <1>17. Gentle(d, e)
    <2> SUFFICES ASSUME Len(array) = Len(d.array), NEW c \in 1 .. Len(d.array),
                        d.array[c] \notin {Blank, array[c]}
                 PROVE  FALSE
      BY <1>10 DEF Gentle
    <2>1. c \in 1 .. Len(G)
      BY <1>5
    <2>2. c <= d.len
      BY <1>2 DEF SliceOK
    <2>3. c = index + 1
      BY <1>4, <1>5, <2>1, <2>2
    <2>4. index \in Slots(d)
      BY <1>2, <2>2, <2>3, SlotsOf
    <2> QED  BY <1>13, <2>4
  <1>18. /\ MemInv' /\ Keeps
         /\ Mem!Write(id + 1, Doc(d.identity, d.status, d.done + 1, total, d.error, PagesOfSlice(e)))
    <2>1. RowOK(e)
      BY <1>10, <1>15, <1>16 DEF RowOK
    <2>2. Gentle(idMap[id], e)
      BY <1>17 DEF d
    <2> QED  BY <1>1, <1>3, <1>10, <2>1, <2>2, MOperation, DocumentOfRow
  <1>19. PagesOfSlice(e) = Added(PagesOfSlice(d), index, key)
    <2>1. e.array[index + 1] = key
      BY <1>5, <1>10
    <2>2. \A i \in Slots(d) : i \in Nat
      BY <1>2, SlotsOf
    <2> QED  BY <1>12, <1>14, <2>1, <2>2 DEF PagesOfSlice, Added
  <1>20. MemDocs[id + 1] = Doc(d.identity, d.status, d.done, d.total, d.error, PagesOfSlice(d))
         /\ Mem!Live(id + 1) /\ DOMAIN MemDocs[id + 1].pages = Slots(d)
    BY <1>1, MView DEF d
  <1>21. Mem!WithPage(MemDocs[id + 1], index, key) =
            Doc(d.identity, d.status, d.done + 1, total, d.error, PagesOfSlice(e))
    BY <1>19, <1>20, MSetOnePage DEF total
  <1> QED  BY <1>13, <1>18, <1>20, <1>21 DEF Mem!AddPage, Mem!MayAddPage

-----------------------------------------------------------------------------
(* RemovePage: the slot is blanked, and blanks at the end are cut off.       *)

LEMMA MUnsetOnePage ==
    ASSUME NEW n, NEW s, NEW d, NEW t, NEW e, NEW p, NEW r, r = Doc(n, s, d, t, e, p),
           NEW index
    PROVE  Mem!WithoutPage(r, index) =
               Doc(n, s, IF d > 0 THEN d - 1 ELSE d, t, e, Dropped(p, index))
  <1> DEFINE q == [r EXCEPT !.pages = Dropped(p, index)]
  <1>1. r.pages = p /\ r.done = d
    BY DEF Doc
  <1>2. Mem!WithoutPage(r, index) = [q EXCEPT !.done = IF d > 0 THEN d - 1 ELSE d]
    BY <1>1 DEF Mem!WithoutPage, Dropped
  <1>3. q = Doc(n, s, d, t, e, Dropped(p, index))
    BY DEF Doc
  <1> HIDE DEF q
  <1> QED  BY <1>2, <1>3 DEF Doc

\* n is where a slice whose pages are in the slots of S ends.
Ends(S, n) == S \subseteq 0 .. (n - 1) /\ (n = 0 \/ n - 1 \in S)

LEMMA SomeEnd ==
    ASSUME NEW m \in Nat, NEW S \in SUBSET (0 .. (m - 1))
    PROVE  \E n \in 0 .. m : Ends(S, n)
  <1> DEFINE T == {n \in 0 .. m : S \subseteq 0 .. (n - 1)}
  <1>1. T \subseteq Nat /\ m \in T
    OBVIOUS
  <1>2. PICK n \in T : \A k \in T : n <= k
    <2> HIDE DEF T
    <2> QED  BY <1>1, LeastNatural
  <1>3. n \in 0 .. m /\ S \subseteq 0 .. (n - 1)
    BY <1>2
  <1>4. ASSUME n # 0, n - 1 \notin S PROVE FALSE
    <2>1. n - 1 \in 0 .. m
      BY <1>3, <1>4
    <2>2. S \subseteq 0 .. ((n - 1) - 1)
      BY <1>3, <1>4
    <2>3. n <= n - 1
      BY <1>2, <2>1, <2>2
    <2> QED  BY <1>3, <2>3
  <1> QED  BY <1>3, <1>4 DEF Ends

LEMMA MRemovePageStep ==
    ASSUME MemInv, NEW id, NEW index \in Indexes, MRemovePage(id, index)
    PROVE  MemInv' /\ Keeps /\ Mem!RemovePage(id + 1, index)
  <1> DEFINE d     == idMap[id]
             left  == Slots(d) \ {index}
             len   == CHOOSE n \in 0 .. d.len : Ends(left, n)
             done  == IF d.done > 0 THEN d.done - 1 ELSE d.done
             array == [d.array EXCEPT ![index + 1] = Blank]
             q1    == [d EXCEPT !.array = array]
             q2    == [q1 EXCEPT !.len = len]
             e     == [q2 EXCEPT !.done = done]
  <1>1. id \in DOMAIN idMap /\ MLive(id) /\ SlotExists(d, index)
    BY DEF MRemovePage, MLive, MExists, MMayRemovePage
  <1>2. /\ d \in MRows /\ SliceOK(d) /\ d.done = Cardinality(Slots(d))
        /\ index \in Nat /\ d.len \in Nat /\ d.done \in Nat
        /\ d.array \in Seq(Cells) /\ d.len <= Len(d.array)
    BY <1>1, MView, PageNumbers DEF MRows, SliceOK
  <1>3. Put(id, e)
    BY <1>2 DEF MRemovePage, MRows, Ends, MMayRemovePage
  <1>4. /\ index \in Slots(d) /\ index < d.len /\ IsFiniteSet(Slots(d))
        /\ \A i : i \in Slots(d) <=> i \in Nat /\ i < d.len /\ d.array[i + 1] # Blank
    BY <1>1, <1>2, SlotsOf
  <1>5. /\ len \in 0 .. d.len /\ Ends(left, len)
    <2>1. left \in SUBSET (0 .. (d.len - 1))
      BY <1>2, <1>4
    <2> HIDE DEF left, d
    <2>2. \E n \in 0 .. d.len : Ends(left, n)
      BY <1>2, <2>1, SomeEnd
    <2> QED  BY <2>2
  <1>6. /\ Cardinality(left) = d.done - 1 /\ Cardinality(left) \in Nat
    <2>1. IsFiniteSet(left) /\ Cardinality(left) = d.done - 1
      BY <1>2, <1>4, FS_RemoveElement
    <2> QED  BY <2>1, FS_CardinalityType
  <1>7. done = d.done - 1 /\ done \in Nat
    BY <1>2, <1>6
  <1>8. /\ array \in Seq(Cells) /\ Len(array) = Len(d.array) /\ array[index + 1] = Blank
        /\ \A c \in 1 .. Len(d.array) : c # index + 1 => array[c] = d.array[c]
    BY <1>2, <1>4 DEF Cells
  <1>9. left = Slots(d) \ {index}
    OBVIOUS
  <1> HIDE DEF len, array, d, left, done
  <1>10. /\ /\ q1 \in MRows
         /\ q1.array = array
         /\ q1.identity = d.identity
         /\ q1.status = d.status
         /\ q1.error = d.error /\ q1.total = d.total
    BY <1>2, <1>8 DEF MRows
  <1> HIDE DEF q1
  <1>11. /\ q2 \in MRows /\ q2.array = array /\ q2.len = len /\ q2.identity = d.identity
         /\ q2.status = d.status /\ q2.error = d.error /\ q2.total = d.total
    BY <1>5, <1>10 DEF MRows
  <1> HIDE DEF q2
  <1>12. /\ e \in MRows /\ e.array = array /\ e.len = len /\ e.done = d.done - 1
         /\ e.identity = d.identity /\ e.status = d.status /\ e.error = d.error
         /\ e.total = d.total
    BY <1>7, <1>11 DEF MRows
  <1> HIDE DEF e
  <1>13. left \subseteq 0 .. (len - 1) /\ (len = 0 \/ len - 1 \in left)
    BY <1>5 DEF Ends
  <1>14. Slots(e) = left /\ \A i \in left : e.array[i + 1] = d.array[i + 1]
    <2>1. \A i : i \in Slots(e) <=> i \in Nat /\ i < len /\ array[i + 1] # Blank
      BY <1>12, SlotsOf
    <2>2. ASSUME NEW i \in Nat, i < d.len, i # index
          PROVE  array[i + 1] = d.array[i + 1]
      BY <1>2, <1>8, <2>2
    <2>3. ASSUME NEW i \in left PROVE i \in Slots(e) /\ e.array[i + 1] = d.array[i + 1]
      <3>1. i \in Nat /\ i < d.len /\ i # index /\ d.array[i + 1] # Blank
        BY <1>4, <1>9
      <3>2. i < len
        BY <1>5, <1>13
      <3> QED  BY <1>12, <2>1, <2>2, <3>1, <3>2
    <2>4. ASSUME NEW i \in Slots(e) PROVE i \in left
      <3>1. i \in Nat /\ i < len /\ array[i + 1] # Blank
        BY <2>1
      <3>2. i < d.len /\ i # index
        BY <1>2, <1>5, <1>8, <3>1
      <3> QED  BY <1>4, <1>9, <2>2, <3>1, <3>2
    <2> QED  BY <2>3, <2>4
  <1>15. SliceOK(e)
    <2>1. ASSUME len > 0 PROVE array[len] # Blank
      <3>1. len - 1 \in Slots(e)
        BY <1>5, <1>13, <1>14, <2>1
      <3>2. e.array[(len - 1) + 1] # Blank
        BY <1>12, <3>1, SlotsOf
      <3>3. (len - 1) + 1 = len
        BY <1>5
      <3> QED  BY <1>12, <3>2, <3>3
    <2>2. ASSUME NEW c \in 1 .. Len(d.array), c > len PROVE array[c] = Blank
      <3>1. CASE c = index + 1
        BY <1>8, <3>1
      <3>2. CASE c # index + 1 /\ c > d.len
        BY <1>2, <1>8, <3>2 DEF SliceOK
      <3>3. CASE c # index + 1 /\ c <= d.len
        <4>1. c - 1 \in Nat /\ c - 1 < d.len /\ (c - 1) + 1 = c /\ c - 1 # index
          BY <1>2, <3>3
        <4>2. c - 1 \notin left
          BY <1>5, <1>13, <2>2
        <4> QED  BY <1>4, <1>8, <1>9, <4>1, <4>2
      <3> QED  BY <1>2, <3>1, <3>2, <3>3
    <2> QED  BY <1>2, <1>5, <1>8, <1>12, <2>1, <2>2 DEF SliceOK
  <1>16. Gentle(d, e)
    BY <1>8, <1>12 DEF Gentle
  <1>17. /\ MemInv' /\ Keeps
         /\ Mem!Write(id + 1, Doc(d.identity, d.status, done, d.total, d.error, PagesOfSlice(e)))
    <2>1. RowOK(e)
      BY <1>6, <1>12, <1>14, <1>15 DEF RowOK
    <2>2. Gentle(idMap[id], e)
      BY <1>16 DEF d
    <2> QED  BY <1>1, <1>3, <1>7, <1>12, <2>1, <2>2, MOperation, DocumentOfRow
  <1>18. PagesOfSlice(e) = Dropped(PagesOfSlice(d), index)
    BY <1>9, <1>14 DEF PagesOfSlice, Dropped
  <1>19. MemDocs[id + 1] = Doc(d.identity, d.status, d.done, d.total, d.error, PagesOfSlice(d))
         /\ Mem!Live(id + 1) /\ DOMAIN MemDocs[id + 1].pages = Slots(d)
    BY <1>1, MView DEF d
  <1>20. Mem!WithoutPage(MemDocs[id + 1], index) =
            Doc(d.identity, d.status, done, d.total, d.error, PagesOfSlice(e))
    BY <1>18, <1>19, MUnsetOnePage DEF done
  <1> QED  BY <1>4, <1>17, <1>19, <1>20 DEF Mem!RemovePage, Mem!MayRemovePage

-----------------------------------------------------------------------------
(* Create appends a row whose slice holds the pages handed over.             *)

\* The row that Create appends, with a slice of the first n pages.
NewSlice(identity, pages, total, error, n) ==
    [identity |-> identity, status |-> "queued", done |-> n,
     total |-> IF total < n THEN n ELSE total, error |-> error,
     len |-> n, array |-> [c \in 1 .. Capacity(n) |-> IF c <= n THEN pages[c - 1] ELSE Blank]]

LEMMA NewRowFacts ==
    ASSUME NEW identity \in Identities, NEW pages \in PageMap, Contiguous(pages),
           NEW total \in Nat, NEW error \in BOOLEAN,
           NEW n, n = Cardinality(DOMAIN pages)
    PROVE  /\ n \in Nat /\ RowOK(NewSlice(identity, pages, total, error, n))
           /\ MemDocument(NewSlice(identity, pages, total, error, n)) =
                 Mem!NewDocument(identity, pages, total, error)
  <1> DEFINE row   == NewSlice(identity, pages, total, error, n)
             most  == IF total < n THEN n ELSE total
             array == [c \in 1 .. Capacity(n) |-> IF c <= n THEN pages[c - 1] ELSE Blank]
  <1>1. PICK S \in SUBSET Indexes : IsFiniteSet(S) /\ pages \in [S -> Keys]
    BY DEF PageMap
  <1>2. /\ DOMAIN pages = S /\ S = 0 .. (n - 1) /\ n \in Nat
        /\ pages = [p \in S |-> pages[p]]
    BY <1>1, FS_CardinalityType DEF Contiguous
  <1>3. Capacity(n) \in Nat /\ Capacity(n) >= n
    <2>1. n = 0 \/ (n - 1 \in Indexes /\ n = (n - 1) + 1)
      BY <1>1, <1>2
    <2> QED  BY <2>1, CapacitySuffices
  <1>4. \A c \in 1 .. Capacity(n) :
           c <= n => c - 1 \in S /\ pages[c - 1] \in Keys /\ pages[c - 1] # Blank
    <2> SUFFICES ASSUME NEW c \in 1 .. Capacity(n), c <= n
                 PROVE  c - 1 \in S /\ pages[c - 1] \in Keys /\ pages[c - 1] # Blank
      OBVIOUS
    <2>1. c - 1 \in S
      BY <1>2, <1>3
    <2>2. pages[c - 1] \in Keys
      BY <1>1, <2>1
    <2> QED  BY <2>1, <2>2, BlankIsNoKey
  <1>5. /\ array \in Seq(Cells) /\ Len(array) = Capacity(n)
        /\ \A c \in 1 .. Capacity(n) : array[c] = IF c <= n THEN pages[c - 1] ELSE Blank
    BY <1>3, <1>4 DEF Cells
  <1> HIDE DEF array
  <1>6. /\ row.array = array /\ row.len = n /\ row.done = n /\ row.total = most
        /\ row.identity = identity /\ row.status = "queued" /\ row.error = error
    BY DEF NewSlice, array
  <1>7. row \in MRows
    <2>1. row = [identity |-> identity, status |-> "queued", done |-> n, total |-> most,
                 error |-> error, len |-> n, array |-> array]
      BY DEF NewSlice, array
    <2>2. array \in Seq(Cells) /\ n \in Nat /\ most \in Nat /\ "queued" \in Status
      BY <1>2, <1>5 DEF Status
    <2> HIDE DEF row
    <2> QED  BY <2>1, <2>2 DEF MRows
  <1> HIDE DEF row
  <1>8. Slots(row) = S
    <2>1. \A i : i \in Slots(row) <=> i \in Nat /\ i < n /\ array[i + 1] # Blank
      BY <1>6, <1>7, SlotsOf
    <2>2. ASSUME NEW i \in Nat, i < n PROVE array[i + 1] # Blank
      <3>1. i + 1 \in 1 .. Capacity(n) /\ i + 1 <= n
        BY <1>2, <1>3, <2>2
      <3> QED  BY <1>4, <1>5, <3>1
    <2>3. \A i : i \in S <=> i \in Nat /\ i < n
      BY <1>2
    <2> QED  BY <2>1, <2>2, <2>3
  <1>9. PagesOfSlice(row) = pages
    <2>1. ASSUME NEW i \in S PROVE row.array[i + 1] = pages[i]
      <3>1. i + 1 \in 1 .. Capacity(n) /\ i + 1 <= n /\ (i + 1) - 1 = i
        BY <1>2, <1>3
      <3> QED  BY <1>5, <1>6, <3>1
    <2> QED  BY <1>2, <1>8, <2>1 DEF PagesOfSlice
  <1>10. RowOK(row)
    <2>1. n > 0 => array[n] # Blank
      BY <1>2, <1>3, <1>4, <1>5
    <2>2. ASSUME NEW c \in 1 .. Capacity(n), c > n PROVE array[c] = Blank
      <3>1. ~(c <= n)
        BY <1>2, <1>3, <2>2
      <3> QED  BY <1>5, <3>1
    <2>3. SliceOK(row)
      BY <1>3, <1>5, <1>6, <2>1, <2>2 DEF SliceOK
    <2>4. row.done = Cardinality(Slots(row))
      BY <1>2, <1>6, <1>8
    <2> QED  BY <1>7, <2>3, <2>4 DEF RowOK
  <1>11. MemDocument(row) = Mem!NewDocument(identity, pages, total, error)
    <2>1. Mem!Cardinality(DOMAIN pages) = n
      BY MSameFiniteSets
    <2>2. MemDocument(row) = Doc(identity, "queued", n, most, error, pages)
      BY <1>6, <1>9, DocumentOfRow
    <2> QED  BY <2>1, <2>2 DEF Doc, Mem!NewDocument
  <1> QED  BY <1>2, <1>10, <1>11 DEF row

LEMMA MCreateStep ==
    ASSUME MemInv, NEW identity \in Identities, NEW pages \in PageMap,
           NEW total \in Nat, NEW error \in BOOLEAN, MCreate(identity, pages, total, error)
    PROVE  MemInv' /\ Keeps /\ Mem!Create(identity, pages, total, error)
  <1> DEFINE n   == Cardinality(DOMAIN pages)
             row == NewSlice(identity, pages, total, error, n)
             new == Mem!NewDocument(identity, pages, total, error)
             all == {MemDocument(idMap[i]) : i \in DOMAIN idMap} \cup {new}
  <1>1. /\ \A id \in DOMAIN idMap : idMap[id].identity # identity
        /\ Contiguous(pages) /\ held' = held
        /\ idMap' = [id \in 0 .. Size |-> IF id < Size THEN idMap[id] ELSE row]
    BY DEF MCreate, NewSlice, Size, MMayCreate
  <1>2. RowOK(row) /\ MemDocument(row) = new
    BY <1>1, NewRowFacts
  <1> HIDE DEF n, row, new
  <1>3. /\ Size \in Nat /\ DOMAIN idMap = 0 .. (Size - 1)
        /\ \A id \in DOMAIN idMap : RowOK(idMap[id])
    BY DEF MemInv, TableOK
  <1>4. /\ DOMAIN idMap' = 0 .. Size /\ idMap'[Size] = row
        /\ \A id \in DOMAIN idMap : id \in DOMAIN idMap' /\ idMap'[id] = idMap[id]
        /\ idMap' = [id \in DOMAIN idMap' |-> idMap'[id]]
    BY <1>1, <1>3
  <1>5. Size' = Size + 1
    <2>1. Cardinality(0 .. Size) = Size + 1
      <3> HIDE DEF Size
      <3>1. Cardinality(0 .. Size) = IF 0 > Size THEN 0 ELSE (Size - 0) + 1
        BY <1>3, FS_Interval
      <3> QED  BY <1>3, <3>1
    <2> QED  BY <1>4, <2>1 DEF Size
  <1>6. TableOK'
    <2>1. Size' \in Nat /\ DOMAIN idMap' = 0 .. (Size' - 1)
      BY <1>3, <1>4, <1>5
    <2>2. ASSUME NEW id \in DOMAIN idMap' PROVE RowOK(idMap'[id])
      <3>1. id = Size \/ id \in DOMAIN idMap
        BY <1>3, <1>4
      <3> QED  BY <1>2, <1>3, <1>4, <3>1
    <2> QED  BY <1>4, <2>1, <2>2 DEF TableOK
  <1>7. HeldOK'
    BY <1>1, <1>4 DEF MemInv, HeldOK
  <1>8. Keeps
    BY <1>1 DEF Keeps
  <1>9. /\ MemDocs = [i \in 1 .. Size |-> MemDocument(idMap[i - 1])]
        /\ MemDocs' = [i \in 1 .. Size + 1 |-> MemDocument(idMap'[i - 1])]
    BY <1>5 DEF MemDocs, Size
  <1> HIDE DEF Size
  <1>10. \A i \in 1 .. Size : i - 1 \in DOMAIN idMap
    BY <1>3
  <1>11. MemDocs \in Seq(all) /\ Len(MemDocs) = Size
    BY <1>3, <1>9, <1>10
  <1>12. MemDocs' = [i \in 1 .. Size + 1 |-> IF i = Size + 1 THEN new ELSE MemDocs[i]]
    <2>1. MemDocument(idMap'[(Size + 1) - 1]) = new
      BY <1>2, <1>3, <1>4
    <2>2. ASSUME NEW i \in 1 .. Size + 1, i # Size + 1
          PROVE  MemDocument(idMap'[i - 1]) = MemDocs[i]
      BY <1>3, <1>4, <1>9, <1>10, <2>2
    <2> QED  BY <1>9, <2>1, <2>2
  <1>13. MemDocs' = Append(MemDocs, new)
    <2>1. /\ Append(MemDocs, new) \in Seq(all)
          /\ Len(Append(MemDocs, new)) = Size + 1
          /\ Append(MemDocs, new)[Size + 1] = new
          /\ \A i \in 1 .. Size : Append(MemDocs, new)[i] = MemDocs[i]
      <3>1. new \in all
        OBVIOUS
      <3> HIDE DEF all
      <3> QED  BY <1>11, <3>1, AppendProperties
    <2>2. Append(MemDocs, new) = [i \in 1 .. Size + 1 |-> Append(MemDocs, new)[i]]
      <3> HIDE DEF all
      <3>1. Append(MemDocs, new) \in [1 .. Size + 1 -> all]
        BY <2>1, LenProperties
      <3> QED  BY <3>1
    <2>3. \A i \in 1 .. Size + 1 : i = Size + 1 \/ i \in 1 .. Size
      BY <1>3
    <2> QED  BY <1>12, <2>1, <2>2, <2>3
  <1>14. ~Mem!Taken(identity)
    <2> SUFFICES ASSUME NEW i \in DOMAIN MemDocs PROVE MemDocs[i].identity # identity
      BY DEF Mem!Taken
    <2>1. i - 1 \in DOMAIN idMap /\ MemDocs[i] = MemDocument(idMap[i - 1])
      BY <1>9, <1>10
    <2> QED  BY <1>1, <2>1 DEF MemDocument
  <1> QED  BY <1>1, <1>6, <1>7, <1>8, <1>13, <1>14, MSameFiniteSets
           DEF MemInv, Mem!Create, Mem!Contiguous, Contiguous, new, Mem!MayCreate

\* Get copies the slice as far as it is in use.
LEMMA GetStep ==
    ASSUME MemInv, NEW id, MGet(id)
    PROVE  MemInv' /\ Keeps /\ MemDocs' = MemDocs
  <1> DEFINE d == idMap[id]
  <1>1. /\ id \in DOMAIN idMap /\ idMap' = idMap
        /\ held' = [id |-> id, cells |-> SubSeq(d.array, 1, d.len), shared |-> TRUE]
    BY DEF MGet, MLive, MExists
  <1>2. id \in Nat /\ d.array \in Seq(Cells) /\ d.len \in Nat /\ d.len <= Len(d.array)
    BY <1>1, MView DEF MRows, SliceOK
  <1> HIDE DEF d
  <1>3. /\ SubSeq(d.array, 1, d.len) \in Seq(Cells) /\ Len(SubSeq(d.array, 1, d.len)) = d.len
        /\ \A c \in 1 .. d.len : SubSeq(d.array, 1, d.len)[c] = d.array[c]
    BY <1>2
  <1>4. HeldOK'
    BY <1>1, <1>2, <1>3 DEF HeldOK, d
  <1>5. TableOK'
    BY <1>1 DEF MemInv, TableOK, Size
  <1> QED  BY <1>1, <1>4, <1>5 DEF MemInv, Keeps, MemDocs
-----------------------------------------------------------------------------

\* A step of the memory store keeps its invariant and what readers see, and is a
\* step of the table.
LEMMA MemStepOK ==
    ASSUME MemInv, [MemNext]_memVars
    PROVE  MemInv' /\ (UNCHANGED memVars \/ Keeps) /\ [Mem!StoreNext]_MemDocs
  <1>1. CASE UNCHANGED memVars
    BY <1>1 DEF memVars, MemInv, TableOK, Size, HeldOK, MemDocs
  <1>2. CASE \E identity \in Identities, pages \in PageMap,
                total \in Totals \cup {0}, error \in BOOLEAN :
                  MCreate(identity, pages, total, error)
    BY <1>2, MCreateStep, MSamePageMap, PageNumbers DEF Mem!StoreNext
  <1>3. ASSUME NEW id \in DOMAIN idMap, MemStep(id)
        PROVE  MemInv' /\ Keeps /\ [Mem!StoreNext]_MemDocs
    <2>1. id + 1 \in DOMAIN MemDocs
      BY MView DEF Mem!Exists
    <2>2. CASE MGet(id)
      BY <2>2, GetStep
    <2>3. CASE ~MGet(id)
      <3> SUFFICES MemInv' /\ Keeps /\ Mem!StoreStep(id + 1)
        BY <2>1 DEF Mem!StoreNext
      <3>1. CASE MDelete(id)
        BY <3>1, MDeleteStep DEF Mem!StoreStep
      <3>2. CASE \E status \in Status : MTransitionTo(id, status)
        BY <3>2, MTransitionStep DEF Mem!StoreStep, Mem!Status, Status
      <3>3. CASE \E total \in Totals \cup {idMap[id].total}, error \in BOOLEAN :
                    MUpdateMeta(id, total, error)
        <4>1. idMap[id].total \in Nat /\ MemDocs[id + 1].total = idMap[id].total
          BY MView DEF MRows
        <4> QED  BY <3>3, <4>1, PageNumbers, MUpdateMetaStep DEF Mem!StoreStep
      <3>4. CASE MResetPages(id)
        BY <3>4, MResetPagesStep DEF Mem!StoreStep
      <3>5. CASE \E index \in Indexes, key \in Keys : MAddPage(id, index, key)
        BY <3>5, MAddPageStep DEF Mem!StoreStep
      <3>6. CASE \E index \in Indexes : MRemovePage(id, index)
        BY <3>6, MRemovePageStep DEF Mem!StoreStep
      <3>7. CASE MPurge(id)
        BY <3>7, MPurgeStep DEF Mem!StoreStep
      <3>8. CASE MRestore(id)
        BY <3>8, MRestoreStep DEF Mem!StoreStep
      <3> QED  BY <1>3, <2>3, <3>1, <3>2, <3>3, <3>4, <3>5, <3>6, <3>7, <3>8 DEF MemStep
    <2> QED  BY <2>2, <2>3
  <1> QED  BY <1>1, <1>2, <1>3 DEF MemNext

LEMMA MemInitOK == MemInit => MemInv /\ Mem!StoreInit
  <1> SUFFICES ASSUME MemInit PROVE MemInv /\ Mem!StoreInit
    OBVIOUS
  <1>1. /\ idMap = [id \in {} |-> id] /\ DOMAIN idMap = {}
        /\ held = [id |-> 0, cells |-> << >>, shared |-> FALSE]
    BY DEF MemInit
  <1>2. Size = 0
    BY <1>1, FS_EmptySet DEF Size
  <1>3. TableOK
    BY <1>1, <1>2 DEF TableOK
  <1>4. HeldOK
    BY <1>1 DEF HeldOK
  <1>5. MemDocs = [id \in 1 .. 0 |-> MemDocument(idMap[id - 1])]
    BY <1>2 DEF MemDocs, Size
  <1>6. MemDocs = << >>
    BY <1>5
  <1> QED  BY <1>3, <1>4, <1>6 DEF MemInv, Mem!StoreInit

\* Types, the shape of every page slice, and a copy that shows its array.
LEMMA MemInvariant == MemSpec => []MemInv
  <1>1. MemInv /\ [MemNext]_memVars => MemInv'
    BY MemStepOK
  <1> QED  BY <1>1, MemInitOK, PTL DEF MemSpec

LEMMA InvImpliesMemTypeOK == MemInv => MemTypeOK
  <1> SUFFICES ASSUME MemInv, NEW id \in DOMAIN idMap
               PROVE  /\ idMap[id].len \in 0 .. Len(idMap[id].array)
                      /\ idMap[id].len > 0 => SlotExists(idMap[id], idMap[id].len - 1)
                      /\ \A c \in DOMAIN idMap[id].array :
                            c > idMap[id].len => idMap[id].array[c] = Blank
    BY DEF MemTypeOK
  <1> DEFINE d == idMap[id]
  <1>1. d \in MRows /\ SliceOK(d)
    BY MView
  <1>2. d.len \in Nat /\ d.array \in Seq(Cells) /\ DOMAIN d.array = 1 .. Len(d.array)
    BY <1>1 DEF MRows
  <1> HIDE DEF d
  <1>3. ASSUME d.len > 0 PROVE SlotExists(d, d.len - 1)
    <2>1. d.len - 1 < d.len /\ (d.len - 1) + 1 = d.len
      BY <1>2
    <2> QED  BY <1>1, <1>3, <2>1 DEF SliceOK, SlotExists
  <1> QED  BY <1>1, <1>2, <1>3 DEF SliceOK, d

\* Whatever is added, removed, reset or purged, a page slice ends with a page and
\* is blank beyond: neither growing in place (append in addPageLocked) nor cutting
\* (the loop of removePageLocked) brings a removed page back.
THEOREM MemSliceShape == MemSpec => []MemTypeOK
  BY MemInvariant, InvImpliesMemTypeOK, PTL

\* A page that a caller of Get saw in its copy goes only with RemovePage and is
\* never replaced, although Get copies the slice and not the array behind it.
THEOREM MemSnapshots == MemSpec => SnapshotsKeepPages
  <1> DEFINE Kept == idMap' # idMap =>
                \A c \in DOMAIN held.cells :
                   held.cells[c] \notin {Blank, held'.cells[c]} =>
                       /\ held'.cells[c] = Blank
                       /\ idMap'[held.id].done = idMap[held.id].done - 1
  <1>1. MemInv /\ [MemNext]_memVars => [Kept]_memVars
    BY MemStepOK DEF Keeps
  <1> HIDE DEF Kept
  <1>2. MemSpec => [][Kept]_memVars
    BY <1>1, MemInvariant, PTL DEF MemSpec
  <1> QED  BY <1>2 DEF Kept, SnapshotsKeepPages

\* Whatever is called on the memory store, its slices do what documents.Store says
\* of page maps: a slot is free or holds its page, for any growth of the arrays.
THEOREM MemImplementsStore == MemSpec => MemImplements
  <1>1. MemInv /\ [MemNext]_memVars => [Mem!StoreNext]_MemDocs
    BY MemStepOK
  <1> QED  BY <1>1, MemInitOK, MemInvariant, PTL DEF MemSpec, MemImplements, Mem!StoreSpec
-----------------------------------------------------------------------------
(* The stores agree: in step, the same call is accepted by all or by none, and *)
(* does the same to the documents they show.                                   *)

\* The two stores show the documents of the table, and never differed so far.
Agreeing == MemInv /\ SqlInv /\ MemDocs = docs /\ SqlDocs = docs /\ agreed

\* What the guards look at is the same in all three.
LEMMA SameView ==
    ASSUME Agreeing, NEW id \in Nat \ {0}
    PROVE  /\ Exists(id) <=> MExists(id - 1)
           /\ Exists(id) <=> SExists(id)
           /\ Exists(id) =>
                /\ idMap[id - 1].identity = docs[id].identity
                /\ documents[id].identity = docs[id].identity
                /\ idMap[id - 1].status = docs[id].status
                /\ documents[id].status = docs[id].status
                /\ idMap[id - 1].done = docs[id].done
                /\ documents[id].done = docs[id].done
                /\ idMap[id - 1].total = docs[id].total
                /\ documents[id].total = docs[id].total
                /\ Slots(idMap[id - 1]) = DOMAIN docs[id].pages
                /\ \A index \in Nat : SlotExists(idMap[id - 1], index)
                                        <=> index \in DOMAIN docs[id].pages
                /\ \A index : PageRow(id, index) = {} <=> index \notin DOMAIN docs[id].pages
                /\ PageRows(id) = {} <=> DOMAIN docs[id].pages = {}
           /\ \A index : PageRow(id, index) # {} => SExists(id)
  <1>1. PICK m \in Nat : m + 1 = id /\ id - 1 = m
    <2>1. id - 1 \in Nat /\ (id - 1) + 1 = id
      OBVIOUS
    <2> QED  BY <2>1
  <1>2. Exists(id) <=> MExists(m)
    <2>1. /\ Size \in Nat /\ DOMAIN idMap = 0 .. (Size - 1)
          /\ MemDocs = [i \in 1 .. Size |-> MemDocument(idMap[i - 1])]
      BY DEF Agreeing, MemInv, TableOK, MemDocs, Size
    <2> QED  BY <1>1, <2>1 DEF Agreeing, Exists, MExists
  <1>3. Exists(id) <=> SExists(id)
    BY DEF Agreeing, Exists, SExists, SqlDocs
  <1>4. ASSUME Exists(id)
        PROVE  /\ idMap[m].identity = docs[id].identity /\ idMap[m].status = docs[id].status
               /\ idMap[m].done = docs[id].done /\ idMap[m].total = docs[id].total
               /\ Slots(idMap[m]) = DOMAIN docs[id].pages
               /\ \A index \in Nat : SlotExists(idMap[m], index) <=> index \in Slots(idMap[m])
    <2>1. m \in DOMAIN idMap
      BY <1>2, <1>4 DEF MExists
    <2>2. docs[id] = Doc(idMap[m].identity, idMap[m].status, idMap[m].done,
                         idMap[m].total, idMap[m].error, PagesOfSlice(idMap[m]))
      BY <1>1, <2>1, MView DEF Agreeing
    <2>3. idMap[m] \in MRows /\ DOMAIN docs[id].pages = Slots(idMap[m])
      BY <1>1, <2>1, MView DEF Agreeing
    <2> QED  BY <2>2, <2>3, SlotsOf DEF Doc
  <1>5. OneRowPerPage(document_pages) /\ document_pages \subseteq PageRowsOf(DOMAIN documents)
    BY DEF Agreeing, SqlInv
  <1>6. \A index : PageRow(id, index) = {} <=> index \notin DOMAIN PagesIn(document_pages, id)
    BY <1>5, PagesInFacts DEF PageRow, PageRows
  <1>7. PageRows(id) = {} <=> DOMAIN PagesIn(document_pages, id) = {}
    <2>1. PageRows(id) # {} => \E index : PageRow(id, index) # {}
      BY DEF PageRow, PageRows
    <2>2. \A index : PageRow(id, index) # {} => PageRows(id) # {}
      BY DEF PageRow
    <2> QED  BY <1>6, <2>1, <2>2
  <1>8. ASSUME Exists(id)
        PROVE  /\ documents[id].identity = docs[id].identity
               /\ documents[id].status = docs[id].status
               /\ documents[id].done = docs[id].done /\ documents[id].total = docs[id].total
               /\ PagesIn(document_pages, id) = docs[id].pages
    <2>1. SExists(id) /\ SqlInv /\ SqlDocs = docs
      BY <1>3, <1>8 DEF Agreeing
    <2>2. docs[id] = DocumentIn(documents, document_pages, id)
      BY <2>1, View
    <2> QED  BY <2>2 DEF DocumentIn
  <1>9. \A index : PageRow(id, index) # {} => SExists(id)
    BY <1>5 DEF PageRow, PageRows, PageRowsOf, SExists
  <1> QED  BY <1>1, <1>2, <1>3, <1>4, <1>6, <1>7, <1>8, <1>9

\* A call refused by all.
LEMMA Refused ==
    ASSUME Agreeing, UNCHANGED <<docs, memVars, sqlVars>>, agreed'
    PROVE  Agreeing'
  <1>1. MemInv' /\ MemDocs' = MemDocs
    BY MemStepOK DEF Agreeing, memVars, MemDocs
  <1>2. SqlInv' /\ SqlDocs' = SqlDocs
    BY SqlStepOK DEF Agreeing, sqlVars, SqlDocs, SqlDocument, PagesOf, PageRows, PageRow
  <1> QED  BY <1>1, <1>2 DEF Agreeing

\* What a call makes of a document is the same in all three.
LEMMA SameEffects ==
    ASSUME NEW d
    PROVE  /\ \A status : /\ Mem!WithStatus(d, status) = WithStatus(d, status)
                          /\ Sql!WithStatus(d, status) = WithStatus(d, status)
           /\ \A index, key : /\ Mem!WithPage(d, index, key) = WithPage(d, index, key)
                              /\ Sql!WithPage(d, index, key) = WithPage(d, index, key)
           /\ \A index : /\ Mem!WithoutPage(d, index) = WithoutPage(d, index)
                         /\ Sql!WithoutPage(d, index) = WithoutPage(d, index)
           /\ Mem!WithoutPages(d) = WithoutPages(d) /\ Sql!WithoutPages(d) = WithoutPages(d)
           /\ Mem!Emptied(d) = Emptied(d) /\ Sql!Emptied(d) = Emptied(d)
  BY DEF WithStatus, Mem!WithStatus, Sql!WithStatus, WithPage, Mem!WithPage, Sql!WithPage,
         WithoutPage, Mem!WithoutPage, Sql!WithoutPage, NoPages, Mem!NoPages, Sql!NoPages,
         WithoutPages, Mem!WithoutPages, Sql!WithoutPages, Emptied, Mem!Emptied, Sql!Emptied

\* A call accepted by all.
LEMMA Accepted ==
    ASSUME Agreeing, MemInv', SqlInv', agreed', NEW id, NEW d,
           Write(id, d), Mem!Write(id, d), Sql!Write(id, d)
    PROVE  Agreeing'
  BY DEF Agreeing, Write, Mem!Write, Sql!Write

LEMMA AllDeleteOK ==
    ASSUME Agreeing, NEW id \in Nat \ {0}, AllDelete(id)
    PROVE  Agreeing'
  <1>1. (id - 1) + 1 = id
    OBVIOUS
  <1>2. (MayDelete(id) <=> MMayDelete(id - 1)) /\ (MayDelete(id) <=> SMayDelete(id))
    BY SameView DEF MayDelete, MMayDelete, SMayDelete, Live, MLive, SLive
  <1>3. agreed'
    BY <1>2 DEF AllDelete, Together, Agreeing
  <1>4. CASE MayDelete(id)
    <2>1. Delete(id) /\ MDelete(id - 1) /\ SDelete(id)
      BY <1>2, <1>4 DEF AllDelete, Together
    <2>2. MemInv' /\ Mem!Delete(id)
      BY <1>1, <2>1, MDeleteStep DEF Agreeing
    <2>3. SqlInv' /\ Sql!Delete(id)
      BY <2>1, DeleteStep DEF Agreeing
    <2> DEFINE d == WithStatus(docs[id], "deleted")
    <2>4. Write(id, d) /\ Mem!Write(id, d) /\ Sql!Write(id, d)
      BY <2>1, <2>2, <2>3, SameEffects DEF Agreeing, Delete, Mem!Delete, Sql!Delete
    <2> QED  BY <1>3, <2>2, <2>3, <2>4, Accepted
  <1>5. CASE ~MayDelete(id)
    BY <1>2, <1>3, <1>5, Refused DEF AllDelete, Together, Delete, MDelete, SDelete
  <1> QED  BY <1>4, <1>5

LEMMA AllRestoreOK ==
    ASSUME Agreeing, NEW id \in Nat \ {0},
           AllRestore(id)
    PROVE  Agreeing'
  <1>1. (id - 1) + 1 = id
    OBVIOUS
  <1>2. (MayRestore(id) <=> MMayRestore(id - 1)) /\ (MayRestore(id) <=> SMayRestore(id))
    BY SameView DEF MMayRestore, MayRestore, SMayRestore
  <1>3. agreed'
    BY <1>2 DEF AllRestore, Together, Agreeing
  <1>4. CASE MayRestore(id)
    <2>1. Restore(id) /\ MRestore(id - 1) /\ SRestore(id)
      BY <1>2, <1>4 DEF AllRestore, Together
    <2>2. MemInv' /\ Mem!Restore(id)
      BY <1>1, <2>1, MRestoreStep DEF Agreeing
    <2>3. SqlInv' /\ Sql!Restore(id)
      BY <2>1, RestoreStep DEF Agreeing
    <2> DEFINE d == WithStatus(docs[id], "queued")
    <2>4. Write(id, d) /\ Mem!Write(id, d) /\ Sql!Write(id, d)
      BY <2>1, <2>2, <2>3, SameEffects DEF Agreeing, Restore, Mem!Restore, Sql!Restore
    <2> QED  BY <1>3, <2>2, <2>3, <2>4, Accepted
  <1>5. CASE ~MayRestore(id)
    BY <1>2, <1>3, <1>5, Refused
       DEF AllRestore, Together, Restore, MRestore, SRestore
  <1> QED  BY <1>4, <1>5

LEMMA AllPurgeOK ==
    ASSUME Agreeing, NEW id \in Nat \ {0},
           AllPurge(id)
    PROVE  Agreeing'
  <1>1. (id - 1) + 1 = id
    OBVIOUS
  <1>2. (MayPurge(id) <=> MMayPurge(id - 1)) /\ (MayPurge(id) <=> SMayPurge(id))
    BY SameView DEF MMayPurge, MayPurge, SMayPurge
  <1>3. agreed'
    BY <1>2 DEF AllPurge, Together, Agreeing
  <1>4. CASE MayPurge(id)
    <2>1. Purge(id) /\ MPurge(id - 1) /\ SPurge(id)
      BY <1>2, <1>4 DEF AllPurge, Together
    <2>2. MemInv' /\ Mem!Purge(id)
      BY <1>1, <2>1, MPurgeStep DEF Agreeing
    <2>3. SqlInv' /\ Sql!Purge(id)
      BY <2>1, PurgeStep DEF Agreeing
    <2> DEFINE d == Emptied(docs[id])
    <2>4. Write(id, d) /\ Mem!Write(id, d) /\ Sql!Write(id, d)
      BY <2>1, <2>2, <2>3, SameEffects DEF Agreeing, Purge, Mem!Purge, Sql!Purge
    <2> QED  BY <1>3, <2>2, <2>3, <2>4, Accepted
  <1>5. CASE ~MayPurge(id)
    BY <1>2, <1>3, <1>5, Refused
       DEF AllPurge, Together, Purge, MPurge, SPurge
  <1> QED  BY <1>4, <1>5

LEMMA AllTransitionOK ==
    ASSUME Agreeing, NEW id \in Nat \ {0}, NEW status \in Status,
           AllTransitionTo(id, status)
    PROVE  Agreeing'
  <1>1. (id - 1) + 1 = id
    OBVIOUS
  <1>2. /\ MayTransition(id, status) <=> MMayTransition(id - 1, status)
        /\ MayTransition(id, status) <=> SMayTransition(id, status)
    BY SameView DEF MMayTransition, MayTransition, SMayTransition, MIsEmpty, IsEmpty
  <1>3. agreed'
    BY <1>2 DEF AllTransitionTo, Together, Agreeing
  <1>4. CASE MayTransition(id, status)
    <2>1. /\ TransitionTo(id, status)
          /\ MTransitionTo(id - 1, status)
          /\ STransitionTo(id, status)
      BY <1>2, <1>4 DEF AllTransitionTo, Together
    <2>2. MemInv' /\ Mem!TransitionTo(id, status)
      BY <1>1, <2>1, MTransitionStep DEF Agreeing
    <2>3. SqlInv' /\ Sql!TransitionTo(id, status)
      BY <2>1, TransitionStep DEF Agreeing
    <2> DEFINE d == WithStatus(docs[id], status)
    <2>4. Write(id, d) /\ Mem!Write(id, d) /\ Sql!Write(id, d)
      BY <2>1, <2>2, <2>3, SameEffects
         DEF Agreeing, TransitionTo, Mem!TransitionTo, Sql!TransitionTo
    <2> QED  BY <1>3, <2>2, <2>3, <2>4, Accepted
  <1>5. CASE ~MayTransition(id, status)
    BY <1>2, <1>3, <1>5, Refused
       DEF AllTransitionTo, Together, TransitionTo, MTransitionTo, STransitionTo
  <1> QED  BY <1>4, <1>5

LEMMA AllResetPagesOK ==
    ASSUME Agreeing, NEW id \in Nat \ {0},
           AllResetPages(id)
    PROVE  Agreeing'
  <1>1. (id - 1) + 1 = id
    OBVIOUS
  <1>2. (Live(id) <=> MLive(id - 1)) /\ (Live(id) <=> SLive(id))
    BY SameView DEF Live, MLive, SLive
  <1>3. agreed'
    BY <1>2 DEF AllResetPages, Together, Agreeing
  <1>4. CASE Live(id)
    <2>1. ResetPages(id) /\ MResetPages(id - 1) /\ SResetPages(id)
      BY <1>2, <1>4 DEF AllResetPages, Together
    <2>2. MemInv' /\ Mem!ResetPages(id)
      BY <1>1, <2>1, MResetPagesStep DEF Agreeing
    <2>3. SqlInv' /\ Sql!ResetPages(id)
      BY <2>1, ResetPagesStep DEF Agreeing
    <2> DEFINE d == WithoutPages(docs[id])
    <2>4. Write(id, d) /\ Mem!Write(id, d) /\ Sql!Write(id, d)
      BY <2>1, <2>2, <2>3, SameEffects DEF Agreeing, ResetPages, Mem!ResetPages, Sql!ResetPages
    <2> QED  BY <1>3, <2>2, <2>3, <2>4, Accepted
  <1>5. CASE ~Live(id)
    BY <1>2, <1>3, <1>5, Refused
       DEF AllResetPages, Together, ResetPages, MResetPages, SResetPages
  <1> QED  BY <1>4, <1>5

LEMMA AllUpdateMetaOK ==
    ASSUME Agreeing, NEW id \in Nat \ {0}, NEW total \in Totals, NEW error \in Errors,
           AllUpdateMeta(id, total, error)
    PROVE  Agreeing'
  <1>1. (id - 1) + 1 = id
    OBVIOUS
  <1>2. (Live(id) <=> MLive(id - 1)) /\ (Live(id) <=> SLive(id))
    BY SameView, PageNumbers, ErrorsAreFlags DEF Live, MLive, SLive
  <1>3. agreed'
    BY <1>2 DEF AllUpdateMeta, Together, Agreeing
  <1>4. CASE Live(id)
    <2>1. /\ UpdateMeta(id, total, error)
          /\ MUpdateMeta(id - 1, total, error)
          /\ SUpdateMeta(id, total, error)
      BY <1>2, <1>4 DEF AllUpdateMeta, Together
    <2>2. MemInv' /\ Mem!UpdateMeta(id, total, error)
      BY <1>1, <2>1, MUpdateMetaStep, PageNumbers, ErrorsAreFlags DEF Agreeing
    <2>3. SqlInv' /\ Sql!UpdateMeta(id, total, error)
      BY <2>1, UpdateMetaStep, PageNumbers, ErrorsAreFlags DEF Agreeing
    <2> DEFINE d == WithMeta(docs[id], total, error)
    <2>4. Write(id, d) /\ Mem!Write(id, d) /\ Sql!Write(id, d)
      BY <2>1, <2>2, <2>3, SameEffects
         DEF Agreeing, UpdateMeta, Mem!UpdateMeta, Sql!UpdateMeta, WithMeta
    <2> QED  BY <1>3, <2>2, <2>3, <2>4, Accepted
  <1>5. CASE ~Live(id)
    BY <1>2, <1>3, <1>5, Refused
       DEF AllUpdateMeta, Together, UpdateMeta, MUpdateMeta, SUpdateMeta
  <1> QED  BY <1>4, <1>5

LEMMA AllAddPageOK ==
    ASSUME Agreeing, NEW id \in Nat \ {0}, NEW index \in Indexes, NEW key \in Keys,
           AllAddPage(id, index, key)
    PROVE  Agreeing'
  <1>1. (id - 1) + 1 = id
    OBVIOUS
  <1>2. /\ MayAddPage(id, index) <=> MMayAddPage(id - 1, index)
        /\ MayAddPage(id, index) <=> SMayAddPage(id, index)
    BY SameView, PageNumbers DEF MMayAddPage, MayAddPage, SMayAddPage, Live, MLive, SLive
  <1>3. agreed'
    BY <1>2 DEF AllAddPage, Together, Agreeing
  <1>4. CASE MayAddPage(id, index)
    <2>1. AddPage(id, index, key) /\ MAddPage(id - 1, index, key) /\ SAddPage(id, index, key)
      BY <1>2, <1>4 DEF AllAddPage, Together
    <2>2. MemInv' /\ Mem!AddPage(id, index, key)
      BY <1>1, <2>1, MAddPageStep, PageNumbers DEF Agreeing
    <2>3. SqlInv' /\ Sql!AddPage(id, index, key)
      BY <2>1, AddPageStep, PageNumbers DEF Agreeing
    <2> DEFINE d == WithPage(docs[id], index, key)
    <2>4. Write(id, d) /\ Mem!Write(id, d) /\ Sql!Write(id, d)
      BY <2>1, <2>2, <2>3, SameEffects DEF Agreeing, AddPage, Mem!AddPage, Sql!AddPage
    <2> QED  BY <1>3, <2>2, <2>3, <2>4, Accepted
  <1>5. CASE ~MayAddPage(id, index)
    BY <1>2, <1>3, <1>5, Refused
       DEF AllAddPage, Together, AddPage, MAddPage, SAddPage
  <1> QED  BY <1>4, <1>5

LEMMA AllRemovePageOK ==
    ASSUME Agreeing, NEW id \in Nat \ {0}, NEW index \in Indexes,
           AllRemovePage(id, index)
    PROVE  Agreeing'
  <1>1. (id - 1) + 1 = id
    OBVIOUS
  <1>2. /\ MayRemovePage(id, index) <=> MMayRemovePage(id - 1, index)
        /\ MayRemovePage(id, index) <=> SMayRemovePage(id, index)
    BY SameView, PageNumbers
       DEF MMayRemovePage, MayRemovePage, SMayRemovePage, Live, MLive, SLive
  <1>3. agreed'
    BY <1>2 DEF AllRemovePage, Together, Agreeing
  <1>4. CASE MayRemovePage(id, index)
    <2>1. RemovePage(id, index) /\ MRemovePage(id - 1, index) /\ SRemovePage(id, index)
      BY <1>2, <1>4 DEF AllRemovePage, Together
    <2>2. MemInv' /\ Mem!RemovePage(id, index)
      BY <1>1, <2>1, MRemovePageStep, PageNumbers DEF Agreeing
    <2>3. SqlInv' /\ Sql!RemovePage(id, index)
      BY <2>1, RemovePageStep, PageNumbers DEF Agreeing
    <2> DEFINE d == WithoutPage(docs[id], index)
    <2>4. Write(id, d) /\ Mem!Write(id, d) /\ Sql!Write(id, d)
      BY <2>1, <2>2, <2>3, SameEffects DEF Agreeing, RemovePage, Mem!RemovePage, Sql!RemovePage
    <2> QED  BY <1>3, <2>2, <2>3, <2>4, Accepted
  <1>5. CASE ~MayRemovePage(id, index)
    BY <1>2, <1>3, <1>5, Refused
       DEF AllRemovePage, Together, RemovePage, MRemovePage, SRemovePage
  <1> QED  BY <1>4, <1>5

LEMMA AllCreateOK ==
    ASSUME Agreeing, NEW identity \in Identities, NEW pages \in PageMap,
           NEW total \in Nat, NEW error \in BOOLEAN, AllCreate(identity, pages, total, error)
    PROVE  Agreeing'
  <1>1. Taken(identity) <=> \E id \in DOMAIN idMap : idMap[id].identity = identity
    <2>1. /\ Size \in Nat /\ DOMAIN idMap = 0 .. (Size - 1) /\ DOMAIN docs = 1 .. Size
      BY DEF Agreeing, MemInv, TableOK, MemDocs, Size
    <2>2. ASSUME NEW id \in DOMAIN idMap
          PROVE  id + 1 \in DOMAIN docs /\ docs[id + 1].identity = idMap[id].identity
      <3>1. id + 1 \in Nat \ {0} /\ (id + 1) - 1 = id /\ id + 1 \in DOMAIN docs
        BY <2>1
      <3> QED  BY <3>1, SameView DEF Exists
    <2>3. \A id \in DOMAIN docs : id - 1 \in DOMAIN idMap /\ (id - 1) + 1 = id
      BY <2>1
    <2> QED  BY <2>2, <2>3 DEF Taken
  <1>2. Taken(identity) <=> \E id \in DOMAIN documents : documents[id].identity = identity
    <2>1. DOMAIN docs = DOMAIN documents /\ DOMAIN docs \subseteq Nat \ {0}
      BY DEF Agreeing, SqlInv, SqlDocs
    <2> QED  BY <2>1, SameView DEF Exists, Taken
  <1>3. /\ MayCreate(identity, pages) <=> MMayCreate(identity, pages)
        /\ MayCreate(identity, pages) <=> SMayCreate(identity, pages)
    BY <1>1, <1>2 DEF MayCreate, MMayCreate, SMayCreate
  <1>4. agreed'
    BY <1>3 DEF AllCreate, Together, Agreeing
  <1>5. CASE MayCreate(identity, pages)
    <2>1. /\ Create(identity, pages, total, error)
          /\ MCreate(identity, pages, total, error)
          /\ SCreate(identity, pages, total, error)
      BY <1>3, <1>5 DEF AllCreate, Together
    <2>2. MemInv' /\ Mem!Create(identity, pages, total, error)
      BY <2>1, MCreateStep DEF Agreeing
    <2>3. SqlInv' /\ Sql!Create(identity, pages, total, error)
      BY <2>1, CreateStep DEF Agreeing
    <2> DEFINE new == NewDocument(identity, pages, total, error)
    <2>4. /\ Mem!NewDocument(identity, pages, total, error) = new
          /\ Sql!NewDocument(identity, pages, total, error) = new
      BY MSameFiniteSets, SameFiniteSets DEF NewDocument, Mem!NewDocument, Sql!NewDocument
    <2> HIDE DEF new
    <2>5. /\ docs' = Append(docs, new)
          /\ MemDocs' = Append(MemDocs, new)
          /\ SqlDocs' = Append(SqlDocs, new)
      BY <2>1, <2>2, <2>3, <2>4 DEF Create, Mem!Create, Sql!Create, new
    <2> QED  BY <1>4, <2>2, <2>3, <2>5 DEF Agreeing
  <1>6. CASE ~MayCreate(identity, pages)
    BY <1>3, <1>4, <1>6, Refused DEF AllCreate, Together, Create, MCreate, SCreate
  <1> QED  BY <1>5, <1>6

LEMMA ReadOK ==
    ASSUME Agreeing, NEW id, Read(id)
    PROVE  Agreeing'
  <1>1. MGet(id) /\ UNCHANGED <<docs, sqlVars, agreed>>
    BY DEF Read
  <1>2. MemInv' /\ MemDocs' = MemDocs
    BY <1>1, GetStep DEF Agreeing
  <1>3. SqlInv' /\ SqlDocs' = SqlDocs
    BY <1>1, SqlStepOK
       DEF Agreeing, sqlVars, SqlDocs, SqlDocument, PagesOf, PageRows, PageRow
  <1> QED  BY <1>1, <1>2, <1>3 DEF Agreeing

LEMMA StoresInitOK == StoresInit => Agreeing
  <1>1. StoresInit => MemDocs = << >> /\ SqlDocs = << >> /\ docs = << >>
    BY MemInitOK, SqlInitOK DEF StoresInit, StoreInit, Mem!StoreInit, Sql!StoreInit
  <1> QED  BY <1>1, MemInitOK, SqlInitOK DEF StoresInit, Agreeing

LEMMA StoresStepOK ==
    ASSUME Agreeing, [StoresNext]_storesVars
    PROVE  Agreeing'
  <1>1. CASE UNCHANGED storesVars
    BY <1>1, Refused DEF storesVars, Agreeing
  <1>2. ASSUME NEW identity \in Identities, NEW pages \in PageMap,
               NEW total \in Totals, NEW error \in Errors, AllCreate(identity, pages, total, error)
        PROVE  Agreeing'
    BY <1>2, AllCreateOK, PageNumbers, ErrorsAreFlags
  <1>3. ASSUME NEW id \in 1 .. Len(docs) + 1, AllStep(id)
        PROVE  Agreeing'
    <2>1. id \in Nat \ {0}
      <3>1. SqlDocs = [i \in 1 .. Len(documents) |-> SqlDocument(i)] /\ Len(documents) \in Nat
        BY DEF Agreeing, SqlInv, SqlDocs
      <3>2. Len(docs) \in Nat
        BY <3>1 DEF Agreeing
      <3> QED  BY <3>2
    <2>2. CASE AllDelete(id)
      BY <2>1, <2>2, AllDeleteOK
    <2>3. CASE AllResetPages(id)
      BY <2>1, <2>3, AllResetPagesOK
    <2>4. CASE AllPurge(id)
      BY <2>1, <2>4, AllPurgeOK
    <2>5. CASE AllRestore(id)
      BY <2>1, <2>5, AllRestoreOK
    <2>6. CASE \E status \in Status : AllTransitionTo(id, status)
      BY <2>1, <2>6, AllTransitionOK
    <2>7. CASE \E total \in Totals, error \in Errors : AllUpdateMeta(id, total, error)
      BY <2>1, <2>7, AllUpdateMetaOK
    <2>8. CASE \E index \in Indexes, key \in Keys : AllAddPage(id, index, key)
      BY <2>1, <2>8, AllAddPageOK
    <2>9. CASE \E index \in Indexes : AllRemovePage(id, index)
      BY <2>1, <2>9, AllRemovePageOK
    <2> QED  BY <1>3, <2>2, <2>3, <2>4, <2>5, <2>6, <2>7, <2>8, <2>9 DEF AllStep
  <1>4. ASSUME NEW id \in Readable, Read(id)
        PROVE  Agreeing'
    BY <1>4, ReadOK
  <1> QED  BY <1>1, <1>2, <1>3, <1>4 DEF StoresNext

\* Given the same calls in the same order, on any documents, whether they exist or
\* not, the memory store and the SQLite store accept the same of them and show the
\* same documents, those of the table.
THEOREM StoresNeverDiffer == StoresSpec => []StoresAgree
  <1>1. Agreeing => StoresAgree
    BY DEF Agreeing, StoresAgree
  <1>2. Agreeing /\ [StoresNext]_storesVars => Agreeing'
    BY StoresStepOK
  <1> QED  BY <1>1, <1>2, StoresInitOK, PTL DEF StoresSpec
================================================================================
