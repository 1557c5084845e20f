----------------------------- MODULE MemoryStore -----------------------------
(* documents.MemoryStore: the table is the slice idMap, whose first document  *)
(* has id 0.  A document keeps its pages in a Go slice, blank where a page is *)
(* missing: the array behind it, and how much of it is in use.  Get returns a *)
(* copy of the document, but a copy of a slice still shows the same array.    *)
EXTENDS Documents, Sequences

CONSTANTS
    Blank,        \* the zero Page
    Capacity(_)   \* what append has made of the capacity of a nil slice grown to a
                  \* length one by one: Go says no more than that it suffices

ASSUME BlankIsNoKey == Blank \notin Keys

ASSUME CapacitySuffices ==
    \A n \in {0} \cup {index + 1 : index \in Indexes} : Capacity(n) \in Nat /\ Capacity(n) >= n

VARIABLES
    idMap,   \* the table, by id
    held     \* a copy that some caller of Get still reads: which document, the
             \* cells of its page slice, and whether the store's copy shares them

memVars == <<idMap, held>>

MExists(id) == id \in DOMAIN idMap
MLive(id)   == MExists(id) /\ Visible(idMap[id].status)

SlotNumbered(d, index) ==  \* mutant: only Page.Index is compared, and a blank has 0
    index < d.len /\ (index = 0 \/ d.array[index + 1] # Blank)

\* pageSlotExists; slot i is cell i + 1 of the array.
SlotExists(d, index) == index < d.len /\ d.array[index + 1] # Blank

Slots(d) == {index \in 0 .. (d.len - 1) : SlotExists(d, index)}

\* Another array is another capacity: append only moves a slice that is full, and
\* no array comes back once ResetPages or Purge has let go of it.
SameArray(d, e) == Len(d.array) = Len(e.array)

Put(id, d) ==
    /\ idMap' = [idMap EXCEPT ![id] = d]
    /\ held' = IF held.id # id \/ ~held.shared THEN held
               ELSE IF SameArray(idMap[id], d)
               THEN [held EXCEPT !.cells = SubSeq(d.array, 1, Len(@))]
               ELSE [held EXCEPT !.shared = FALSE]

MGet(id) ==
    /\ MLive(id)
    /\ held' = [id |-> id, cells |-> SubSeq(idMap[id].array, 1, idMap[id].len),
                shared |-> TRUE]
    /\ UNCHANGED idMap

MMayCreate(identity, pages) ==
    (\A id \in DOMAIN idMap : idMap[id].identity # identity) /\ Contiguous(pages)

\* Create appends the document, then adds its pages one by one.
MCreate(identity, pages, total, error) ==
    LET n == Cardinality(DOMAIN pages)
        size == Cardinality(DOMAIN idMap)
    IN  /\ MMayCreate(identity, pages)
        /\ idMap' = [id \in 0 .. size |->
             IF id < size THEN idMap[id]
             ELSE [identity |-> identity, status |-> "queued", done |-> n,
                   total |-> IF total < n THEN n ELSE total, error |-> error, len |-> n,
                   array |-> [c \in 1 .. Capacity(n) |->
                                IF c <= n THEN pages[c - 1] ELSE Blank]]]
        /\ UNCHANGED held

MMayDelete(id) == MLive(id) /\ CanTransition(idMap[id].status, "deleted")

MDelete(id) ==
    /\ MMayDelete(id)
    /\ Put(id, WithStatus(idMap[id], "deleted"))

\* validatePurgedDocumentState
MIsEmpty(d) == d.done = 0 /\ d.total = 0 /\ Slots(d) = {}

MMayTransition(id, status) ==
    /\ MExists(id)
    /\ CanTransition(idMap[id].status, status)
    /\ status = "purged" => MIsEmpty(idMap[id])

MTransitionTo(id, status) ==
    /\ MMayTransition(id, status)
    /\ Put(id, WithStatus(idMap[id], status))

MUpdateMeta(id, total, error) ==
    /\ MLive(id)
    /\ Put(id, [idMap[id] EXCEPT !.total = total, !.error = error])

MResetPagesInPlace(id) ==  \* mutant: Pages = Pages[:0] keeps the array
    MLive(id) /\ Put(id, [idMap[id] EXCEPT !.len = 0, !.done = 0])

MResetPages(id) ==
    /\ MLive(id)
    /\ Put(id, [idMap[id] EXCEPT !.array = << >>, !.len = 0, !.done = 0])

MMayPurge(id) == MExists(id) /\ CanTransition(idMap[id].status, "purged")

MPurge(id) ==
    /\ MMayPurge(id)
    /\ Put(id, [idMap[id] EXCEPT !.array = << >>, !.len = 0, !.done = 0,
                                 !.total = 0, !.status = "purged"])

MMayRestore(id) == MExists(id) /\ idMap[id].status \in {"deleted", "purged"}

MRestore(id) ==
    /\ MMayRestore(id)
    /\ Put(id, WithStatus(idMap[id], "queued"))

\* The slice, long enough for slot index: in place while the array has room.
Grown(d, index) ==
    LET fits == index < Len(d.array)
    IN  [c \in 1 .. (IF fits THEN Len(d.array) ELSE Capacity(index + 1)) |->
           IF c <= d.len \/ (fits /\ c > index + 1) THEN d.array[c] ELSE Blank]

MMayAddPage(id, index) == MLive(id) /\ ~SlotExists(idMap[id], index)

MAddPage(id, index, key) ==
    LET d == idMap[id]
    IN  /\ MMayAddPage(id, index)
        /\ Put(id, [d EXCEPT
             !.array = [Grown(d, index) EXCEPT ![index + 1] = key],
             !.len   = IF @ <= index THEN index + 1 ELSE @,
             !.done  = @ + 1,
             !.total = IF @ < d.done + 1 THEN d.done + 1 ELSE @])

MRemovePageKeepsTail(id, index) ==  \* mutant: the slice is cut at the removed page
    LET d == idMap[id]
    IN  /\ MLive(id) /\ SlotExists(d, index)
        /\ Put(id, [d EXCEPT !.len = index, !.array[index + 1] = Blank, !.done = @ - 1])

MMayRemovePage(id, index) == MLive(id) /\ SlotExists(idMap[id], index)

\* The slot is blanked, then blanks at the end of the slice are cut off.
MRemovePage(id, index) ==
    LET d == idMap[id]
        left == Slots(d) \ {index}
    IN  /\ MMayRemovePage(id, index)
        /\ Put(id, [d EXCEPT
             !.array[index + 1] = Blank,
             !.len  = CHOOSE n \in 0 .. @ : left \subseteq 0 .. (n - 1)
                                            /\ (n = 0 \/ n - 1 \in left),
             !.done = IF @ > 0 THEN @ - 1 ELSE @])

MemInit == idMap = [id \in {} |-> id] /\ held = [id |-> 0, cells |-> << >>, shared |-> FALSE]

MemStep(id) ==
    \/ MDelete(id)
    \/ \E status \in Status : MTransitionTo(id, status)
    \/ \E total \in Totals \cup {idMap[id].total}, error \in BOOLEAN :
            MUpdateMeta(id, total, error)
    \/ MResetPages(id)
    \/ \E index \in Indexes, key \in Keys : MAddPage(id, index, key)
    \/ \E index \in Indexes : MRemovePage(id, index)
    \/ MPurge(id)
    \/ MRestore(id)
    \/ MGet(id)

MemNext ==
    \/ \E identity \in Identities, pages \in PageMap, total \in Totals \cup {0}, error \in BOOLEAN :
            MCreate(identity, pages, total, error)
    \/ \E id \in DOMAIN idMap : MemStep(id)

MemSpec == MemInit /\ [][MemNext]_memVars
-----------------------------------------------------------------------------
\* The table as its callers see it, ids counted from 1.
MemDocument(d) ==
    [identity |-> d.identity, status |-> d.status, done |-> d.done,
     total |-> d.total, error |-> d.error,
     pages |-> [index \in Slots(d) |-> d.array[index + 1]]]

MemDocs == [id \in 1 .. Cardinality(DOMAIN idMap) |-> MemDocument(idMap[id - 1])]

Mem == INSTANCE DocumentStore WITH docs <- MemDocs

\* The slices, with their blanks, growth and cutting off, implement the table.
MemImplements == Mem!StoreSpec

\* A slice ends with a page and is blank beyond its end, so that growing it in
\* place shows nothing of a page removed earlier (append in addPageLocked does
\* not depend on it, it writes a blank Page; removePageLocked keeps it so).
MemTypeOK ==
    \A id \in DOMAIN idMap :
        LET d == idMap[id]
        IN  /\ d.len \in 0 .. Len(d.array)
            /\ d.len > 0 => SlotExists(d, d.len - 1)
            /\ \A c \in DOMAIN d.array : c > d.len => d.array[c] = Blank

\* A page that a caller of Get sees in its copy stays there while the store goes
\* on: a page added later never lands in its cell, and it disappears only with
\* RemovePage, even though the copy and the store share an array and no lock.
SnapshotsKeepPages ==
    [][idMap' # idMap =>
         \A c \in DOMAIN held.cells :
            held.cells[c] \notin {Blank, held'.cells[c]} =>
                /\ held'.cells[c] = Blank
                /\ idMap'[held.id].done = idMap[held.id].done - 1]_memVars
=============================================================================
