-------------------------------- MODULE Stores --------------------------------
(* The memory store and the SQLite store side by side, given the same calls,  *)
(* with the abstract table docs of DocumentStore beside them.  Ids begin at 0 *)
(* in the one and at 1 in the other.                                          *)
EXTENDS DocumentStore, MemoryStore, SQLiteStore

CONSTANTS
    Errors,     \* what callers set Error to: empty (FALSE) or not
    Readable    \* the documents whose copies are kept

ASSUME ErrorsAreFlags == Errors \subseteq BOOLEAN

VARIABLE agreed   \* history: each call so far was accepted by all or by none

storesVars == <<docs, memVars, sqlVars, agreed>>

\* One call to all three: each takes it or, if it refuses it, stays as it is.
Together(may, Do, mMay, MDo, sMay, SDo) ==
    /\ Do  \/ (~may  /\ UNCHANGED docs)
    /\ MDo \/ (~mMay /\ UNCHANGED memVars)
    /\ SDo \/ (~sMay /\ UNCHANGED sqlVars)
    /\ agreed' = (agreed /\ (may <=> mMay) /\ (may <=> sMay))

AllCreate(identity, pages, total, error) ==
    Together(MayCreate(identity, pages),  Create(identity, pages, total, error),
             MMayCreate(identity, pages), MCreate(identity, pages, total, error),
             SMayCreate(identity, pages), SCreate(identity, pages, total, error))

AllDelete(id) ==
    Together(MayDelete(id), Delete(id), MMayDelete(id - 1), MDelete(id - 1),
             SMayDelete(id), SDelete(id))

AllTransitionTo(id, status) ==
    Together(MayTransition(id, status),      TransitionTo(id, status),
             MMayTransition(id - 1, status), MTransitionTo(id - 1, status),
             SMayTransition(id, status),     STransitionTo(id, status))

AllUpdateMeta(id, total, error) ==
    Together(Live(id),      UpdateMeta(id, total, error),
             MLive(id - 1), MUpdateMeta(id - 1, total, error),
             SLive(id),     SUpdateMeta(id, total, error))

AllResetPages(id) ==
    Together(Live(id), ResetPages(id), MLive(id - 1), MResetPages(id - 1),
             SLive(id), SResetPages(id))

AllAddPage(id, index, key) ==
    Together(MayAddPage(id, index),      AddPage(id, index, key),
             MMayAddPage(id - 1, index), MAddPage(id - 1, index, key),
             SMayAddPage(id, index),     SAddPage(id, index, key))

AllRemovePage(id, index) ==
    Together(MayRemovePage(id, index),      RemovePage(id, index),
             MMayRemovePage(id - 1, index), MRemovePage(id - 1, index),
             SMayRemovePage(id, index),     SRemovePage(id, index))

AllPurge(id) ==
    Together(MayPurge(id), Purge(id), MMayPurge(id - 1), MPurge(id - 1),
             SMayPurge(id), SPurge(id))

AllRestore(id) ==
    Together(MayRestore(id), Restore(id), MMayRestore(id - 1), MRestore(id - 1),
             SMayRestore(id), SRestore(id))

StoresInit == StoreInit /\ MemInit /\ SqlInit /\ agreed = TRUE

\* Someone reads a document, as GetPage and the manifest do, and keeps the copy.
Read(id) == MGet(id) /\ UNCHANGED <<docs, sqlVars, agreed>>

AllStep(id) ==
    \/ AllDelete(id) \/ AllResetPages(id) \/ AllPurge(id) \/ AllRestore(id)
    \/ \E status \in Status : AllTransitionTo(id, status)
    \/ \E total \in Totals, error \in Errors : AllUpdateMeta(id, total, error)
    \/ \E index \in Indexes, key \in Keys : AllAddPage(id, index, key)
    \/ \E index \in Indexes : AllRemovePage(id, index)

\* Calls are for documents that exist, and for the next id, which does not.
StoresNext ==
    \/ \E identity \in Identities, pages \in PageMap, total \in Totals, error \in Errors :
            AllCreate(identity, pages, total, error)
    \/ \E id \in 1 .. Len(docs) + 1 : AllStep(id)
    \/ \E id \in Readable : Read(id)

StoresSpec == StoresInit /\ [][StoresNext]_storesVars
-----------------------------------------------------------------------------
\* The two stores cannot be told apart: after any sequence of calls they hold the
\* same documents, under ids one apart, and they accepted the same calls of it.
\* (They word some refusals differently: a page added to a hidden document is
\* "not found" in memory, and "already exists" in SQLite when its row is there.)
StoresAgree == agreed /\ MemDocs = SqlDocs /\ SqlDocs = docs
===============================================================================
