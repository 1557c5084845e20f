-------------------------- MODULE ArchiveSafetyProofs --------------------------
(* The safety properties of the archive service, for any number of clients,   *)
(* documents, storages and stops.  They are proved together: DocOK says what  *)
(* they claim of one document, HandOK what the worker may rely on, at each of *)
(* its steps, for the document it has in hand, although clients go on         *)
(* deleting, restoring and resetting that very document between two steps.    *)
EXTENDS ArchiveAppProofs

\* The statuses of a document the worker has listed, and of one it has begun: a
\* client may have deleted or restored either since, and nothing else.
Listed == {"queued", "deleted"}
Kept   == Listed \cup {"resolving", "downloading"}

Busy == {"resolve", "meta", "reset", "start", "download", "snapshot", "manifest",
         "archive", "fail", "markFailed"}

Gone(id) == ObjectsOf(id) = {} /\ id \notin DOMAIN manifests

\* What the invariants say of one document.
DocOK(id) ==
    /\ id \notin swept =>
          \A p \in DOMAIN docs[id].pages : <<id, docs[id].pages[p]>> \in objects
    /\ docs[id].status = "purged" => Gone(id)
    /\ stops = 0 /\ docs[id].status \in {"resolving", "downloading"} =>
          (w.cur = id /\ w.pc \in Busy)
    /\ id \notin torn /\ docs[id].status = "archived" =>
          /\ docs[id].identity \notin Albums => docs[id].done >= docs[id].total
          /\ id \in DOMAIN manifests /\ manifests[id] = docs[id].pages
    /\ docs[id].status = "failed" => docs[id].error
    /\ docs[id].status = "archived" => ~docs[id].error

Recorded == {p \in DOMAIN w.task : w.task[p] = "done"}

\* How far the document in hand has come, unless a client has interfered.
ProgressOK ==
    /\ w.pc \in {"reset", "start", "download"} => Cur.total = Cardinality(DOMAIN w.edition)
    /\ w.pc = "start" => DOMAIN Cur.pages = {}
    /\ w.pc = "download" => /\ DOMAIN Cur.pages \subseteq Recorded
                            /\ w.cur \notin torn => DOMAIN Cur.pages = Recorded
                            /\ Cur.identity \notin Albums => DOMAIN w.task = DOMAIN w.edition
    /\ w.pc \in {"snapshot", "manifest", "archive"} /\ w.cur \notin torn
       /\ Cur.identity \notin Albums => Cur.done >= Cur.total
    /\ w.pc = "manifest" /\ w.cur \notin torn => w.snap = Cur.pages
    /\ w.pc = "archive" /\ w.cur \notin torn =>
          w.cur \in DOMAIN manifests /\ manifests[w.cur] = Cur.pages

\* What the worker may rely on at each step, for the document it has in hand.
HandOK ==
    /\ w.pc \in {"deletePrefix", "purge", "begin"} => Cur.status \in Listed
    /\ w.pc \in Busy => Cur.status \in Kept
    /\ w.pc \in {"reset", "start", "download", "snapshot", "manifest", "archive"} => ~Cur.error
    /\ w.pc = "markFailed" => Cur.error
    /\ w.pc = "purge" => Gone(w.cur)
    /\ w.pc = "download" =>
          \A p \in DOMAIN w.task : w.task[p] = "record" => Object(p) \in objects
    /\ w.pc \in Busy /\ Cur.status \notin Listed => ProgressOK

\* The rest of its list, and the process.
ListOK == w.cur \notin w.batch /\ \A id \in w.batch : docs[id].status \in Listed
StopOK == stopping \/ w.pc = "down" => stops > 0

SafeInv == AppInv /\ (\A id \in DOMAIN docs : DocOK(id)) /\ HandOK /\ ListOK /\ StopOK
-----------------------------------------------------------------------------
(* What the operations do to the fields of a document.                       *)

LEMMA Row ==
    ASSUME AppInv, NEW id \in DOMAIN docs
    PROVE  /\ docs[id] \in Document
           /\ IsFiniteSet(DOMAIN docs[id].pages)
           /\ docs[id].done = Cardinality(DOMAIN docs[id].pages)
           /\ docs[id].total \in Nat
  <1>1. docs[id] \in Document /\ docs[id].done = Cardinality(DOMAIN docs[id].pages)
    BY DEF AppInv, TableOK, RowOK
  <1>2. docs[id].pages \in PageMap /\ docs[id].total \in Nat
    BY <1>1 DEF Document
  <1> QED  BY <1>1, <1>2, PageMapFinite

LEMMA StatusFields ==
    ASSUME NEW d \in Document, NEW status
    PROVE  /\ WithStatus(d, status).status = status
           /\ WithStatus(d, status).identity = d.identity
           /\ WithStatus(d, status).pages = d.pages
           /\ WithStatus(d, status).done = d.done
           /\ WithStatus(d, status).total = d.total
           /\ WithStatus(d, status).error = d.error
  BY DEF WithStatus, Document

LEMMA PagelessFields ==
    ASSUME NEW d \in Document
    PROVE  /\ WithoutPages(d).status = d.status
           /\ WithoutPages(d).identity = d.identity
           /\ WithoutPages(d).pages = NoPages
           /\ WithoutPages(d).done = 0
           /\ WithoutPages(d).total = d.total
           /\ WithoutPages(d).error = d.error
  BY DEF WithoutPages, Document

LEMMA EmptiedFields ==
    ASSUME NEW d \in Document
    PROVE  Emptied(d).status = "purged" /\ Emptied(d).pages = NoPages
  BY DEF Emptied, Document

\* What UpdateMeta writes.
WithMeta(d, total, error) == [d EXCEPT !.total = total, !.error = error]

LEMMA PageFields ==
    ASSUME NEW d \in Document, NEW index, NEW key, NEW e, e = WithPage(d, index, key)
    PROVE  /\ e.status = d.status /\ e.identity = d.identity /\ e.error = d.error
           /\ DOMAIN e.pages = DOMAIN d.pages \cup {index}
           /\ \A p \in DOMAIN d.pages \ {index} : e.pages[p] = d.pages[p]
           /\ e.pages[index] = key
           /\ e.done = d.done + 1
           /\ e.total = IF d.total < d.done + 1 THEN d.done + 1 ELSE d.total
  <1> DEFINE pages == [p \in DOMAIN d.pages \cup {index} |-> IF p = index THEN key ELSE d.pages[p]]
  <1>1. e = [d EXCEPT !.pages = pages, !.done = @ + 1,
                      !.total = IF @ < d.done + 1 THEN d.done + 1 ELSE @]
    BY DEF WithPage
  <1>2. /\ DOMAIN pages = DOMAIN d.pages \cup {index}
        /\ \A p \in DOMAIN d.pages \ {index} : pages[p] = d.pages[p]
        /\ pages[index] = key
    OBVIOUS
  <1> HIDE DEF pages
  <1>3. /\ e.status = d.status /\ e.identity = d.identity /\ e.error = d.error
        /\ e.pages = pages /\ e.done = d.done + 1
        /\ e.total = IF d.total < d.done + 1 THEN d.done + 1 ELSE d.total
    BY <1>1 DEF Document
  <1> QED  BY <1>2, <1>3

LEMMA Written ==
    ASSUME NEW id \in DOMAIN docs, NEW d, Write(id, d)
    PROVE  /\ DOMAIN docs' = DOMAIN docs /\ docs'[id] = d
           /\ \A other \in DOMAIN docs \ {id} : docs'[other] = docs[other]
  BY DEF Write

-----------------------------------------------------------------------------
(* The worker and the document in hand.                                      *)

OthersSame ==
    /\ DOMAIN docs' = DOMAIN docs
    /\ \A id \in DOMAIN docs \ {w.cur} :
          /\ docs'[id] = docs[id]
          /\ ObjectsOf(id)' = ObjectsOf(id)
          /\ id \in DOMAIN manifests' <=> id \in DOMAIN manifests
          /\ id \in DOMAIN manifests => manifests'[id] = manifests[id]
          /\ id \in swept' <=> id \in swept
          /\ id \in torn' <=> id \in torn

\* A document that the worker does not have in hand: while the process has not been
\* told to stop, it is not under way.
LEMMA OtherOK ==
    ASSUME SafeInv, OthersSame, stops' = stops, NEW id \in DOMAIN docs \ {w.cur}
    PROVE  DocOK(id)'
  <1>1. DocOK(id)
    BY DEF SafeInv
  <1>2. /\ docs'[id] = docs[id]
        /\ id \in DOMAIN manifests' <=> id \in DOMAIN manifests
        /\ id \in DOMAIN manifests => manifests'[id] = manifests[id]
        /\ id \in swept' <=> id \in swept
        /\ id \in torn' <=> id \in torn
    BY DEF OthersSame
  <1>3. \A key : <<id, key>> \in objects' <=> <<id, key>> \in objects
    BY DEF OthersSame, ObjectsOf
  <1>4. Gone(id) => Gone(id)'
    BY <1>2 DEF OthersSame, Gone
  <1> QED  BY <1>1, <1>2, <1>3, <1>4 DEF DocOK

\* A step for the document in hand: what is to be shown of it.
LEMMA HandStep ==
    ASSUME SafeInv, AppInv', OthersSame, WorkerStep, NEW c \in DOMAIN docs, c = w.cur,
           w'.cur \in {c, 0}, w'.batch = w.batch, w'.pc # "down",
           DocOK(c)', HandOK'
    PROVE  SafeInv'
  <1>0. stops' = stops /\ stopping' = stopping
    BY DEF WorkerStep, env
  <1>1. \A id \in DOMAIN docs' : DocOK(id)'
    BY <1>0, OtherOK DEF OthersSame
  <1>2. 0 \notin DOMAIN docs /\ w.batch \subseteq DOMAIN docs
    BY DEF SafeInv, AppInv, TableOK, WorkerOK, WorkerRecord
  <1>3. ListOK'
    BY <1>2 DEF SafeInv, ListOK, OthersSame
  <1>4. StopOK'
    BY <1>0 DEF SafeInv, StopOK
  <1> QED  BY <1>1, <1>3, <1>4 DEF SafeInv

LEMMA Moved ==
    ASSUME SafeInv, NEW pc, Go(pc)
    PROVE  /\ w'.pc = pc /\ w'.cur = w.cur /\ w'.batch = w.batch
           /\ w'.edition = w.edition /\ w'.task = w.task /\ w'.snap = w.snap
  BY DEF SafeInv, AppInv, WorkerOK, WorkerRecord, Go

LEMMA InHand ==
    ASSUME SafeInv, w.pc \in Holding
    PROVE  /\ w.cur \in DOMAIN docs /\ DocOK(w.cur)
           /\ docs[w.cur] \in Document
           /\ w.pc \in Busy => Cur.status \in Kept
  <1>1. w.cur \in DOMAIN docs
    BY DEF SafeInv, AppInv, WorkerOK
  <1> QED  BY <1>1, Row DEF SafeInv, HandOK

LEMMA BusyHolds == Busy \subseteq Holding /\ Listed \subseteq Kept
  BY DEF Busy, Holding, Listed, Kept

\* A failure: all that is known afterwards is that the document may still be marked.
LEMMA ToFail ==
    ASSUME SafeInv, AppInv', WorkerStep, w.pc \in Busy \cup {"begin"}, Go("fail"),
           UNCHANGED <<docs, storage, history>>
    PROVE  SafeInv'
  <1>1. w.pc \in Holding
    BY BusyHolds DEF Holding
  <1>2. PICK c \in DOMAIN docs : c = w.cur /\ DocOK(c)
    BY <1>1, InHand
  <1>3. docs[c].status \in Kept
    BY <1>2, BusyHolds DEF SafeInv, HandOK, Cur
  <1>4. w'.pc = "fail" /\ w'.cur = c /\ w'.batch = w.batch
    BY <1>2, Moved
  <1>5. UNCHANGED <<docs, objects, manifests, swept, torn, stops>>
    BY DEF storage, history, WorkerStep, env
  <1>6. DocOK(c)'
    BY <1>2, <1>4, <1>5 DEF DocOK, Gone, ObjectsOf, Busy
  <1>7. HandOK'
    BY <1>3, <1>4, <1>5 DEF HandOK, ProgressOK, Cur
  <1>8. OthersSame
    BY <1>5 DEF OthersSame, ObjectsOf
  <1> QED  BY <1>2, <1>4, <1>6, <1>7, <1>8, HandStep

\* The worker gives the document in hand another status.
LEMMA Advanced ==
    ASSUME SafeInv, NEW status, TransitionTo(w.cur, status), w.pc \in Holding,
           UNCHANGED <<storage, history>>, WorkerStep
    PROVE  /\ OthersSame
           /\ docs'[w.cur].status = status
           /\ docs'[w.cur].identity = docs[w.cur].identity
           /\ docs'[w.cur].pages = docs[w.cur].pages
           /\ docs'[w.cur].done = docs[w.cur].done
           /\ docs'[w.cur].total = docs[w.cur].total
           /\ docs'[w.cur].error = docs[w.cur].error
           /\ CanTransition(docs[w.cur].status, status)
           /\ UNCHANGED <<objects, manifests, swept, torn, stops>>
  <1>1. w.cur \in DOMAIN docs /\ docs[w.cur] \in Document
    BY InHand
  <1>2. Write(w.cur, WithStatus(docs[w.cur], status)) /\ CanTransition(docs[w.cur].status, status)
    BY DEF TransitionTo, MayTransition
  <1>3. UNCHANGED <<objects, manifests, swept, torn, stops>>
    BY DEF storage, history, WorkerStep, env
  <1>4. OthersSame
    BY <1>1, <1>2, <1>3, Written DEF OthersSame, ObjectsOf
  <1>5. docs'[w.cur] = WithStatus(docs[w.cur], status)
    BY <1>1, <1>2, Written
  <1> QED  BY <1>1, <1>2, <1>3, <1>4, <1>5, StatusFields

LEMMA BeginSafe ==
    ASSUME SafeInv, AppInv', BeginDocument
    PROVE  SafeInv'
  <1>1. w.pc = "begin" /\ UNCHANGED <<storage, history>> /\ WorkerStep
    BY DEF BeginDocument, At
  <1>2. CASE Go("fail") /\ UNCHANGED docs
    BY <1>1, <1>2, ToFail
  <1>3. CASE Advance("resolving", "resolve")
    <2>0. w.pc \in Holding
      BY <1>1 DEF Holding
    <2>1. PICK c \in DOMAIN docs : c = w.cur /\ DocOK(c)
      BY <2>0, InHand
    <2>2. w'.pc = "resolve" /\ w'.cur = c /\ w'.batch = w.batch
      BY <1>3, <2>1, Moved DEF Advance
    <2>3. /\ OthersSame
          /\ docs'[c].status = "resolving" /\ docs'[c].pages = docs[c].pages
          /\ UNCHANGED <<objects, manifests, swept, torn, stops>>
      BY <1>1, <1>3, <2>0, <2>1, Advanced DEF Advance
    <2>4. DocOK(c)'
      BY <2>1, <2>2, <2>3 DEF DocOK, Busy
    <2>5. HandOK'
      BY <2>2, <2>3 DEF HandOK, ProgressOK, Cur, Kept, Busy
    <2> QED  BY <1>1, <2>1, <2>2, <2>3, <2>4, <2>5, HandStep
  <1> QED  BY <1>2, <1>3 DEF BeginDocument, Refused

LEMMA ResolveSafe ==
    ASSUME SafeInv, AppInv', ResolveDocument
    PROVE  SafeInv'
  <1>1. w.pc = "resolve" /\ w.pc \in Holding /\ WorkerStep
    BY DEF ResolveDocument, At, Holding
  <1>2. PICK c \in DOMAIN docs : c = w.cur /\ DocOK(c) /\ docs[c].status \in Kept
    BY <1>1, InHand DEF Cur, Busy
  <1>3. w'.pc = "meta" /\ w'.cur = c /\ w'.batch = w.batch
    BY <1>2 DEF ResolveDocument, SafeInv, AppInv, WorkerOK, WorkerRecord
  <1>4. UNCHANGED <<docs, objects, manifests, swept, torn, stops>>
    BY <1>1 DEF ResolveDocument, storage, history, WorkerStep, env
  <1>5. DocOK(c)'
    BY <1>2, <1>3, <1>4 DEF DocOK, Gone, ObjectsOf, Busy
  <1>6. HandOK'
    BY <1>2, <1>3, <1>4 DEF HandOK, ProgressOK, Cur
  <1>7. OthersSame
    BY <1>4 DEF OthersSame, ObjectsOf
  <1> QED  BY <1>1, <1>2, <1>3, <1>5, <1>6, <1>7, HandStep

\* The metadata is saved, and progress compared.
LEMMA SaveSafe ==
    ASSUME SafeInv, AppInv', SaveMetadata
    PROVE  SafeInv'
  <1>1. w.pc = "meta" /\ w.pc \in Holding /\ WorkerStep /\ UNCHANGED <<storage, swept>>
    BY DEF SaveMetadata, At, Holding
  <1>2. CASE Go("fail") /\ UNCHANGED <<docs, torn>>
    BY <1>1, <1>2, ToFail DEF Busy, history
  <1> DEFINE total == Cardinality(DOMAIN w.edition)
             next  == IF Cur.done < total THEN "reset" ELSE "snapshot"
  <1>3. CASE UpdateMeta(w.cur, total, FALSE) /\ Go(next) /\ torn' = torn \ {w.cur}
    <2>1. PICK c \in DOMAIN docs : c = w.cur /\ DocOK(c) /\ docs[c].status \in Kept
                                  /\ docs[c] \in Document
      BY <1>1, InHand DEF Cur, Busy
    <2>2. w'.pc = next /\ w'.cur = c /\ w'.batch = w.batch /\ w'.edition = w.edition
      BY <1>3, <2>1, Moved
    <2>3. /\ Write(c, WithMeta(docs[c], total, FALSE))
          /\ UNCHANGED <<objects, manifests, swept, stops>> /\ torn' = torn \ {c}
      BY <1>1, <1>3, <2>1 DEF UpdateMeta, WithMeta, storage, WorkerStep, env
    <2> HIDE DEF total, next
    <2>4. /\ docs'[c].status = docs[c].status /\ docs'[c].identity = docs[c].identity
          /\ docs'[c].pages = docs[c].pages
          /\ docs'[c].done = docs[c].done /\ docs'[c].total = total /\ docs'[c].error = FALSE
      <3>1. docs'[c] = WithMeta(docs[c], total, FALSE)
        BY <2>1, <2>3, Written
      <3> QED  BY <2>1, <3>1 DEF WithMeta, Document
    <2>5. OthersSame
      BY <2>1, <2>3, Written DEF OthersSame, ObjectsOf
    <2>6. next \in {"reset", "snapshot"}
      BY DEF next
    <2>7. DocOK(c)'
      BY <2>1, <2>2, <2>3, <2>4, <2>6 DEF DocOK, Gone, ObjectsOf, Busy, Kept, Listed
    <2>8. next = "reset" \/ docs[c].done >= total
      <3>1. docs[c].done \in Nat /\ total \in Nat
        <4>1. w.edition \in Editions
          BY <1>1 DEF SafeInv, AppInv, WorkerOK
        <4> QED  BY <2>1, <4>1, AppAssumption, PageNumbers DEF Document, total
      <3> QED  BY <2>1, <3>1 DEF next, Cur
    <2>9. HandOK'
      <3>1. Cur' = docs'[c] /\ w'.pc \in {"reset", "snapshot"}
        BY <2>2, <2>6 DEF Cur
      <3>2. w'.pc = "reset" => Cur'.total = Cardinality(DOMAIN w'.edition)
        BY <2>2, <2>4, <3>1 DEF total
      <3>3. w'.pc = "snapshot" => Cur'.done >= Cur'.total
        BY <2>2, <2>4, <2>8, <3>1
      <3>4. ProgressOK'
        BY <3>1, <3>2, <3>3 DEF ProgressOK
      <3> QED  BY <2>1, <2>4, <3>1, <3>4 DEF HandOK
    <2> QED  BY <1>1, <2>1, <2>2, <2>5, <2>6, <2>7, <2>9, HandStep
  <1> QED  BY <1>2, <1>3 DEF SaveMetadata

LEMMA ResetSafe ==
    ASSUME SafeInv, AppInv', ResetDocument
    PROVE  SafeInv'
  <1>1. w.pc = "reset" /\ w.pc \in Holding /\ WorkerStep /\ UNCHANGED <<storage, history>>
    BY DEF ResetDocument, At, Holding
  <1>2. CASE Go("fail") /\ UNCHANGED docs
    BY <1>1, <1>2, ToFail DEF Busy
  <1>3. CASE ResetPages(w.cur) /\ Go("start")
    <2>1. PICK c \in DOMAIN docs : c = w.cur /\ DocOK(c) /\ docs[c].status \in Kept
                                  /\ docs[c] \in Document
      BY <1>1, InHand DEF Cur, Busy
    <2>2. w'.pc = "start" /\ w'.cur = c /\ w'.batch = w.batch /\ w'.edition = w.edition
      BY <1>3, <2>1, Moved
    <2>3. /\ Write(c, WithoutPages(docs[c]))
          /\ UNCHANGED <<objects, manifests, swept, torn, stops>>
      BY <1>1, <1>3, <2>1 DEF ResetPages, storage, history, WorkerStep, env
    <2>4. /\ docs'[c].status = docs[c].status /\ DOMAIN docs'[c].pages = {}
          /\ docs'[c].total = docs[c].total /\ docs'[c].error = docs[c].error
      BY <2>1, <2>3, Written, PagelessFields, NoPagesOK
    <2>5. OthersSame
      BY <2>1, <2>3, Written DEF OthersSame, ObjectsOf
    <2>6. DocOK(c)'
      BY <2>1, <2>2, <2>3, <2>4 DEF DocOK, Gone, ObjectsOf, Busy, Kept, Listed
    <2>7. HandOK'
      <3>1. /\ ~docs[c].error
            /\ docs[c].status \notin Listed => docs[c].total = Cardinality(DOMAIN w.edition)
        BY <1>1, <2>1 DEF SafeInv, HandOK, ProgressOK, Cur, Busy
      <3> QED  BY <2>1, <2>2, <2>3, <2>4, <3>1 DEF HandOK, ProgressOK, Cur
    <2> QED  BY <1>1, <2>1, <2>2, <2>5, <2>6, <2>7, HandStep
  <1> QED  BY <1>2, <1>3 DEF ResetDocument

LEMMA StartSafe ==
    ASSUME SafeInv, AppInv', StartDownload
    PROVE  SafeInv'
  <1>1. w.pc = "start" /\ w.pc \in Holding /\ WorkerStep /\ UNCHANGED <<storage, history>>
    BY DEF StartDownload, At, Holding
  <1>2. CASE Go("fail") /\ UNCHANGED docs
    BY <1>1, <1>2, ToFail DEF Busy
  <1>3. CASE /\ TransitionTo(w.cur, "downloading")
             /\ w' = [w EXCEPT !.pc = "download", !.task = [p \in ContentPages |-> "head"]]
    <2>1. PICK c \in DOMAIN docs : c = w.cur /\ DocOK(c) /\ docs[c].status \in Kept
      BY <1>1, InHand DEF Cur, Busy
    <2>2. /\ w'.pc = "download" /\ w'.cur = c /\ w'.batch = w.batch
          /\ w'.edition = w.edition /\ w'.task = [p \in ContentPages |-> "head"]
      BY <1>3, <2>1 DEF SafeInv, AppInv, WorkerOK, WorkerRecord
    <2>3. /\ DOMAIN w'.task = ContentPages
          /\ \A p \in DOMAIN w'.task : w'.task[p] = "head"
      BY <2>2
    <2>4. /\ OthersSame
          /\ docs'[c].status = "downloading" /\ docs'[c].pages = docs[c].pages
          /\ docs'[c].identity = docs[c].identity
          /\ docs'[c].total = docs[c].total /\ docs'[c].error = docs[c].error
          /\ CanTransition(docs[c].status, "downloading")
          /\ UNCHANGED <<objects, manifests, swept, torn, stops>>
      BY <1>1, <1>3, <2>1, Advanced
    <2>5. /\ docs[c].status \notin Listed /\ ~docs[c].error
          /\ DOMAIN docs[c].pages = {}
          /\ docs[c].total = Cardinality(DOMAIN w.edition)
      <3>1. docs[c].status \notin Listed
        BY <2>4 DEF CanTransition, Edges, Listed
      <3> QED  BY <1>1, <2>1, <3>1 DEF SafeInv, HandOK, ProgressOK, Cur, Busy
    <2>6. DocOK(c)'
      BY <2>1, <2>2, <2>4 DEF DocOK, Busy
    <2>7. ProgressOK'
      <3>1. Recorded' = {}
        BY <2>3 DEF Recorded
      <3>2. docs[c].identity \notin Albums => ContentPages = DOMAIN w.edition
        BY <2>1 DEF ContentPages, Cur
      <3> QED  BY <2>2, <2>3, <2>4, <2>5, <3>1, <3>2 DEF ProgressOK, Cur
    <2>8. HandOK'
      BY <2>2, <2>3, <2>4, <2>5, <2>7 DEF HandOK, Cur, Kept
    <2> QED  BY <1>1, <2>1, <2>2, <2>4, <2>6, <2>8, HandStep
  <1> QED  BY <1>2, <1>3 DEF StartDownload, Refused

LEMMA TaskMoved ==
    ASSUME SafeInv, NEW p \in DOMAIN w.task, NEW s, Task(p, s)
    PROVE  /\ w'.pc = w.pc /\ w'.cur = w.cur /\ w'.batch = w.batch
           /\ w'.edition = w.edition /\ DOMAIN w'.task = DOMAIN w.task
           /\ w'.task[p] = s
           /\ \A q \in DOMAIN w.task \ {p} : w'.task[q] = w.task[q]
  <1>1. w \in WorkerRecord
    BY DEF SafeInv, AppInv, WorkerOK
  <1>2. w' = [w EXCEPT !.task = [w.task EXCEPT ![p] = s]]
    BY DEF Task
  <1> DEFINE task == [w.task EXCEPT ![p] = s]
  <1>3. /\ DOMAIN task = DOMAIN w.task /\ task[p] = s
        /\ \A q \in DOMAIN w.task \ {p} : task[q] = w.task[q]
    OBVIOUS
  <1> HIDE DEF task
  <1>4. /\ w'.pc = w.pc /\ w'.cur = w.cur /\ w'.batch = w.batch
        /\ w'.edition = w.edition /\ w'.task = task
    BY <1>1, <1>2 DEF WorkerRecord, task
  <1> QED  BY <1>3, <1>4

\* A page's goroutine does something that is not recorded yet.
LEMMA PageUnrecorded ==
    ASSUME SafeInv, AppInv', NEW p \in DOMAIN w.task, w.pc = "download",
           w.task[p] # "done", NEW s \in {"put", "record", "failed"}, Task(p, s),
           UNCHANGED <<docs, manifests, history>>, WorkerStep,
           objects \subseteq objects', objects' \subseteq objects \cup {Object(p)},
           s = "record" => Object(p) \in objects'
    PROVE  SafeInv'
  <1>1. PICK c \in DOMAIN docs : c = w.cur /\ DocOK(c) /\ docs[c].status \in Kept
    BY InHand DEF Cur, Busy, Holding
  <1>2. /\ w'.pc = "download" /\ w'.cur = c /\ w'.batch = w.batch
        /\ w'.edition = w.edition /\ DOMAIN w'.task = DOMAIN w.task
        /\ w'.task[p] = s
        /\ \A q \in DOMAIN w.task \ {p} : w'.task[q] = w.task[q]
    BY <1>1, TaskMoved
  <1>3. UNCHANGED <<docs, manifests, swept, torn, stops>>
    BY DEF history, WorkerStep, env
  <1>4. OthersSame
    BY <1>1, <1>3 DEF OthersSame, ObjectsOf, Object
  <1>5. DocOK(c)'
    BY <1>1, <1>2, <1>3 DEF DocOK, Busy, Kept, Listed
  <1>6. Recorded' = Recorded
    BY <1>2 DEF Recorded
  <1>7. \A q \in DOMAIN w.task : Object(q)' = Object(q)
    BY <1>1, <1>2 DEF Object
  <1>8. HandOK'
    <2>1. /\ ~docs[c].error
          /\ \A q \in DOMAIN w.task : w.task[q] = "record" => Object(q) \in objects
          /\ docs[c].status \notin Listed => ProgressOK
      BY <1>1 DEF SafeInv, HandOK, Cur, Busy
    <2>2. \A q \in DOMAIN w'.task : w'.task[q] = "record" => Object(q)' \in objects'
      BY <1>2, <1>7, <2>1
    <2>3. ProgressOK => ProgressOK'
      BY <1>1, <1>2, <1>3, <1>6 DEF ProgressOK, Cur
    <2> QED  BY <1>1, <1>2, <1>3, <2>1, <2>2, <2>3 DEF HandOK, Cur
  <1> QED  BY <1>1, <1>2, <1>4, <1>5, <1>8, HandStep

\* A page is recorded.
LEMMA PageRecorded ==
    ASSUME SafeInv, AppInv', NEW p \in DOMAIN w.task, w.pc = "download",
           w.task[p] = "record", Task(p, "done"), AddPage(w.cur, p, w.edition[p]),
           UNCHANGED <<storage, history>>, WorkerStep
    PROVE  SafeInv'
  <1>1. PICK c \in DOMAIN docs : c = w.cur /\ DocOK(c) /\ docs[c].status \in Kept
                                /\ docs[c] \in Document
    BY InHand DEF Cur, Busy, Holding
  <1>2. /\ w'.pc = "download" /\ w'.cur = c /\ w'.batch = w.batch
        /\ w'.edition = w.edition /\ DOMAIN w'.task = DOMAIN w.task
        /\ w'.task[p] = "done"
        /\ \A q \in DOMAIN w.task \ {p} : w'.task[q] = w.task[q]
    BY <1>1, TaskMoved
  <1>3. UNCHANGED <<objects, manifests, swept, torn, stops>>
    BY DEF storage, history, WorkerStep, env
  <1>4. PICK e : e = WithPage(docs[c], p, w.edition[p]) /\ Write(c, e)
                 /\ p \notin DOMAIN docs[c].pages
    BY <1>1 DEF AddPage, MayAddPage
  <1>5. docs'[c] = e /\ OthersSame
    BY <1>1, <1>3, <1>4, Written DEF OthersSame, ObjectsOf
  <1>6. /\ e.status = docs[c].status /\ e.identity = docs[c].identity
        /\ e.error = docs[c].error
        /\ DOMAIN e.pages = DOMAIN docs[c].pages \cup {p}
        /\ \A q \in DOMAIN docs[c].pages \ {p} : e.pages[q] = docs[c].pages[q]
        /\ e.pages[p] = w.edition[p]
        /\ e.total = IF docs[c].total < docs[c].done + 1 THEN docs[c].done + 1 ELSE docs[c].total
    BY <1>1, <1>4, PageFields
  <1>7. /\ ~docs[c].error
        /\ \A q \in DOMAIN w.task : w.task[q] = "record" => Object(q) \in objects
        /\ docs[c].status \notin Listed => ProgressOK
    BY <1>1 DEF SafeInv, HandOK, Cur, Busy
  <1>8. <<c, e.pages[p]>> \in objects
    BY <1>1, <1>6, <1>7 DEF Object
  <1>9. DocOK(c)'
    <2>1. c \notin swept' => \A q \in DOMAIN docs'[c].pages : <<c, docs'[c].pages[q]>> \in objects'
      BY <1>1, <1>3, <1>5, <1>6, <1>8 DEF DocOK
    <2> QED  BY <1>1, <1>2, <1>5, <1>6, <2>1 DEF DocOK, Busy, Kept, Listed
  <1>10. Recorded' = Recorded \cup {p}
    BY <1>2 DEF Recorded
  <1>11. ProgressOK => ProgressOK'
    <2> SUFFICES ASSUME ProgressOK PROVE ProgressOK'
      OBVIOUS
    <2>1. /\ DOMAIN docs[c].pages \subseteq Recorded
          /\ c \notin torn => DOMAIN docs[c].pages = Recorded
          /\ docs[c].identity \notin Albums => DOMAIN w.task = DOMAIN w.edition
          /\ docs[c].total = Cardinality(DOMAIN w.edition)
      BY <1>1 DEF ProgressOK, Cur
    <2>2. docs[c].done + 1 <= Cardinality(DOMAIN w.edition)
      <3>1. IsFiniteSet(DOMAIN w.edition) /\ DOMAIN w.task \subseteq DOMAIN w.edition
        BY EditionOK, PageMapFinite DEF SafeInv, AppInv, WorkerOK, WorkerRecord
      <3>2. DOMAIN docs[c].pages \cup {p} \subseteq DOMAIN w.edition
        BY <2>1, <3>1 DEF Recorded
      <3>3. Cardinality(DOMAIN docs[c].pages \cup {p}) <= Cardinality(DOMAIN w.edition)
        BY <3>1, <3>2, FS_Subset
      <3>4. /\ IsFiniteSet(DOMAIN docs[c].pages)
            /\ docs[c].done = Cardinality(DOMAIN docs[c].pages)
        BY <1>1, Row DEF SafeInv
      <3>5. Cardinality(DOMAIN docs[c].pages \cup {p}) = docs[c].done + 1
        BY <1>4, <3>4, FS_AddElement
      <3> QED  BY <3>3, <3>5
    <2>3. e.total = docs[c].total
      <3>1. docs[c].total \in Nat /\ docs[c].done \in Nat
        BY <1>1 DEF Document
      <3> QED  BY <1>6, <2>1, <2>2, <3>1
    <2> QED  BY <1>1, <1>2, <1>3, <1>5, <1>6, <1>10, <2>1, <2>3 DEF ProgressOK, Cur
  <1>12. HandOK'
    <2>1. \A q \in DOMAIN w'.task : w'.task[q] = "record" => Object(q)' \in objects'
      BY <1>1, <1>2, <1>3, <1>7 DEF Object
    <2> QED  BY <1>1, <1>2, <1>5, <1>6, <1>7, <1>11, <2>1 DEF HandOK, Cur
  <1> QED  BY <1>1, <1>2, <1>5, <1>9, <1>12, HandStep

LEMMA DownloadSafe ==
    ASSUME SafeInv, AppInv', Download
    PROVE  SafeInv'
  <1>1. ASSUME NEW p \in DOMAIN w.task, PageHead(p) \/ PagePut(p) \/ PageFails(p) \/ PageAborted(p)
        PROVE  SafeInv'
    <2>1. w.pc = "download" /\ w.task[p] # "done" /\ WorkerStep
      BY <1>1 DEF PageHead, PagePut, PageFails, PageAborted, TaskAt, At
    <2>2. UNCHANGED <<docs, manifests, history>>
      BY <1>1 DEF PageHead, PagePut, PageFails, PageAborted, storage
    <2>3. objects \subseteq objects' /\ objects' \subseteq objects \cup {Object(p)}
      BY <1>1 DEF PageHead, PagePut, PageFails, PageAborted, storage
    <2>4. \E s \in {"put", "record", "failed"} : Task(p, s) /\ (s = "record" => Object(p) \in objects')
      BY <1>1 DEF PageHead, PagePut, PageFails, PageAborted, storage
    <2> QED  BY <2>1, <2>2, <2>3, <2>4, PageUnrecorded
  <1>2. ASSUME NEW p \in DOMAIN w.task, PageRecord(p) PROVE SafeInv'
    <2>1. /\ w.pc = "download" /\ w.task[p] = "record" /\ WorkerStep
          /\ UNCHANGED <<storage, history>>
      BY <1>2 DEF PageRecord, TaskAt, At
    <2>2. CASE AddPage(w.cur, p, w.edition[p]) /\ Task(p, "done")
      BY <2>1, <2>2, PageRecorded
    <2>3. CASE Task(p, "failed") /\ UNCHANGED docs
      <3>1. UNCHANGED <<docs, objects, manifests, history>>
        BY <2>1, <2>3 DEF storage
      <3> QED  BY <2>1, <2>3, <3>1, PageUnrecorded
    <2> QED  BY <1>2, <2>2, <2>3 DEF PageRecord
  <1>3. CASE ContentFails
    BY <1>3, ToFail DEF ContentFails, At, Busy
  <1>4. CASE DownloadReturns
    <2>1. /\ w.pc = "download" /\ w.pc \in Holding /\ WorkerStep
          /\ UNCHANGED <<docs, storage, history>>
      BY <1>4 DEF DownloadReturns, At, Holding
    <2>2. CASE Go("fail")
      BY <2>1, <2>2, ToFail DEF Busy
    <2>3. CASE Go("snapshot") /\ ~\E p \in DOMAIN w.task : w.task[p] = "failed"
      <3>1. PICK c \in DOMAIN docs : c = w.cur /\ DocOK(c) /\ docs[c].status \in Kept
        BY <2>1, InHand DEF Cur, Busy
      <3>2. w'.pc = "snapshot" /\ w'.cur = c /\ w'.batch = w.batch
        BY <2>3, <3>1, Moved
      <3>3. UNCHANGED <<docs, objects, manifests, swept, torn, stops>>
        BY <2>1 DEF storage, history, WorkerStep, env
      <3>4. OthersSame
        BY <3>3 DEF OthersSame, ObjectsOf
      <3>5. DocOK(c)'
        BY <3>1, <3>2, <3>3 DEF DocOK, Gone, ObjectsOf, Busy
      <3>6. Recorded = DOMAIN w.task
        BY <1>4, <2>3 DEF DownloadReturns, Recorded
      <3>7. /\ ~docs[c].error
            /\ docs[c].status \notin Listed => ProgressOK
        BY <2>1, <3>1 DEF SafeInv, HandOK, Cur, Busy
      <3>8. ASSUME ProgressOK, c \notin torn, docs[c].identity \notin Albums
            PROVE  docs[c].done >= docs[c].total
        <4>1. DOMAIN docs[c].pages = DOMAIN w.edition /\ docs[c].total = Cardinality(DOMAIN w.edition)
          BY <2>1, <3>1, <3>6, <3>8 DEF ProgressOK, Cur
        <4>2. docs[c].done = docs[c].total /\ docs[c].total \in Nat
          BY <4>1, Row DEF SafeInv
        <4> QED  BY <4>2
      <3>9. HandOK'
        BY <3>1, <3>2, <3>3, <3>7, <3>8 DEF HandOK, ProgressOK, Cur
      <3> QED  BY <2>1, <3>1, <3>2, <3>4, <3>5, <3>9, HandStep
    <2> QED  BY <1>4, <2>2, <2>3 DEF DownloadReturns
  <1> QED  BY <1>1, <1>2, <1>3, <1>4 DEF Download

LEMMA SnapshotSafe ==
    ASSUME SafeInv, AppInv', TakeSnapshot
    PROVE  SafeInv'
  <1>1. /\ w.pc = "snapshot" /\ w.pc \in Holding /\ WorkerStep
        /\ UNCHANGED <<docs, storage, history>>
    BY DEF TakeSnapshot, At, Holding
  <1>2. CASE Go("fail")
    BY <1>1, <1>2, ToFail DEF Busy
  <1>3. CASE w' = [w EXCEPT !.pc = "manifest", !.snap = Cur.pages]
    <2>1. PICK c \in DOMAIN docs : c = w.cur /\ DocOK(c) /\ docs[c].status \in Kept
      BY <1>1, InHand DEF Cur, Busy
    <2>2. w'.pc = "manifest" /\ w'.cur = c /\ w'.batch = w.batch /\ w'.snap = docs[c].pages
      BY <1>3, <2>1 DEF SafeInv, AppInv, WorkerOK, WorkerRecord, Cur
    <2>3. UNCHANGED <<docs, objects, manifests, swept, torn, stops>>
      BY <1>1 DEF storage, history, WorkerStep, env
    <2>4. OthersSame
      BY <2>3 DEF OthersSame, ObjectsOf
    <2>5. DocOK(c)'
      BY <2>1, <2>2, <2>3 DEF DocOK, Gone, ObjectsOf, Busy
    <2>6. /\ ~docs[c].error
          /\ docs[c].status \notin Listed => ProgressOK
      BY <1>1, <2>1 DEF SafeInv, HandOK, Cur, Busy
    <2>7. HandOK'
      BY <1>1, <2>1, <2>2, <2>3, <2>6 DEF HandOK, ProgressOK, Cur
    <2> QED  BY <1>1, <2>1, <2>2, <2>4, <2>5, <2>7, HandStep
  <1> QED  BY <1>2, <1>3 DEF TakeSnapshot

\* The manifest of the document in hand, which is not archived, may change.
LEMMA ManifestSafe ==
    ASSUME SafeInv, AppInv', ArchiveManifest \/ ManifestFails
    PROVE  SafeInv'
  <1>1. w.pc = "manifest" /\ w.pc \in Holding /\ WorkerStep /\ UNCHANGED <<docs, objects, history>>
    BY DEF ArchiveManifest, ManifestFails, At, Holding
  <1>2. PICK c \in DOMAIN docs : c = w.cur /\ DocOK(c) /\ docs[c].status \in Kept
    BY <1>1, InHand DEF Cur, Busy
  <1>3. UNCHANGED <<docs, objects, swept, torn, stops>>
    BY <1>1 DEF history, WorkerStep, env
  <1>4. PICK pc \in {"archive", "fail"} :
           Go(pc) /\ (UNCHANGED manifests \/ WriteManifest) /\ (pc = "archive" => WriteManifest)
    BY DEF ArchiveManifest, ManifestFails
  <1>5. w'.pc = pc /\ w'.cur = c /\ w'.batch = w.batch
    BY <1>2, <1>4, Moved
  <1>6. ASSUME WriteManifest
        PROVE  /\ DOMAIN manifests' = DOMAIN manifests \cup {c} /\ manifests'[c] = w.snap
               /\ \A id \in DOMAIN manifests \ {c} : manifests'[id] = manifests[id]
    BY <1>2, <1>6 DEF WriteManifest
  <1>7. OthersSame
    BY <1>2, <1>3, <1>4, <1>6 DEF OthersSame, ObjectsOf
  <1>8. DocOK(c)'
    BY <1>2, <1>3, <1>5 DEF DocOK, Busy, Kept, Listed
  <1>9. /\ ~docs[c].error
        /\ docs[c].status \notin Listed => ProgressOK
    BY <1>1, <1>2 DEF SafeInv, HandOK, Cur, Busy
  <1>10. HandOK'
    BY <1>1, <1>2, <1>3, <1>4, <1>5, <1>6, <1>9 DEF HandOK, ProgressOK, Cur
  <1> QED  BY <1>1, <1>2, <1>5, <1>7, <1>8, <1>10, HandStep

LEMMA Dropped ==
    ASSUME SafeInv, NextDocument
    PROVE  w'.pc = "next" /\ w'.cur = 0 /\ w'.batch = w.batch
  BY DEF NextDocument, Fresh

\* The worker has done what it could for the document, and lets go of it.
LEMMA LetGo ==
    ASSUME SafeInv, AppInv', NEW c \in DOMAIN docs, c = w.cur, OthersSame, WorkerStep,
           NextDocument, DocOK(c)'
    PROVE  SafeInv'
  <1>1. w'.pc = "next" /\ w'.cur = 0 /\ w'.batch = w.batch
    BY Dropped
  <1>2. HandOK'
    BY <1>1 DEF HandOK, Busy
  <1> QED  BY <1>1, <1>2, HandStep

LEMMA ArchiveSafe ==
    ASSUME SafeInv, AppInv', ArchiveDocument
    PROVE  SafeInv'
  <1>1. w.pc = "archive" /\ w.pc \in Holding /\ WorkerStep /\ UNCHANGED <<storage, history>>
    BY DEF ArchiveDocument, At, Holding
  <1>2. CASE Go("fail") /\ UNCHANGED docs
    BY <1>1, <1>2, ToFail DEF Busy
  <1>3. CASE TransitionTo(w.cur, "archived") /\ NextDocument
    <2>1. PICK c \in DOMAIN docs : c = w.cur /\ DocOK(c) /\ docs[c].status \in Kept
      BY <1>1, InHand DEF Cur, Busy
    <2>2. /\ OthersSame
          /\ docs'[c].status = "archived" /\ docs'[c].pages = docs[c].pages
          /\ docs'[c].identity = docs[c].identity /\ docs'[c].done = docs[c].done
          /\ docs'[c].total = docs[c].total /\ docs'[c].error = docs[c].error
          /\ CanTransition(docs[c].status, "archived")
          /\ UNCHANGED <<objects, manifests, swept, torn, stops>>
      BY <1>1, <1>3, <2>1, Advanced
    <2>3. docs[c].status \notin Listed
      BY <2>2 DEF CanTransition, Edges, Listed
    <2>4. /\ ~docs[c].error
          /\ c \notin torn /\ docs[c].identity \notin Albums => docs[c].done >= docs[c].total
          /\ c \notin torn => c \in DOMAIN manifests /\ manifests[c] = docs[c].pages
      BY <1>1, <2>1, <2>3 DEF SafeInv, HandOK, ProgressOK, Cur, Busy
    <2>5. DocOK(c)'
      BY <2>1, <2>2, <2>4 DEF DocOK
    <2> QED  BY <1>1, <1>3, <2>1, <2>2, <2>5, LetGo
  <1> QED  BY <1>2, <1>3 DEF ArchiveDocument, Refused

LEMMA FailSafe ==
    ASSUME SafeInv, AppInv', FailDocument
    PROVE  SafeInv'
  <1>1. w.pc = "fail" /\ w.pc \in Holding /\ WorkerStep /\ UNCHANGED <<storage, history>>
    BY DEF FailDocument, At, Holding
  <1>2. PICK c \in DOMAIN docs : c = w.cur /\ DocOK(c) /\ docs[c].status \in Kept
                                /\ docs[c] \in Document
    BY <1>1, InHand DEF Cur, Busy
  <1>3. UNCHANGED <<objects, manifests, swept, torn, stops, stopping>>
    BY <1>1 DEF storage, history, WorkerStep, env
  <1>4. CASE (stopping \/ ~Live(w.cur)) /\ NextDocument /\ UNCHANGED docs
    <2>1. OthersSame
      BY <1>3, <1>4 DEF OthersSame, ObjectsOf
    <2>2. stops = 0 => docs[c].status \notin {"resolving", "downloading"}
      BY <1>2, <1>4 DEF SafeInv, StopOK, AppInv, RestOK, Live, Exists, Visible
    <2>3. DocOK(c)'
      BY <1>2, <1>3, <1>4, <2>2 DEF DocOK, Gone, ObjectsOf
    <2> QED  BY <1>1, <1>2, <1>4, <2>1, <2>3, LetGo
  <1>5. CASE UpdateMeta(w.cur, Cur.total, TRUE) /\ Go("markFailed")
    <2>1. w'.pc = "markFailed" /\ w'.cur = c /\ w'.batch = w.batch
      BY <1>2, <1>5, Moved
    <2>2. Write(c, WithMeta(docs[c], docs[c].total, TRUE))
      BY <1>2, <1>5 DEF UpdateMeta, WithMeta, Cur
    <2>3. OthersSame
      BY <1>2, <1>3, <2>2, Written DEF OthersSame, ObjectsOf
    <2>4. /\ docs'[c].status = docs[c].status /\ docs'[c].pages = docs[c].pages
          /\ docs'[c].error = TRUE
      <3>1. docs'[c] = WithMeta(docs[c], docs[c].total, TRUE)
        BY <1>2, <2>2, Written
      <3> QED  BY <1>2, <3>1 DEF WithMeta, Document
    <2>5. DocOK(c)'
      BY <1>2, <1>3, <2>1, <2>4 DEF DocOK, Gone, ObjectsOf, Busy, Kept, Listed
    <2>6. HandOK'
      BY <1>2, <2>1, <2>4 DEF HandOK, ProgressOK, Cur
    <2> QED  BY <1>1, <1>2, <2>1, <2>3, <2>5, <2>6, HandStep
  <1> QED  BY <1>4, <1>5 DEF FailDocument

LEMMA MarkSafe ==
    ASSUME SafeInv, AppInv', MarkFailed
    PROVE  SafeInv'
  <1>1. /\ w.pc = "markFailed" /\ w.pc \in Holding /\ WorkerStep
        /\ UNCHANGED <<storage, history>> /\ NextDocument
    BY DEF MarkFailed, At, Holding
  <1>2. PICK c \in DOMAIN docs : c = w.cur /\ DocOK(c) /\ docs[c].status \in Kept
    BY <1>1, InHand DEF Cur, Busy
  <1>3. UNCHANGED <<objects, manifests, swept, torn, stops, stopping>>
    BY <1>1 DEF storage, history, WorkerStep, env
  <1>4. CASE (stopping \/ ~MayTransition(w.cur, "failed")) /\ UNCHANGED docs
    <2>1. OthersSame
      BY <1>3, <1>4 DEF OthersSame, ObjectsOf
    <2>2. stops = 0 => docs[c].status \notin {"resolving", "downloading"}
      BY <1>2, <1>4 DEF SafeInv, StopOK, AppInv, RestOK, MayTransition, Exists, CanTransition, Edges
    <2>3. DocOK(c)'
      BY <1>2, <1>3, <1>4, <2>2 DEF DocOK, Gone, ObjectsOf
    <2> QED  BY <1>1, <1>2, <2>1, <2>3, LetGo
  <1>5. CASE TransitionTo(w.cur, "failed")
    <2>1. /\ OthersSame
          /\ docs'[c].status = "failed" /\ docs'[c].pages = docs[c].pages
          /\ docs'[c].error = docs[c].error
      BY <1>1, <1>2, <1>5, Advanced
    <2>2. docs[c].error
      BY <1>1, <1>2 DEF SafeInv, HandOK, Cur
    <2>3. DocOK(c)'
      BY <1>2, <1>3, <2>1, <2>2 DEF DocOK
    <2> QED  BY <1>1, <1>2, <2>1, <2>3, LetGo
  <1> QED  BY <1>1, <1>4, <1>5 DEF MarkFailed
-----------------------------------------------------------------------------
(* The worker between documents, and the sweep.                              *)

LEMMA Identifiers == ASSUME SafeInv PROVE 0 \notin DOMAIN docs /\ w.batch \subseteq DOMAIN docs
  BY DEF SafeInv, AppInv, TableOK, WorkerOK, WorkerRecord

LEMMA Found == ASSUME NEW status PROVE \A id \in Batch(status) : id \in DOMAIN docs /\ docs[id].status = status
  BY DEF Batch

LEMMA Cleared ==
    ASSUME NEW pc, NEW batch
    PROVE  /\ Fresh(pc).pc = pc /\ Fresh(pc).cur = 0 /\ Fresh(pc).batch = {}
           /\ [Fresh(pc) EXCEPT !.batch = batch].pc = pc
           /\ [Fresh(pc) EXCEPT !.batch = batch].cur = 0
           /\ [Fresh(pc) EXCEPT !.batch = batch].batch = batch
  BY DEF Fresh

\* The worker writes nothing, and does not let go of a document under way.
LEMMA Rests ==
    ASSUME SafeInv, AppInv', WorkerStep, UNCHANGED <<docs, storage, history>>,
           w.pc \notin Busy, w'.pc \notin Busy \cup {"purge", "down"},
           w'.pc \in {"deletePrefix", "begin"} => docs[w'.cur].status \in Listed,
           w'.cur \notin w'.batch, \A id \in w'.batch : docs[id].status \in Listed
    PROVE  SafeInv'
  <1>1. UNCHANGED <<docs, objects, manifests, swept, torn, stops, stopping>>
    BY DEF storage, history, WorkerStep, env
  <1>2. ASSUME NEW id \in DOMAIN docs' PROVE DocOK(id)'
    BY <1>1, <1>2 DEF SafeInv, DocOK, Gone, ObjectsOf
  <1>3. HandOK'
    BY <1>1 DEF HandOK, Cur, Busy
  <1>4. ListOK' /\ StopOK'
    BY <1>1 DEF SafeInv, ListOK, StopOK
  <1> QED  BY <1>2, <1>3, <1>4 DEF SafeInv

\* The worker takes up a list, or goes to wait for its tickers.
LEMMA ListSafe ==
    ASSUME SafeInv, AppInv', ListDeleted \/ EndSweep \/ SweepTick \/ ListQueued \/ EndBatch
    PROVE  SafeInv'
  <1>1. /\ w.pc \in {"sweep", "sweepNext", "idle", "next"}
        /\ WorkerStep /\ UNCHANGED <<docs, storage, history>>
    BY DEF ListDeleted, EndSweep, SweepTick, ListQueued, EndBatch, At
  <1>2. /\ w'.pc \in {"sweep", "sweepNext", "idle", "next"} /\ w'.cur = 0
        /\ w'.batch \in {{}, Batch("deleted"), Batch("queued")}
    <2>1. CASE \E pc \in {"sweep", "idle"} : w' = Fresh(pc)
      BY <2>1, Cleared
    <2>2. CASE ListDeleted /\ w' = [Fresh("sweepNext") EXCEPT
                                      !.batch = Batch("deleted"),
                                      !.full  = Cardinality(Batch("deleted")) = BatchSize]
      BY <2>2 DEF Fresh
    <2>3. CASE w' = [Fresh("next") EXCEPT !.batch = Batch("queued")]
      BY <2>3, Cleared
    <2> QED  BY <2>1, <2>2, <2>3 DEF ListDeleted, EndSweep, SweepTick, ListQueued, EndBatch
  <1>3. \A id \in w'.batch : id # 0 /\ docs[id].status \in Listed
    BY <1>2, Found, Identifiers DEF Listed
  <1> QED  BY <1>1, <1>2, <1>3, Rests DEF Busy

LEMMA SweepNextSafe ==
    ASSUME SafeInv, AppInv', SweepNext
    PROVE  SafeInv'
  <1>1. w.pc = "sweepNext" /\ WorkerStep /\ UNCHANGED <<docs, storage, history>>
    BY DEF SweepNext, At
  <1>2. PICK id \in w.batch, pc \in {"deletePrefix", "sweepNext"} :
           w' = [w EXCEPT !.batch = @ \ {id}, !.cur = id, !.pc = pc]
    BY DEF SweepNext
  <1>3. w'.pc = pc /\ w'.cur = id /\ w'.batch = w.batch \ {id}
    BY <1>2 DEF SafeInv, AppInv, WorkerOK, WorkerRecord
  <1>4. \A other \in w.batch : docs[other].status \in Listed
    BY DEF SafeInv, ListOK
  <1> QED  BY <1>1, <1>2, <1>3, <1>4, Rests DEF Busy

\* A document deleted or restored since it was listed is taken, or skipped: either
\* way it has not been begun.
LEMMA TakeSafe ==
    ASSUME SafeInv, AppInv', TakeDocument
    PROVE  SafeInv'
  <1>1. w.pc = "next" /\ WorkerStep /\ UNCHANGED <<docs, storage, history>>
    BY DEF TakeDocument, At
  <1>2. PICK id \in w.batch :
           w' = [Fresh(IF Live(id) /\ ~stopping THEN "begin" ELSE "next") EXCEPT
                    !.batch = w.batch \ {id},
                    !.cur = IF Live(id) /\ ~stopping THEN id ELSE 0]
    BY DEF TakeDocument
  <1>3. /\ w'.batch = w.batch \ {id}
        /\ (w'.pc = "begin" /\ w'.cur = id) \/ (w'.pc = "next" /\ w'.cur = 0)
    BY <1>2 DEF Fresh
  <1>4. /\ \A other \in w.batch : docs[other].status \in Listed
        /\ 0 \notin w.batch
    BY Identifiers DEF SafeInv, ListOK
  <1> QED  BY <1>1, <1>2, <1>3, <1>4, Rests DEF Busy

\* Objects go away behind a document that is deleted, or restored and not yet begun.
LEMMA RemoveSafe ==
    ASSUME SafeInv, AppInv', w.pc = "deletePrefix", WorkerStep, UNCHANGED docs,
           NEW removed \in SUBSET ObjectsOf(w.cur), Remove(removed),
           NEW pc \in {"purge", "sweepNext"}, Go(pc),
           pc = "purge" => removed = ObjectsOf(w.cur)
    PROVE  SafeInv'
  <1>1. PICK c \in DOMAIN docs : c = w.cur
    BY InHand DEF Holding
  <1>2. docs[c].status \in Listed
    BY <1>1 DEF SafeInv, HandOK, Cur
  <1>3. w'.pc = pc /\ w'.cur = c /\ w'.batch = w.batch
    BY <1>1, Moved
  <1>4. /\ UNCHANGED <<docs, torn, stops>> /\ objects' = objects \ removed
        /\ DOMAIN manifests' = DOMAIN manifests \ {c} /\ swept' = swept \cup {c}
        /\ \A id \in DOMAIN manifests \ {c} : manifests'[id] = manifests[id]
    BY <1>1 DEF Remove, WorkerStep, env
  <1>5. OthersSame
    BY <1>1, <1>4 DEF OthersSame, ObjectsOf
  <1>6. DocOK(c)'
    BY <1>2, <1>4 DEF DocOK, Listed
  <1>7. pc = "purge" => Gone(c)'
    BY <1>1, <1>4 DEF Gone, ObjectsOf
  <1>8. HandOK'
    BY <1>2, <1>3, <1>4, <1>7 DEF HandOK, Cur, Busy
  <1> QED  BY <1>1, <1>3, <1>5, <1>6, <1>8, HandStep

LEMMA DeleteSafe ==
    ASSUME SafeInv, AppInv', DeletePrefix \/ DeletePrefixFails
    PROVE  SafeInv'
  <1>1. w.pc = "deletePrefix" /\ WorkerStep /\ UNCHANGED docs
    BY DEF DeletePrefix, DeletePrefixFails, At
  <1>2. CASE Remove(ObjectsOf(w.cur)) /\ Go("purge")
    BY <1>1, <1>2, RemoveSafe
  <1>3. ASSUME NEW removed \in SUBSET ObjectsOf(w.cur), Remove(removed), Go("sweepNext")
        PROVE  SafeInv'
    BY <1>1, <1>3, RemoveSafe
  <1>4. CASE UNCHANGED <<storage, history>> /\ Go("sweepNext")
    <2>1. w'.pc = "sweepNext" /\ w'.cur = w.cur /\ w'.batch = w.batch
      BY <1>4, Moved
    <2> QED  BY <1>1, <1>4, <2>1, Rests DEF Busy, SafeInv, ListOK
  <1> QED  BY <1>2, <1>3, <1>4 DEF DeletePrefix, DeletePrefixFails

LEMMA PurgeSafe ==
    ASSUME SafeInv, AppInv', PurgeDocument
    PROVE  SafeInv'
  <1>1. w.pc = "purge" /\ WorkerStep /\ UNCHANGED <<storage, torn>>
    BY DEF PurgeDocument, At
  <1>2. CASE Go("sweepNext") /\ UNCHANGED <<docs, swept>>
    <2>1. w'.pc = "sweepNext" /\ w'.cur = w.cur /\ w'.batch = w.batch
      BY <1>2, Moved
    <2> QED  BY <1>1, <1>2, <2>1, Rests DEF Busy, SafeInv, ListOK, history
  <1>3. CASE /\ Purge(w.cur) /\ w' = [w EXCEPT !.pc = "sweepNext", !.purged = TRUE]
             /\ swept' = swept \ {w.cur}
    <2>1. PICK c \in DOMAIN docs : c = w.cur /\ docs[c] \in Document
      BY <1>1, InHand DEF Holding
    <2>2. w'.pc = "sweepNext" /\ w'.cur = c /\ w'.batch = w.batch
      BY <1>3, <2>1 DEF SafeInv, AppInv, WorkerOK, WorkerRecord
    <2>3. UNCHANGED <<objects, manifests, torn, stops>> /\ swept' = swept \ {c}
      BY <1>1, <1>3, <2>1 DEF storage, WorkerStep, env
    <2>4. Write(c, Emptied(docs[c]))
      BY <1>3, <2>1 DEF Purge
    <2>5. docs'[c].status = "purged" /\ DOMAIN docs'[c].pages = {}
      BY <2>1, <2>4, Written, EmptiedFields, NoPagesOK
    <2>6. OthersSame
      BY <2>1, <2>3, <2>4, Written DEF OthersSame, ObjectsOf
    <2>7. Gone(c)'
      BY <1>1, <2>1, <2>3 DEF SafeInv, HandOK, Gone, ObjectsOf
    <2>8. DocOK(c)'
      BY <2>5, <2>7 DEF DocOK
    <2>9. HandOK'
      BY <2>2 DEF HandOK, Busy
    <2> QED  BY <1>1, <2>1, <2>2, <2>6, <2>8, <2>9, HandStep
  <1> QED  BY <1>2, <1>3 DEF PurgeDocument
-----------------------------------------------------------------------------
(* Requests, between any two steps of the worker.                            *)

\* What a request may do to a document: hide it, queue it, or clear its pages
\* before the worker has begun it, or on the record that it did so behind the
\* worker's back.
Touched(id) ==
    /\ docs'[id].identity = docs[id].identity
    /\ docs'[id].total = docs[id].total
    /\ docs'[id].error = docs[id].error
    /\ docs'[id].status = docs[id].status \/ docs'[id].status \in Listed
    /\ \/ docs'[id].pages = docs[id].pages /\ docs'[id].done = docs[id].done
       \/ /\ DOMAIN docs'[id].pages = {}
          /\ docs'[id].status = "queued" \/ id \in torn'

Requested ==
    /\ UNCHANGED <<w, objects, manifests, swept, stops, stopping>>
    /\ Grows /\ torn \subseteq torn'
    /\ \A id \in DOMAIN docs : Touched(id)
    /\ \A id \in DOMAIN docs' \ DOMAIN docs :
          docs'[id].status = "queued" /\ DOMAIN docs'[id].pages = {}

\* A request that gives a row another status.
LEMMA Restated ==
    ASSUME AppInv, NEW id \in DOMAIN docs, NEW status \in Listed,
           Write(id, WithStatus(docs[id], status)),
           UNCHANGED <<w, env, storage, history>>
    PROVE  Requested
  <1>1. docs[id] \in Document
    BY Row
  <1>2. /\ DOMAIN docs' = DOMAIN docs /\ docs'[id] = WithStatus(docs[id], status)
        /\ \A other \in DOMAIN docs \ {id} : docs'[other] = docs[other]
    BY Written
  <1>3. \A other \in DOMAIN docs : Touched(other)
    BY <1>1, <1>2, StatusFields DEF Touched
  <1> QED  BY <1>2, <1>3 DEF Requested, Grows, env, storage, history

LEMMA RequestsOnly ==
    ASSUME AppInv, Client
    PROVE  Requested
  <1>1. ASSUME NEW n \in Identities, RequestDocument(n) PROVE Requested
    <2> DEFINE new == NewDocument(n, NoPages, 0, FALSE)
    <2>1. docs' = Append(docs, new) /\ UNCHANGED <<w, env, storage, history>>
      BY <1>1 DEF RequestDocument, ClientStep, Create, MayCreate
    <2>2. docs \in Seq(Document)
      BY DEF AppInv, TableOK
    <2>3. new.status = "queued" /\ DOMAIN new.pages = {}
      BY NoPagesOK DEF NewDocument
    <2> HIDE DEF new
    <2>4. /\ DOMAIN docs' = DOMAIN docs \cup {Len(docs) + 1}
          /\ docs'[Len(docs) + 1] = new
          /\ \A id \in DOMAIN docs : docs'[id] = docs[id]
      BY <2>1, <2>2
    <2> QED  BY <2>1, <2>3, <2>4 DEF Requested, Touched, Grows, env, storage, history
  <1>2. ASSUME NEW id \in DOMAIN docs,
               \/ RemoveDocument(id) \/ RefreshMetadata(id) \/ RestoreDocument(id)
               \/ \E c \in Clients : RefreshAll(c, id)
        PROVE  Requested
    <2>1. \E status \in Listed : Write(id, WithStatus(docs[id], status))
      BY <1>2 DEF RemoveDocument, RefreshMetadata, RestoreDocument, RefreshAll, Delete,
                  TransitionTo, Restore, Listed, MayDelete, MayRestore
    <2>2. UNCHANGED <<w, env, storage, history>>
      BY <1>2 DEF RemoveDocument, RefreshMetadata, RestoreDocument, RefreshAll, ClientStep
    <2> QED  BY <2>1, <2>2, Restated
  <1>3. ASSUME NEW c \in Clients, RefreshAllReset(c) PROVE Requested
    <2>1. UNCHANGED <<w, env, storage, swept>>
      BY <1>3 DEF RefreshAllReset
    <2>2. CASE UNCHANGED <<docs, torn>>
      BY <2>1, <2>2 DEF Requested, Touched, Grows, env, storage
    <2> DEFINE id == pending[c]
    <2>3. CASE /\ ResetPages(id)
               /\ torn' = IF docs[id].status = "queued" THEN torn ELSE torn \cup {id}
      <3>1. id \in DOMAIN docs
        BY <2>3 DEF ResetPages, Live, Exists
      <3>2. docs[id] \in Document
        BY <3>1, Row
      <3>3. Write(id, WithoutPages(docs[id]))
        BY <2>3 DEF ResetPages
      <3> HIDE DEF id
      <3>4. /\ DOMAIN docs' = DOMAIN docs /\ docs'[id] = WithoutPages(docs[id])
            /\ \A other \in DOMAIN docs \ {id} : docs'[other] = docs[other]
        BY <3>1, <3>3, Written
      <3>5. \A other \in DOMAIN docs : Touched(other)
        BY <2>3, <3>2, <3>4, PagelessFields, NoPagesOK DEF Touched
      <3> QED  BY <2>1, <2>3, <3>4, <3>5 DEF Requested, Grows, env, storage
    <2> QED  BY <1>3, <2>2, <2>3 DEF RefreshAllReset
  <1> QED  BY <1>1, <1>2, <1>3 DEF Client

LEMMA RequestSafe ==
    ASSUME SafeInv, AppInv', Requested
    PROVE  SafeInv'
  <1>1. /\ UNCHANGED <<w, objects, manifests, swept, stops, stopping>>
        /\ DOMAIN docs \subseteq DOMAIN docs' /\ torn \subseteq torn'
    BY DEF Requested, Grows
  <1>2. ASSUME NEW id \in DOMAIN docs PROVE DocOK(id)'
    <2>1. DocOK(id) /\ Touched(id)
      BY DEF SafeInv, Requested
    <2>2. Gone(id)' <=> Gone(id)
      BY <1>1 DEF Gone, ObjectsOf
    <2>3. id \notin swept' =>
             \A p \in DOMAIN docs'[id].pages : <<id, docs'[id].pages[p]>> \in objects'
      BY <1>1, <2>1 DEF DocOK, Touched
    <2> QED  BY <1>1, <2>1, <2>2, <2>3 DEF DocOK, Touched, Listed
  <1>3. ASSUME NEW id \in DOMAIN docs' \ DOMAIN docs PROVE DocOK(id)'
    BY <1>1, <1>3 DEF Requested, DocOK
  <1>4. w.cur \in DOMAIN docs => Touched(w.cur)
    BY DEF Requested
  <1>5. HandOK'
    <2>1. CASE w.pc \notin Holding
      BY <1>1, <2>1, BusyHolds DEF HandOK, Holding
    <2>2. CASE w.pc \in Holding
      <3>1. PICK c \in DOMAIN docs : c = w.cur /\ Touched(c)
        BY <1>4, <2>2, InHand
      <3>2. Gone(c)' <=> Gone(c)
        BY <1>1 DEF Gone, ObjectsOf
      <3>3. w.pc \in Busy /\ docs'[c].status \notin Listed => ProgressOK'
        <4> SUFFICES ASSUME w.pc \in Busy, docs'[c].status \notin Listed
                     PROVE  ProgressOK'
          OBVIOUS
        <4>1. ProgressOK
          BY <3>1 DEF SafeInv, HandOK, Cur, Touched
        <4>2. docs'[c].status # "queued"
          BY DEF Listed
        <4> QED  BY <1>1, <3>1, <4>1, <4>2 DEF ProgressOK, Cur, Touched, Recorded
      <3>4. w.pc \in {"deletePrefix", "purge", "begin"} => docs'[c].status \in Listed
        BY <3>1 DEF SafeInv, HandOK, Cur, Touched
      <3>5. w.pc \in Busy => docs'[c].status \in Kept
        BY <3>1 DEF SafeInv, HandOK, Cur, Touched, Kept
      <3>6. w.pc = "download" =>
               \A p \in DOMAIN w'.task : w'.task[p] = "record" => Object(p)' \in objects'
        BY <1>1 DEF SafeInv, HandOK, Object
      <3> QED  BY <1>1, <3>1, <3>2, <3>3, <3>4, <3>5, <3>6 DEF SafeInv, HandOK, Cur, Touched
    <2> QED  BY <2>1, <2>2
  <1>6. ListOK'
    BY <1>1, Identifiers DEF SafeInv, ListOK, Requested, Touched
  <1>7. StopOK'
    BY <1>1 DEF SafeInv, StopOK
  <1> QED  BY <1>2, <1>3, <1>5, <1>6, <1>7 DEF SafeInv
-----------------------------------------------------------------------------
(* The process stops, and is started again.                                  *)

LEMMA StopsSafe ==
    ASSUME SafeInv, AppInv', Shutdown \/ Exit \/ Kill \/ Restart
    PROVE  SafeInv'
  <1>1. UNCHANGED <<docs, objects, manifests, swept, torn>>
    BY DEF Shutdown, Exit, Kill, Restart, Down, storage, history
  <1>2. stops \in Nat /\ stops' \in Nat
    BY AppAssumption DEF SafeInv, AppInv, RestOK
  <1>3. stops' > 0
    BY <1>2 DEF SafeInv, StopOK, Shutdown, Exit, Kill, Restart, Up
  <1>4. \A id \in DOMAIN docs' : DocOK(id)'
    BY <1>1, <1>3 DEF SafeInv, DocOK, Gone, ObjectsOf
  <1>5. CASE UNCHANGED w
    BY <1>1, <1>3, <1>4, <1>5 DEF SafeInv, HandOK, ProgressOK, Recorded, Cur, Object, Gone,
                                  ObjectsOf, ListOK, StopOK
  <1>6. CASE \E pc \in {"down", "sweep"} : w' = Fresh(pc)
    <2>1. w'.pc \in {"down", "sweep"} /\ w'.cur = 0 /\ w'.batch = {}
      BY <1>6, Cleared
    <2> QED  BY <1>3, <1>4, <2>1 DEF SafeInv, HandOK, Busy, ListOK, StopOK
  <1> QED  BY <1>5, <1>6 DEF Shutdown, Exit, Kill, Restart, Down
-----------------------------------------------------------------------------
LEMMA SafeInitOK == AppInit => SafeInv
  <1> SUFFICES ASSUME AppInit PROVE SafeInv
    OBVIOUS
  <1>1. AppInv
    BY AppInitOK
  <1>2. DOMAIN docs = {} /\ w.pc = "sweep" /\ w.cur = 0 /\ w.batch = {} /\ ~stopping
    BY Cleared DEF AppInit, StoreInit
  <1> QED  BY <1>1, <1>2 DEF SafeInv, HandOK, Busy, ListOK, StopOK

LEMMA SafeNextOK == SafeInv /\ [Next]_vars => SafeInv'
  <1> SUFFICES ASSUME SafeInv, [Next]_vars PROVE SafeInv'
    OBVIOUS
  <1>1. AppInv'
    BY AppNextOK DEF SafeInv
  <1>2. CASE UNCHANGED vars
    BY <1>1, <1>2 DEF vars, env, storage, history, SafeInv, DocOK, HandOK, ProgressOK, Recorded,
                      Cur, Object, Gone, ObjectsOf, ListOK, StopOK
  <1>3. CASE Client
    BY <1>1, <1>3, RequestsOnly, RequestSafe DEF SafeInv
  <1>4. CASE Sweep \/ SweepTick \/ ListQueued \/ EndBatch
    BY <1>1, <1>4, ListSafe, SweepNextSafe, DeleteSafe, PurgeSafe DEF Sweep
  <1>5. CASE ResolveFails
    BY <1>1, <1>5, ToFail DEF ResolveFails, At, Busy
  <1>6. CASE Process
    BY <1>1, <1>4, <1>5, <1>6, TakeSafe, BeginSafe, ResolveSafe, SaveSafe, ResetSafe, StartSafe,
       DownloadSafe, SnapshotSafe, ManifestSafe, ArchiveSafe, FailSafe, MarkSafe DEF Process
  <1>7. CASE Shutdown \/ Exit \/ Kill \/ Restart
    BY <1>1, <1>7, StopsSafe
  <1> QED  BY <1>2, <1>3, <1>4, <1>6, <1>7 DEF Next, Worker

LEMMA SafeInvariant == Spec => []SafeInv
  BY SafeInitOK, SafeNextOK, PTL DEF Spec

\* Progress is recorded only behind the object it counts: for any number of
\* clients, batches, failures and restarts between PUT, AddPage, DeletePrefix and
\* Purge, a recorded page has its object unless the sweep has reached its document.
THEOREM AppPagesBacked == Spec => []PagesBacked
  <1>1. SafeInv => PagesBacked
    BY DEF SafeInv, DocOK, PagesBacked
  <1> QED  BY <1>1, SafeInvariant, PTL

\* Nothing is left of a purged document: the worker, which could still have written
\* a page of it, cannot have it in hand when the sweep has listed it.
THEOREM AppPurgedLeavesNothing == Spec => []PurgedLeavesNothing
  <1>1. SafeInv => PurgedLeavesNothing
    BY DEF SafeInv, DocOK, PurgedLeavesNothing, Gone
  <1> QED  BY <1>1, SafeInvariant, PTL

\* Until the process is told to stop, what is resolving or downloading is in the
\* worker's hand: no path out of processDocument forgets a document it has begun.
THEOREM AppWorkOwned == Spec => []WorkOwned
  <1>1. SafeInv => WorkOwned
    BY DEF SafeInv, DocOK, WorkOwned, Busy
  <1> QED  BY <1>1, SafeInvariant, PTL

\* A failed document has an error, and one archived after a failure has none left.
THEOREM AppErrorTells == Spec => []ErrorTells
  <1>1. SafeInv => ErrorTells
    BY DEF SafeInv, DocOK, ErrorTells
  <1> QED  BY <1>1, SafeInvariant, PTL

\* An archived document is complete, whatever its earlier runs left behind, but
\* for an album or a reset behind the worker's back.
THEOREM AppArchivedComplete == Spec => []ArchivedComplete
  <1>1. SafeInv => ArchivedComplete
    BY DEF SafeInv, DocOK, ArchivedComplete
  <1> QED  BY <1>1, SafeInvariant, PTL

\* The manifest in the object storage lists the pages of an archived document.
THEOREM AppManifestMatches == Spec => []ManifestMatches
  <1>1. SafeInv => ManifestMatches
    BY DEF SafeInv, DocOK, ManifestMatches
  <1> QED  BY <1>1, SafeInvariant, PTL

\* Only a worker at DeletePrefix takes objects away, and those of the document it
\* has listed: deleted then, deleted or restored now, but not begun.
LEMMA OnlySweepRemoves ==
    ASSUME SafeInv, Next, NEW o \in objects, o \notin objects'
    PROVE  docs[o[1]].status \in Listed
  <1>1. DeletePrefix \/ DeletePrefixFails
    BY DEF Next, Client, RequestDocument, RemoveDocument, RefreshMetadata, RefreshAll,
           RefreshAllReset, RestoreDocument, ClientStep, Worker, Sweep, SweepTick, ListDeleted,
           SweepNext, PurgeDocument, EndSweep, ListQueued, Process, TakeDocument, EndBatch,
           BeginDocument, ResolveDocument, ResolveFails, SaveMetadata, ResetDocument,
           StartDownload, Download, PageHead, PagePut, PageRecord, PageFails, PageAborted,
           ContentFails, DownloadReturns, TakeSnapshot, ArchiveManifest, ManifestFails,
           ArchiveDocument, FailDocument, MarkFailed, Shutdown, Exit, Kill, Down, Restart, storage
  <1>2. w.pc = "deletePrefix"
    BY <1>1 DEF DeletePrefix, DeletePrefixFails, At
  <1>3. o[1] = w.cur
    BY <1>1 DEF DeletePrefix, DeletePrefixFails, Remove, ObjectsOf, storage
  <1> QED  BY <1>2, <1>3 DEF SafeInv, HandOK, Cur

\* The sweep, which works from a stale list, takes no object of a document that has
\* been or is being archived.
THEOREM AppSweepSpares == Spec => SweepSpares
  <1> DEFINE Spares == \A o \in objects \ objects' : docs[o[1]].status \in {"deleted", "queued"}
  <1>1. SafeInv /\ [Next]_vars => [Spares]_vars
    BY OnlySweepRemoves DEF Listed
  <1>2. SweepSpares <=> [][Spares]_vars
    BY DEF SweepSpares
  <1> HIDE DEF Spares
  <1> QED  BY <1>1, <1>2, SafeInvariant, PTL DEF Spec
=============================================================================
