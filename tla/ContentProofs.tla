----------------------------- MODULE ContentProofs -----------------------------
(* The two ArchiveContent, of hitomi and of jmcomic, implement ContentArchive.*)
(* hitomi's, for any pages, keys, limits and numbers of attempts, uses the    *)
(* scheduler as it is meant to be used; its invariant says, page by page, how *)
(* the step of downloadPage goes with the state of the page's task (PageOK),  *)
(* and what the collector knows (CollectOK).  jmcomic's, for any chapter and  *)
(* any number of domains, records the pages before the page in hand (JInv).   *)
EXTENDS HitomiArchive, JmcomicArchive, SchedulerProofs, SequenceTheorems

Steps == {"idle", "head", "get", "put", "record", "ok", "limited", "own", "cancelled"}

PageOK(t) ==
    /\ state[t] \in {"acquire", "sleeping", "queueing"} => page[t].step = "idle"
    /\ state[t] = "running" => page[t].step # "idle" /\ phase = "pages"
    /\ state[t] = "done" => page[t].step = "ok"
    /\ state[t] = "failed" => page[t].step \in {"own", "cancelled"}
    /\ page[t].step = "ok" <=> t \in recorded
    /\ page[t].step = "record" => objects[KeyOf[t]] # "none"
    /\ page[t].step = "put" => page[t].buf \in {"whole", "torn"}
    /\ page[t].step = "cancelled" => cancelled
    /\ state[t] # "acquire" => phase = "pages"

\* No error has been collected as long as firstErr is "none"; the context is only
\* cancelled by an error or from outside; the answer comes when all is collected.
CollectOK ==
    /\ \A t \in received : Ended(t)
    /\ firstErr = "none" => \A t \in received : state[t] # "failed"
    /\ firstErr = "none" /\ cancelled => outer
    /\ answer.given /\ phase = "pages" => received = Tasks

HInv == HTypeOK /\ (\A t \in Tasks : PageOK(t)) /\ CollectOK /\ FirstErrorIsCause

-----------------------------------------------------------------------------
(* The scheduler is used as it should be.                                    *)

LEMMA HStepIsSchedulerStep ==
    ASSUME TypeOK, [HNext]_hVars
    PROVE  [Next]_vars
  <1>1. ASSUME NEW t \in Tasks, Queueing(t)
        PROVE  Acquire(t)
    BY <1>1 DEF Queueing, Begin, AwaitPermit, AwaitCancelled, Acquire
  <1>2. ASSUME NEW t \in Tasks, Serving(t)
        PROVE  Finish(t) \/ UNCHANGED vars
    BY <1>2 DEF Serving, HeadObject, Get, GetFails, Put, Record, CallCancelled, ReturnPermit,
                PageOnly, Finish
  <1>3. ASSUME cancelled' \in {cancelled, TRUE}, UNCHANGED <<shared, local, fresh>>
        PROVE  Cancel \/ UNCHANGED vars
    BY <1>3 DEF Cancel, vars, TypeOK
  <1>4. ASSUME NEW t \in Tasks, Collect(t)
        PROVE  Cancel \/ UNCHANGED vars
    BY <1>3, <1>4 DEF Collect
  <1>5. CASE CancelOuter
    BY <1>3, <1>5 DEF CancelOuter, Next
  <1>6. CASE Resolving \/ ReturnPages
    BY <1>6 DEF Resolving, AskAgain, Resolved, ResolveComicFails, ReturnPages
  <1>7. CASE Tick
    BY <1>7 DEF Tick, Next
  <1>8. CASE UNCHANGED hVars
    BY <1>8 DEF hVars
  <1> QED  BY <1>1, <1>2, <1>4, <1>5, <1>6, <1>7, <1>8 DEF HNext, Next

LEMMA HStartIsSchedulerStart == HInit => Init
  BY DEF HInit

-----------------------------------------------------------------------------
(* The invariant.                                                            *)

Pages   == [step : Steps, tries : 1 .. Tries, buf : {"empty", "partial", "whole", "torn"}]
Bodies  == {"none", "whole", "torn"}

LEMMA KeysAreObjs == \A t \in Tasks : KeyOf[t] \in Objs
  BY DEF Objs

\* A step of one page's goroutine moves that page, its task, and perhaps its object
\* and its record; the other pages and the collector stay as they are.
LEMMA PageStep ==
    ASSUME HInv, TypeOK, NEW t \in Tasks, ~Ended(t),
           NEW p \in Pages, page' = [page EXCEPT ![t] = p],
           NEW s \in TaskStates, state' = [state EXCEPT ![t] = s],
           UNCHANGED <<collect, cancelled>>,
           objects' \in [Objs -> Bodies],
           \A k \in Objs : objects[k] # "none" => objects'[k] # "none",
           recorded' \in {recorded, recorded \cup {t}},
           PageOK(t)'
    PROVE  HInv'
  <1>1. state \in [Tasks -> TaskStates] /\ page \in [Tasks -> Pages]
    BY DEF TypeOK, HInv, HTypeOK, Pages, Steps
  <1>2. \A u \in Tasks \ {t} : state'[u] = state[u] /\ page'[u] = page[u]
    BY <1>1
  <1>3. \A u \in Tasks \ {t} : PageOK(u)'
    BY <1>2, KeysAreObjs DEF HInv, PageOK, collect
  <1>4. t \notin received /\ received \subseteq Tasks
    BY DEF HInv, CollectOK, HTypeOK
  <1>5. CollectOK'
    BY <1>2, <1>4 DEF HInv, CollectOK, Ended, collect
  <1>6. HTypeOK'
    BY <1>1 DEF HInv, HTypeOK, Pages, Steps, Bodies, collect
  <1>7. FirstErrorIsCause'
    BY DEF HInv, FirstErrorIsCause, collect
  <1> QED  BY <1>3, <1>5, <1>6, <1>7 DEF HInv

\* A call of downloadPage: the task keeps its permit.
LEMMA CallStep ==
    ASSUME HInv, TypeOK, NEW t \in Tasks, state[t] = "running",
           NEW p \in Pages, page' = [page EXCEPT ![t] = p],
           UNCHANGED <<vars, collect>>,
           objects' \in [Objs -> Bodies],
           \A k \in Objs : objects[k] # "none" => objects'[k] # "none",
           recorded' \in {recorded, recorded \cup {t}},
           p.step # "idle", p.step = "ok" <=> t \in recorded',
           p.step = "record" => objects'[KeyOf[t]] # "none",
           p.step = "put" => p.buf \in {"whole", "torn"},
           p.step = "cancelled" => cancelled
    PROVE  HInv'
  <1>1. state \in [Tasks -> TaskStates] /\ page \in [Tasks -> Pages] /\ phase = "pages"
    BY DEF TypeOK, HInv, HTypeOK, Pages, Steps, PageOK
  <1>2. /\ state' = [state EXCEPT ![t] = "running"] /\ page'[t] = p /\ state'[t] = "running"
        /\ cancelled' = cancelled /\ phase' = "pages"
    BY <1>1 DEF vars, local, collect
  <1>3. PageOK(t)'
    BY <1>2 DEF PageOK
  <1>4. ~Ended(t) /\ "running" \in TaskStates
    BY DEF Ended, TaskStates
  <1> QED  BY <1>2, <1>3, <1>4, PageStep

LEMMA HeadObjectOK ==
    ASSUME HInv, TypeOK, NEW t \in Tasks, HeadObject(t)
    PROVE  HInv'
  <1>1. /\ page[t] \in Pages /\ objects \in [Objs -> Bodies] /\ state[t] = "running"
        /\ t \notin recorded
    BY DEF HInv, HTypeOK, Pages, Steps, Bodies, HeadObject, At, PageOK
  <1>2. PICK step \in {"get", "record", "own"} :
            /\ page' = [page EXCEPT ![t] = [page[t] EXCEPT !.step = step]]
            /\ step = "record" => objects[KeyOf[t]] # "none"
    BY DEF HeadObject, To
  <1> DEFINE p == [page[t] EXCEPT !.step = step]
  <1>3. p \in Pages /\ p.step = step
    BY <1>1 DEF Pages, Steps
  <1> HIDE DEF p
  <1> QED  BY <1>1, <1>2, <1>3, CallStep DEF HeadObject, PageOnly, p

LEMMA GetOK ==
    ASSUME HInv, TypeOK, NEW t \in Tasks, Get(t) \/ GetFails(t)
    PROVE  HInv'
  <1>1. /\ page[t] \in Pages /\ objects \in [Objs -> Bodies] /\ state[t] = "running"
        /\ t \notin recorded
    BY DEF HInv, HTypeOK, Pages, Steps, Bodies, Get, GetFails, At, PageOK
  <1>2. PICK step \in {"get", "put", "limited", "own"}, tries \in 1 .. Tries,
             buf \in {"empty", "partial", "whole", "torn"} :
            /\ page' = [page EXCEPT ![t] = [step |-> step, tries |-> tries, buf |-> buf]]
            /\ step = "put" => buf \in {"whole", "torn"}
    <2>1. page \in [Tasks -> Pages]
      BY DEF HInv, HTypeOK, Pages, Steps
    <2>2. page[t].tries \in 1 .. Tries /\ page[t].buf \in {"empty", "partial", "whole", "torn"}
      BY <1>1 DEF Pages
    <2>3. \A step \in Steps : To(t, step) =>
             page' = [page EXCEPT ![t] = [step |-> step, tries |-> page[t].tries,
                                         buf |-> page[t].buf]]
      BY <1>1, <2>1 DEF To, Pages
    <2>4. CASE To(t, "limited")
      BY <2>2, <2>3, <2>4 DEF Steps
    <2>5. CASE To(t, "own")
      BY <2>2, <2>3, <2>5 DEF Steps
    <2>6. CASE Now(t, [step |-> "put", tries |-> page[t].tries,
                       buf |-> Transferred(page[t].buf)])
      <3>1. Transferred(page[t].buf) \in {"whole", "torn"}
        BY DEF Transferred
      <3> QED  BY <2>2, <2>6, <3>1 DEF Now
    <2>7. CASE /\ page[t].tries < Tries
               /\ \E buf \in {page[t].buf, "partial"} :
                    Now(t, [step |-> "get", tries |-> page[t].tries + 1, buf |-> buf])
      <3>1. page[t].tries + 1 \in 1 .. Tries
        BY <2>2, <2>7, TriesPositive
      <3> QED  BY <2>2, <2>7, <3>1 DEF Now
    <2> QED  BY <2>4, <2>5, <2>6, <2>7 DEF Get, GetFails
  <1> DEFINE p == [step |-> step, tries |-> tries, buf |-> buf]
  <1>3. p \in Pages /\ p.step = step /\ p.buf = buf
    BY DEF Pages, Steps
  <1>4. page' = [page EXCEPT ![t] = p]
    BY <1>2
  <1>5. UNCHANGED <<vars, collect, objects, recorded>>
    BY DEF Get, GetFails, PageOnly
  <1> HIDE DEF p
  <1> QED  BY <1>1, <1>2, <1>3, <1>4, <1>5, CallStep

LEMMA PutOK ==
    ASSUME HInv, TypeOK, NEW t \in Tasks, Put(t)
    PROVE  HInv'
  <1>1. /\ page[t] \in Pages /\ objects \in [Objs -> Bodies] /\ state[t] = "running"
        /\ t \notin recorded /\ page[t].buf \in {"whole", "torn"} /\ KeyOf[t] \in Objs
    BY KeysAreObjs DEF HInv, HTypeOK, Pages, Steps, Bodies, Put, At, PageOK
  <1>2. PICK step \in {"record", "own"} :
            /\ page' = [page EXCEPT ![t] = [page[t] EXCEPT !.step = step]]
            /\ \/ objects' = [objects EXCEPT ![KeyOf[t]] = page[t].buf]
               \/ step = "own" /\ UNCHANGED objects
    BY DEF Put, To
  <1> DEFINE p == [page[t] EXCEPT !.step = step]
  <1>3. p \in Pages /\ p.step = step
    BY <1>1 DEF Pages, Steps
  <1>4. /\ objects' \in [Objs -> Bodies]
        /\ \A k \in Objs : objects[k] # "none" => objects'[k] # "none"
        /\ step = "record" => objects'[KeyOf[t]] # "none"
    BY <1>1, <1>2 DEF Bodies
  <1>5. UNCHANGED <<vars, collect, recorded>>
    BY DEF Put, PageOnly
  <1> HIDE DEF p
  <1> QED  BY <1>1, <1>2, <1>3, <1>4, <1>5, CallStep DEF p

LEMMA RecordOK ==
    ASSUME HInv, TypeOK, NEW t \in Tasks, Record(t)
    PROVE  HInv'
  <1>1. /\ page[t] \in Pages /\ objects \in [Objs -> Bodies] /\ state[t] = "running"
        /\ t \notin recorded
    BY DEF HInv, HTypeOK, Pages, Steps, Bodies, Record, At, PageOK
  <1>2. PICK step \in {"ok", "own"} :
            /\ page' = [page EXCEPT ![t] = [page[t] EXCEPT !.step = step]]
            /\ recorded' = IF step = "ok" THEN recorded \cup {t} ELSE recorded
    BY DEF Record, To
  <1> DEFINE p == [page[t] EXCEPT !.step = step]
  <1>3. p \in Pages /\ p.step = step
    BY <1>1 DEF Pages, Steps
  <1>4. /\ recorded' \in {recorded, recorded \cup {t}}
        /\ p.step = "ok" <=> t \in recorded'
    BY <1>1, <1>2, <1>3
  <1>5. UNCHANGED <<vars, collect, objects>>
    BY DEF Record, PageOnly
  <1> HIDE DEF p
  <1> QED  BY <1>1, <1>2, <1>3, <1>4, <1>5, CallStep DEF p

LEMMA CallCancelledOK ==
    ASSUME HInv, TypeOK, NEW t \in Tasks, CallCancelled(t)
    PROVE  HInv'
  <1>1. /\ page[t] \in Pages /\ objects \in [Objs -> Bodies] /\ state[t] = "running"
        /\ t \notin recorded
    BY DEF HInv, HTypeOK, Pages, Steps, Bodies, CallCancelled, At, PageOK
  <1> DEFINE p == [page[t] EXCEPT !.step = "cancelled"]
  <1>2. p \in Pages /\ p.step = "cancelled"
    BY <1>1 DEF Pages, Steps
  <1>3. /\ page' = [page EXCEPT ![t] = p] /\ cancelled
        /\ UNCHANGED <<vars, collect, objects, recorded>>
    BY DEF CallCancelled, To, PageOnly
  <1> HIDE DEF p
  <1> QED  BY <1>1, <1>2, <1>3, CallStep

\* A task in the queue, and what becomes of its page.
LEMMA QueueingOK ==
    ASSUME HInv, TypeOK, NEW t \in Tasks, Queueing(t)
    PROVE  HInv'
  <1>1. /\ page \in [Tasks -> Pages] /\ state \in [Tasks -> TaskStates]
        /\ objects \in [Objs -> Bodies]
    BY DEF HInv, HTypeOK, TypeOK, Pages, Steps, Bodies
  <1>2. /\ state[t] \in {"acquire", "sleeping", "queueing"}
        /\ UNCHANGED <<objects, recorded, collect, cancelled>>
    BY DEF Queueing, Begin, AwaitPermit, AwaitCancelled, Grant, Wait, Wake, GiveUp, Waiting, work
  <1>3. page[t].step = "idle" /\ t \notin recorded /\ ~Ended(t)
    BY <1>2 DEF HInv, PageOK, Ended
  <1>4. CASE Begin(t)
    <2> DEFINE p == [Idle EXCEPT !.step = "head"]
    <2>1. p \in Pages /\ p.step = "head"
      BY TriesPositive DEF Pages, Steps, Idle
    <2>2. /\ page' = [page EXCEPT ![t] = p] /\ state' = [state EXCEPT ![t] = "running"]
          /\ phase = "pages"
      BY <1>4 DEF Begin, Grant, SetState
    <2> HIDE DEF p
    <2>3. page'[t] = p /\ state'[t] = "running" /\ phase' = "pages"
      BY <1>1, <1>2, <2>2 DEF collect
    <2>4. PageOK(t)'
      BY <1>2, <1>3, <2>1, <2>3 DEF PageOK
    <2>5. "running" \in TaskStates
      BY DEF TaskStates
    <2> QED  BY <1>1, <1>2, <1>3, <2>1, <2>2, <2>4, <2>5, PageStep
  <1>5. CASE AwaitPermit(t)
    <2>1. PICK s \in {"sleeping", "queueing", "acquire"} : state' = [state EXCEPT ![t] = s]
      BY <1>5 DEF AwaitPermit, Wait, Wake, SetState
    <2>2. page' = page /\ phase = "pages"
      BY <1>5 DEF AwaitPermit, work
    <2>3. /\ page' = [page EXCEPT ![t] = page[t]] /\ page[t] \in Pages
          /\ page'[t] = page[t] /\ state'[t] = s /\ phase' = "pages"
      BY <1>1, <1>2, <2>1, <2>2 DEF collect
    <2>4. PageOK(t)'
      BY <1>2, <1>3, <2>3 DEF PageOK
    <2>5. s \in TaskStates
      BY DEF TaskStates
    <2> QED  BY <1>1, <1>2, <1>3, <2>1, <2>3, <2>4, <2>5, PageStep
  <1>6. CASE AwaitCancelled(t)
    <2> DEFINE p == [page[t] EXCEPT !.step = "cancelled"]
    <2>1. p \in Pages /\ p.step = "cancelled"
      BY <1>1 DEF Pages, Steps
    <2>2. /\ page' = [page EXCEPT ![t] = p] /\ state' = [state EXCEPT ![t] = "failed"]
          /\ cancelled /\ t \in Waiting
      BY <1>6 DEF AwaitCancelled, GiveUp, SetState
    <2> HIDE DEF p
    <2>3. /\ page'[t] = p /\ state'[t] = "failed" /\ cancelled' = cancelled
          /\ phase' = "pages"
      BY <1>1, <1>2, <2>2 DEF collect, HInv, PageOK, Waiting
    <2>4. PageOK(t)'
      BY <1>2, <1>3, <2>1, <2>2, <2>3 DEF PageOK
    <2>5. "failed" \in TaskStates
      BY DEF TaskStates
    <2> QED  BY <1>1, <1>2, <1>3, <2>1, <2>2, <2>4, <2>5, PageStep
  <1> QED  BY <1>4, <1>5, <1>6 DEF Queueing

\* downloadPage has returned, and its permit goes back.
LEMMA ReturnPermitOK ==
    ASSUME HInv, TypeOK, NEW t \in Tasks, ReturnPermit(t)
    PROVE  HInv'
  <1>1. /\ page \in [Tasks -> Pages] /\ state \in [Tasks -> TaskStates]
        /\ objects \in [Objs -> Bodies]
    BY DEF HInv, HTypeOK, TypeOK, Pages, Steps, Bodies
  <1>2. /\ state[t] = "running" /\ UNCHANGED <<objects, recorded, collect, cancelled>>
    BY DEF ReturnPermit, At, FinishDone, FinishLimited, FinishFailed
  <1>3. phase = "pages" /\ phase' = "pages" /\ ~Ended(t)
    BY <1>2 DEF HInv, PageOK, Ended, collect
  <1>4. PICK s \in TaskStates, step \in Steps :
            /\ state' = [state EXCEPT ![t] = s]
            /\ page' = [page EXCEPT ![t] = [page[t] EXCEPT !.step = step]]
            /\ \/ s = "done" /\ step = page[t].step /\ step = "ok"
               \/ s = "failed" /\ step = page[t].step /\ step \in {"own", "cancelled"}
               \/ s = "acquire" /\ step = "idle" /\ page[t].step = "limited"
               \/ s = "failed" /\ step = "own" /\ page[t].step = "limited"
    <2>1. page[t].step \in Steps /\ page = [page EXCEPT ![t] = [page[t] EXCEPT !.step = page[t].step]]
      BY <1>1 DEF Pages
    <2>2. CASE At(t, "ok") /\ FinishDone(t) /\ UNCHANGED page
      BY <2>1, <2>2 DEF At, FinishDone, SetState, TaskStates
    <2>3. CASE (At(t, "own") \/ At(t, "cancelled")) /\ FinishFailed(t) /\ UNCHANGED page
      BY <2>1, <2>3 DEF At, FinishFailed, SetState, TaskStates
    <2>4. CASE /\ At(t, "limited") /\ FinishLimited(t)
               /\ To(t, IF state'[t] = "failed" THEN "own" ELSE "idle")
      <3>1. PICK s \in {"acquire", "failed"} : state' = [state EXCEPT ![t] = s]
        BY <2>4 DEF FinishLimited, SetState
      <3>2. state'[t] = s
        BY <1>1, <3>1
      <3> QED  BY <2>4, <3>1, <3>2 DEF At, To, TaskStates, Steps
    <2> QED  BY <2>2, <2>3, <2>4 DEF ReturnPermit
  <1> DEFINE p == [page[t] EXCEPT !.step = step]
  <1>5. p \in Pages /\ p.step = step
    BY <1>1 DEF Pages
  <1>6. page' = [page EXCEPT ![t] = p]
    BY <1>4
  <1> HIDE DEF p
  <1>7. page'[t] = p /\ state'[t] = s
    BY <1>1, <1>4, <1>6
  <1>8. PageOK(t)'
    BY <1>2, <1>3, <1>4, <1>5, <1>7 DEF HInv, PageOK
  <1> QED  BY <1>1, <1>2, <1>3, <1>4, <1>5, <1>6, <1>8, PageStep

\* The collector, and whoever else leaves the pages where they are.
LEMMA CollectStepOK ==
    ASSUME HInv, TypeOK, NEW t \in Tasks, Collect(t)
    PROVE  HInv'
  <1>1. UNCHANGED <<state, page, objects, recorded, phase, asked, outer, answer>>
    BY DEF Collect, local, work
  <1>2. /\ received' = received \cup {t} /\ Ended(t)
        /\ firstErr' \in {"none", "own", "cancelled"}
        /\ cancelled => cancelled'
        /\ firstErr' = "none" => firstErr = "none" /\ cancelled' = cancelled /\ state[t] # "failed"
        /\ firstErr' = "cancelled" =>
              firstErr = "cancelled" \/ (page[t].step = "cancelled" /\ firstErr = "none")
    BY DEF Collect, HInv, HTypeOK, PageOK
  <1>3. HTypeOK'
    BY <1>1, <1>2 DEF HInv, HTypeOK
  <1>4. \A u \in Tasks : PageOK(u)'
    BY <1>1, <1>2 DEF HInv, PageOK
  <1>5. CollectOK'
    BY <1>1, <1>2 DEF HInv, HTypeOK, CollectOK, Ended
  <1>6. FirstErrorIsCause'
    BY <1>1, <1>2 DEF HInv, CollectOK, FirstErrorIsCause, PageOK
  <1> QED  BY <1>3, <1>4, <1>5, <1>6 DEF HInv

LEMMA OthersOK ==
    ASSUME HInv, TypeOK, Resolving \/ ReturnPages \/ CancelOuter \/ Tick \/ UNCHANGED hVars
    PROVE  HInv'
  <1>1. /\ UNCHANGED <<state, page, objects, recorded, received, firstErr>>
        /\ cancelled => cancelled'
        /\ phase = "pages" => phase' = "pages"
    BY DEF Resolving, AskAgain, Resolved, ResolveComicFails, ReturnPages, CancelOuter, Tick,
           Elapse, hVars, vars, local, work, collect
  <1>2. HTypeOK'
    <2>1. /\ asked \in 1 .. Tries /\ phase \in {"gg", "pages"} /\ outer \in BOOLEAN
          /\ answer \in [failed : BOOLEAN, pages : SUBSET Tasks, given : BOOLEAN]
      BY DEF HInv, HTypeOK
    <2>2. asked' \in 1 .. Tries
      <3>1. asked' = asked \/ (asked < Tries /\ asked' = asked + 1)
        BY DEF Resolving, AskAgain, Resolved, ResolveComicFails, ReturnPages, CancelOuter, Tick,
               hVars, collect
      <3> QED  BY <2>1, <3>1, TriesPositive
    <2>3. phase' \in {"gg", "pages"}
      BY <2>1 DEF Resolving, AskAgain, Resolved, ResolveComicFails, ReturnPages, CancelOuter, Tick,
                  hVars, collect
    <2>4. outer' \in BOOLEAN
      <3>1. outer' = outer \/ outer' = TRUE
        BY DEF Resolving, AskAgain, Resolved, ResolveComicFails, ReturnPages, CancelOuter, Tick,
               hVars, collect
      <3> QED  BY <2>1, <3>1
    <2>5. answer' \in [failed : BOOLEAN, pages : SUBSET Tasks, given : BOOLEAN]
      <3>1. \/ answer' = answer
            \/ \E failed \in BOOLEAN, pages \in SUBSET Tasks :
                 answer' = [failed |-> failed, pages |-> pages, given |-> TRUE]
        <4>1. CASE ReturnPages
          <5>1. (firstErr # "none") \in BOOLEAN /\ {t \in Tasks : state[t] = "done"} \in SUBSET Tasks
            OBVIOUS
          <5> QED  BY <4>1, <5>1 DEF ReturnPages
        <4>2. CASE ResolveComicFails
          BY <4>2 DEF ResolveComicFails
        <4> QED  BY <4>1, <4>2 DEF Resolving, AskAgain, Resolved, CancelOuter, Tick, hVars, collect
      <3>2. \A failed \in BOOLEAN, pages \in SUBSET Tasks :
               [failed |-> failed, pages |-> pages, given |-> TRUE]
               \in [failed : BOOLEAN, pages : SUBSET Tasks, given : BOOLEAN]
        OBVIOUS
      <3> QED  BY <2>1, <3>1, <3>2, Zenon
    <2> QED  BY <1>1, <2>2, <2>3, <2>4, <2>5 DEF HInv, HTypeOK
  <1>3. \A u \in Tasks : PageOK(u)'
    BY <1>1 DEF HInv, PageOK
  <1>4. CollectOK'
    <2>1. /\ \A t \in received' : Ended(t)'
          /\ firstErr' = "none" => \A t \in received' : state'[t] # "failed"
      BY <1>1 DEF HInv, CollectOK, Ended
    <2>2. firstErr' = "none" /\ cancelled' => outer'
      BY <1>1 DEF HInv, CollectOK, Resolving, AskAgain, Resolved, ResolveComicFails, ReturnPages,
                  CancelOuter, Tick, Elapse, hVars, vars, collect
    <2>3. answer'.given /\ phase' = "pages" => received' = Tasks
      BY <1>1 DEF HInv, CollectOK, Resolving, AskAgain, Resolved, ResolveComicFails, ReturnPages,
                  CancelOuter, Tick, hVars, collect
    <2> QED  BY <2>1, <2>2, <2>3 DEF CollectOK
  <1>5. FirstErrorIsCause'
    BY <1>1 DEF HInv, FirstErrorIsCause, Resolving, AskAgain, Resolved, ResolveComicFails,
                ReturnPages, CancelOuter, Tick, hVars, collect
  <1> QED  BY <1>2, <1>3, <1>4, <1>5 DEF HInv

LEMMA HStepOK == HInv /\ TypeOK /\ [HNext]_hVars => HInv'
  <1> SUFFICES ASSUME HInv, TypeOK, [HNext]_hVars PROVE HInv'
    OBVIOUS
  <1>1. ASSUME NEW t \in Tasks, Serving(t) PROVE HInv'
    BY <1>1, HeadObjectOK, GetOK, PutOK, RecordOK, CallCancelledOK, ReturnPermitOK DEF Serving
  <1>2. ASSUME NEW t \in Tasks, Queueing(t) \/ Collect(t) PROVE HInv'
    BY <1>2, QueueingOK, CollectStepOK
  <1>3. CASE Resolving \/ ReturnPages \/ CancelOuter \/ Tick \/ UNCHANGED hVars
    BY <1>3, OthersOK
  <1> QED  BY <1>1, <1>2, <1>3 DEF HNext

LEMMA HInitOK == HInit => HInv
  <1> SUFFICES ASSUME HInit PROVE HInv
    OBVIOUS
  <1>1. HTypeOK
    <2>1. page \in [Tasks -> [step : {"idle", "head", "get", "put", "record", "ok",
                                     "limited", "own", "cancelled"},
                             tries : 1 .. Tries, buf : {"empty", "partial", "whole", "torn"}]]
      BY TriesPositive DEF HInit, Idle
    <2>2. answer \in [failed : BOOLEAN, pages : SUBSET Tasks, given : BOOLEAN]
      BY DEF HInit, NotAsked
    <2>3. objects \in [Objs -> {"none", "whole", "torn"}]
      BY DEF HInit
    <2>4. phase = "gg" /\ asked = 1 /\ 1 \in 1 .. Tries /\ outer = FALSE
      BY TriesPositive DEF HInit
    <2>5. recorded = {} /\ received = {} /\ firstErr = "none"
      BY DEF HInit
    <2> QED  BY <2>1, <2>2, <2>3, <2>4, <2>5 DEF HTypeOK
  <1>2. \A t \in Tasks : state[t] = "acquire" /\ page[t].step = "idle" /\ t \notin recorded
    BY DEF HInit, Init, Idle
  <1>3. cancelled = FALSE /\ received = {} /\ firstErr = "none" /\ phase = "gg"
    BY DEF HInit, Init
  <1>4. \A t \in Tasks : PageOK(t)
    BY <1>2, <1>3 DEF PageOK
  <1> QED  BY <1>1, <1>3, <1>4 DEF HInv, CollectOK, FirstErrorIsCause

-----------------------------------------------------------------------------
\* ArchiveContent runs its pages through the scheduler as Do is meant to be used:
\* all that is proved of the scheduler holds of it here.
THEOREM HitomiUsesScheduler == HSpec => Spec
  <1>1. SchedulerInv /\ [HNext]_hVars => [Next]_vars
    BY HStepIsSchedulerStep DEF SchedulerInv
  <1>2. SchedulerInv /\ [HNext]_hVars => SchedulerInv'
    BY <1>1, NextOK
  <1> QED  BY <1>1, <1>2, HStartIsSchedulerStart, InitOK, PTL DEF HSpec, Spec

\* The invariant.
THEOREM HitomiInvariant == HSpec => []HInv
  BY HitomiUsesScheduler, SchedulerTypeOK, HInitOK, HStepOK, PTL DEF HSpec

\* HTypeOK, of the state of ArchiveContent.
THEOREM HitomiTypeOK == HSpec => []HTypeOK
  BY HitomiInvariant, PTL DEF HInv

\* The error reported is the cause, not the cancellation that followed it.
THEOREM HitomiFirstError == HSpec => []FirstErrorIsCause
  BY HitomiInvariant, PTL DEF HInv

\* No recorded page is ever tried again.
THEOREM HitomiRecordedIsFinal == HSpec => []RecordedIsFinal
  <1>1. HInv /\ TypeOK => RecordedIsFinal
    BY DEF HInv, HTypeOK, TypeOK, TaskStates, PageOK, RecordedIsFinal
  <1> QED  BY <1>1, HitomiUsesScheduler, SchedulerTypeOK, HitomiInvariant, PTL

-----------------------------------------------------------------------------
(* ArchiveContent keeps its promise.                                         *)

Stored == {k \in Objs : objects[k] # "none"}

\* While a task holds a permit the collector has not heard from it.
LEMMA NotAnswered ==
    ASSUME HInv, NEW t \in Tasks, state[t] = "running"
    PROVE  ~answer.given
  BY DEF HInv, CollectOK, PageOK, Ended

LEMMA PutStores ==
    ASSUME HInv, NEW t \in Tasks, Put(t)
    PROVE  Content!Store(t) \/ UNCHANGED Content!contentVars
  <1>1. UNCHANGED <<recorded, answer>>
    BY DEF Put, PageOnly, collect
  <1>2. CASE UNCHANGED objects
    BY <1>1, <1>2 DEF Content!contentVars
  <1>3. CASE objects' = [objects EXCEPT ![KeyOf[t]] = page[t].buf]
    <2>1. page[t].buf # "none" /\ KeyOf[t] \in Objs /\ objects \in [Objs -> Bodies]
      BY KeysAreObjs DEF HInv, HTypeOK, Bodies, PageOK, Put, At
    <2>2. Stored' = Stored \cup {KeyOf[t]}
      BY <1>3, <2>1 DEF Stored
    <2> QED  BY <1>1, <2>2 DEF Content!Store, Stored
  <1> QED  BY <1>2, <1>3 DEF Put

LEMMA RecordRecords ==
    ASSUME HInv, NEW t \in Tasks, Record(t)
    PROVE  Content!RecordPage(t) \/ UNCHANGED Content!contentVars
  <1>1. UNCHANGED <<objects, answer>> /\ Stored' = Stored
    BY DEF Record, PageOnly, collect, Stored
  <1>2. t \notin recorded /\ KeyOf[t] \in Stored
    BY KeysAreObjs DEF HInv, PageOK, Record, At, Stored
  <1> QED  BY <1>1, <1>2 DEF Record, Content!RecordPage, Content!contentVars, Stored

LEMMA ReturnsAnswer ==
    ASSUME HInv, TypeOK, ReturnPages
    PROVE  \E failed \in BOOLEAN : Content!Return(failed)
  <1>1. \A t \in Tasks : state[t] \in {"done", "failed"}
    BY DEF HInv, CollectOK, ReturnPages, Ended
  <1>2. {t \in Tasks : state[t] = "done"} = recorded
    BY <1>1 DEF HInv, HTypeOK, PageOK
  <1>3. firstErr = "none" => recorded = Tasks
    BY <1>1, <1>2 DEF HInv, CollectOK, ReturnPages
  <1>4. Stored' = Stored /\ recorded' = recorded
    BY DEF ReturnPages, work, Stored
  <1>5. answer' = Content!Answer(firstErr # "none")
    BY <1>2 DEF ReturnPages, Content!Answer
  <1> QED  BY <1>3, <1>4, <1>5 DEF Content!Return, Stored

LEMMA FailsAnswer ==
    ASSUME HInv, TypeOK, ResolveComicFails
    PROVE  Content!Return(TRUE)
  <1>1. recorded = {}
    BY DEF HInv, HTypeOK, TypeOK, PageOK, ResolveComicFails
  <1>2. Stored' = Stored /\ recorded' = recorded
    BY DEF ResolveComicFails, work, Stored
  <1> QED  BY <1>1, <1>2 DEF ResolveComicFails, Content!Return, Content!Answer, Stored

LEMMA Quiet ==
    ASSUME UNCHANGED <<objects, recorded, answer>>
    PROVE  UNCHANGED Content!contentVars
  BY DEF Content!contentVars

LEMMA StepsAreContent == HInv /\ TypeOK /\ [HNext]_hVars => [Content!ContentNext]_Content!contentVars
  <1> SUFFICES ASSUME HInv, TypeOK, [HNext]_hVars, ~UNCHANGED Content!contentVars
               PROVE  Content!ContentNext
    OBVIOUS
  <1>1. ASSUME NEW t \in Tasks, Put(t) PROVE Content!ContentNext
    BY <1>1, PutStores, NotAnswered DEF Put, At, Content!ContentNext
  <1>2. ASSUME NEW t \in Tasks, Record(t) PROVE Content!ContentNext
    BY <1>2, RecordRecords, NotAnswered DEF Record, At, Content!ContentNext
  <1>3. ASSUME NEW t \in Tasks, \/ HeadObject(t) \/ Get(t) \/ GetFails(t) \/ CallCancelled(t)
                                \/ ReturnPermit(t) \/ Queueing(t) \/ Collect(t)
        PROVE  FALSE
    <2>1. UNCHANGED <<objects, recorded, answer>>
      BY <1>3 DEF HeadObject, Get, GetFails, CallCancelled, ReturnPermit, Queueing, Begin,
                  AwaitPermit, AwaitCancelled, Collect, PageOnly, work, collect
    <2> QED  BY <2>1, Quiet
  <1>4. CASE ReturnPages
    BY <1>4, ReturnsAnswer DEF ReturnPages, Content!ContentNext
  <1>5. CASE ResolveComicFails
    BY <1>5, FailsAnswer DEF ResolveComicFails, Content!ContentNext
  <1>6. ASSUME AskAgain \/ Resolved \/ CancelOuter \/ Tick \/ UNCHANGED hVars
        PROVE  FALSE
    BY <1>6, Quiet DEF AskAgain, Resolved, CancelOuter, Tick, hVars, work, collect
  <1> QED  BY <1>1, <1>2, <1>3, <1>4, <1>5, <1>6 DEF HNext, Serving, Resolving

\* hitomi's ArchiveContent does what ContentArchive promises the worker: objects
\* before records, records once, a complete answer when there is no error, and
\* silence after the answer.
THEOREM HitomiImplementsContent == HSpec => HitomiImplements
  <1>1. HInit => Content!ContentInit
    <2> SUFFICES ASSUME HInit PROVE Content!ContentInit
      OBVIOUS
    <2>1. Stored \subseteq {KeyOf[p] : p \in Tasks}
      BY DEF Stored, Objs
    <2> QED  BY <2>1 DEF HInit, NotAsked, Stored, Content!ContentInit, Content!NoAnswer
  <1> QED  BY <1>1, StepsAreContent, HitomiUsesScheduler, SchedulerTypeOK, HitomiInvariant, PTL
           DEF HSpec, HitomiImplements, Content!ContentSpec
-----------------------------------------------------------------------------
(* jmcomic.                                                                  *)
Chapter == ImageKeys \in Seq(JObjs)

\* The number of pages recorded, going by where the loop stands.
Behind == IF doing \in {"scramble", "next"} THEN position ELSE position - 1

JInv ==
    /\ jObjects \in [JObjs -> {"none", "whole"}]
    /\ position \in 0 .. Len(ImageKeys)
    /\ doing \in {"scramble", "next", "head", "download", "put", "record"}
    /\ doing = "scramble" => position = 0
    /\ doing \notin {"scramble", "next"} => position > 0
    /\ doing = "record" => jObjects[Key] # "none"
    /\ jRecorded = 1 .. Behind

Kept == {k \in JObjs : jObjects[k] # "none"}

-----------------------------------------------------------------------------
LEMMA PageInHand ==
    ASSUME Chapter, JInv, position > 0
    PROVE  /\ position \in DOMAIN ImageKeys /\ Key \in JObjs
           /\ DOMAIN ImageKeys = 1 .. Len(ImageKeys) /\ Len(ImageKeys) \in Nat
           /\ position \in Nat
  BY DEF Chapter, JInv, Key, JObjs

LEMMA JInitOK == JInit /\ Chapter => JInv /\ JContent!ContentInit
  <1> SUFFICES ASSUME JInit, Chapter PROVE JInv /\ JContent!ContentInit
    OBVIOUS
  <1>1. Len(ImageKeys) \in Nat
    BY DEF Chapter
  <1>2. JInv
    BY <1>1 DEF JInit, JIdle, JInv, Behind
  <1>3. JContent!ContentInit
    BY DEF JInit, JContent!ContentInit, JContent!NoAnswer, JObjs
  <1> QED  BY <1>2, <1>3

\* Steps that only move the loop: another domain, the next page, a page looked at.
LEMMA LoopStep ==
    ASSUME Chapter, JInv, UNCHANGED <<jObjects, jRecorded>>,
           position' \in 0 .. Len(ImageKeys),
           doing' \in {"scramble", "next", "head", "download", "put", "record"},
           doing' = "scramble" => position' = 0,
           doing' \notin {"scramble", "next"} => position' > 0,
           doing' = "record" => jObjects'[ImageKeys[position']] # "none",
           Behind' = Behind
    PROVE  JInv'
  BY DEF JInv, Key, JObjs

\* The object of the page in hand is stored.
LEMMA StoreStep ==
    ASSUME Chapter, JInv, Doing("put"),
           jObjects' = [jObjects EXCEPT ![Key] = "whole"], UNCHANGED <<jRecorded, jAnswer>>
    PROVE  /\ jObjects' \in [JObjs -> {"none", "whole"}] /\ jObjects'[Key] # "none"
           /\ JContent!ContentNext
  <1>1. position > 0
    BY DEF JInv, Doing
  <1>2. position \in DOMAIN ImageKeys /\ Key \in JObjs
    BY <1>1, PageInHand
  <1>3. jObjects \in [JObjs -> {"none", "whole"}]
    BY DEF JInv
  <1>4. jObjects' \in [JObjs -> {"none", "whole"}] /\ jObjects'[Key] # "none"
    BY <1>2, <1>3
  <1>5. Kept' = Kept \cup {ImageKeys[position]}
    BY <1>2, <1>3 DEF Kept, Key, JObjs
  <1>6. PICK p \in DOMAIN ImageKeys : JContent!Store(p)
    <2>1. PICK p \in DOMAIN ImageKeys : p = position
      BY <1>2
    <2>2. JContent!Store(p)
      BY <1>5, <2>1 DEF Kept, JContent!Store
    <2> QED  BY <2>2
  <1>7. ~jAnswer.given
    BY DEF Doing
  <1>8. JContent!ContentNext
    BY <1>6, <1>7 DEF JContent!ContentNext
  <1> QED  BY <1>4, <1>8

LEMMA PutPageOK ==
    ASSUME Chapter, JInv, PutPage
    PROVE  JInv' /\ JContent!ContentNext
  <1>1. /\ Doing("put") /\ jObjects' = [jObjects EXCEPT ![Key] = "whole"]
        /\ UNCHANGED <<jRecorded, jAnswer, position>> /\ doing' = "record"
    BY DEF PutPage, Go
  <1>2. /\ jObjects' \in [JObjs -> {"none", "whole"}] /\ jObjects'[Key] # "none"
        /\ JContent!ContentNext
    BY <1>1, StoreStep
  <1>3. Behind' = Behind
    BY <1>1 DEF Behind, Doing
  <1> QED  BY <1>1, <1>2, <1>3 DEF JInv, Key, JObjs, Doing

LEMMA PutReachesOK ==
    ASSUME Chapter, JInv, PutReaches
    PROVE  JInv' /\ JContent!ContentNext
  <1>1. /\ Doing("put") /\ jObjects' = [jObjects EXCEPT ![Key] = "whole"]
        /\ UNCHANGED <<jRecorded, jAnswer, position, doing>>
    BY DEF PutReaches, jLocal
  <1>2. /\ jObjects' \in [JObjs -> {"none", "whole"}] /\ jObjects'[Key] # "none"
        /\ JContent!ContentNext
    BY <1>1, StoreStep
  <1>3. Behind' = Behind
    BY <1>1 DEF Behind
  <1> QED  BY <1>1, <1>2, <1>3 DEF JInv, Key, JObjs, Doing

LEMMA JRecordOK ==
    ASSUME Chapter, JInv, RecordThenNext
    PROVE  JInv' /\ JContent!ContentNext
  <1>1. /\ doing = "record" /\ ~jAnswer.given /\ doing' = "next"
        /\ jRecorded' = jRecorded \cup {position}
        /\ UNCHANGED <<jObjects, jAnswer, position>>
    BY DEF RecordThenNext, Doing, Go
  <1>2. /\ position > 0 /\ jObjects[Key] # "none" /\ jRecorded = 1 .. (position - 1)
        /\ position \in DOMAIN ImageKeys /\ position \in Nat /\ Key \in JObjs
    BY <1>1, PageInHand DEF JInv, Behind
  <1>3. position \notin jRecorded /\ jRecorded' = 1 .. position
    BY <1>1, <1>2
  <1>4. JInv'
    BY <1>1, <1>3 DEF JInv, Behind, JObjs
  <1>5. ImageKeys[position] \in Kept /\ Kept' = Kept
    BY <1>1, <1>2 DEF Kept, Key, JObjs
  <1>6. JContent!RecordPage(position)
    BY <1>1, <1>3, <1>5 DEF Kept, JContent!RecordPage
  <1> QED  BY <1>1, <1>2, <1>4, <1>6 DEF JContent!ContentNext

\* An answer returns what is recorded; without an error, that is the whole chapter.
LEMMA AnswersOK ==
    ASSUME Chapter, JInv, ~jAnswer.given, NEW failed \in BOOLEAN, Answers(failed),
           ~failed => doing = "next" /\ ~(position < Len(ImageKeys))
    PROVE  JInv' /\ JContent!ContentNext
  <1>1. /\ jAnswer' = [failed |-> failed, pages |-> jRecorded, given |-> TRUE]
        /\ UNCHANGED <<jObjects, jRecorded, position, doing>>
    BY DEF Answers, jLocal
  <1>2. JInv'
    BY <1>1 DEF JInv, Behind, Key, JObjs
  <1>3. ~failed => jRecorded = DOMAIN ImageKeys
    BY DEF JInv, Behind, Chapter
  <1>4. JContent!Return(failed)
    BY <1>1, <1>3 DEF JContent!Return, JContent!Answer, JObjs
  <1> QED  BY <1>2, <1>4 DEF JContent!ContentNext

LEMMA JStepOK ==
    ASSUME Chapter, JInv, [JNext]_jVars
    PROVE  JInv' /\ [JContent!ContentNext]_JContent!contentVars
  <1>1. ASSUME UNCHANGED <<jObjects, jRecorded, jAnswer>>
        PROVE  UNCHANGED JContent!contentVars
    BY <1>1 DEF JContent!contentVars, JObjs
  <1>2. Len(ImageKeys) \in Nat /\ position \in Nat
    BY DEF Chapter, JInv
  <1>3. CASE TryNextDomain \/ StopOuter \/ UNCHANGED jVars
    <2>1. UNCHANGED <<jObjects, jRecorded, jAnswer, position, doing>>
      BY <1>3 DEF TryNextDomain, StopOuter, jVars, jLocal
    <2>2. JInv'
      BY <2>1 DEF JInv, Behind, Key, JObjs
    <2> QED  BY <1>1, <2>1, <2>2
  <1>4. CASE ScrambleKnown
    <2>1. /\ UNCHANGED <<jObjects, jRecorded, jAnswer, position>>
          /\ doing = "scramble" /\ doing' = "next"
      BY <1>4 DEF ScrambleKnown, Doing, Go
    <2> QED  BY <1>1, <2>1, LoopStep DEF JInv, Behind
  <1>5. CASE NextPage
    <2>1. CASE position < Len(ImageKeys) /\ ~jOuter
      <3>1. /\ UNCHANGED <<jObjects, jRecorded, jAnswer>> /\ position' = position + 1
            /\ doing = "next" /\ doing' = "head"
        BY <1>5, <2>1 DEF NextPage, Doing
      <3>2. Behind' = Behind
        BY <1>2, <3>1 DEF Behind
      <3> QED  BY <1>1, <1>2, <2>1, <3>1, <3>2, LoopStep
    <2>2. CASE position < Len(ImageKeys) /\ jOuter
      BY <1>5, <2>2, AnswersOK DEF NextPage, Doing
    <2>3. CASE ~(position < Len(ImageKeys))
      BY <1>5, <2>3, AnswersOK DEF NextPage, Doing
    <2> QED  BY <2>1, <2>2, <2>3
  <1>6. CASE HeadPage
    <2>1. /\ UNCHANGED <<jObjects, jRecorded, jAnswer, position>> /\ doing = "head"
          /\ doing' \in {"download", "record"}
          /\ doing' = "record" => jObjects[Key] # "none"
      BY <1>6 DEF HeadPage, Doing, Go
    <2>2. Behind' = Behind
      BY <2>1 DEF Behind
    <2>3. doing' = "record" => jObjects'[ImageKeys[position']] # "none"
      BY <2>1 DEF Key
    <2> QED  BY <1>1, <2>1, <2>2, <2>3, LoopStep DEF JInv
  <1>7. CASE Downloaded
    <2>1. /\ UNCHANGED <<jObjects, jRecorded, jAnswer, position>> /\ doing = "download"
          /\ doing' = "put"
      BY <1>7 DEF Downloaded, Doing, Go
    <2> QED  BY <1>1, <2>1, LoopStep DEF JInv, Behind
  <1>8. CASE ScrambleFails \/ DownloadFails \/ PageCallFails
    BY <1>8, AnswersOK DEF ScrambleFails, DownloadFails, PageCallFails, Doing
  <1> QED  BY <1>3, <1>4, <1>5, <1>6, <1>7, <1>8, PutPageOK, PutReachesOK, JRecordOK
           DEF JNext, JWork

\* The loop of ArchiveContent takes the pages in order: the recorded ones are the
\* first of the chapter, whichever call fails and whatever is cancelled.
THEOREM JmcomicInvariant ==
    ASSUME Chapter
    PROVE  JSpec => []JInv
  <1>1. JInit => JInv
    BY JInitOK
  <1>2. JInv /\ [JNext]_jVars => JInv'
    BY JStepOK
  <1> QED  BY <1>1, <1>2, PTL DEF JSpec

\* jmcomic's ArchiveContent does what ContentArchive promises the worker: objects
\* before records, records once, a complete answer when there is no error, what
\* was recorded when there is one, and silence after the answer.
THEOREM JmcomicImplementsContent ==
    ASSUME Chapter
    PROVE  JSpec => JmcomicImplements
  <1>1. JInit => JContent!ContentInit
    BY JInitOK
  <1>2. JInv /\ [JNext]_jVars => [JContent!ContentNext]_JContent!contentVars
    BY JStepOK
  <1> QED  BY <1>1, <1>2, JmcomicInvariant, PTL
           DEF JSpec, JmcomicImplements, JContent!ContentSpec
===============================================================================
