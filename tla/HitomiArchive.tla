----------------------------- MODULE HitomiArchive -----------------------------
(* hitomi's ArchiveContent: one goroutine per page, each a task of the         *)
(* scheduler, and a collector that cancels the rest on the first error.  A     *)
(* page is looked up in the object store, downloaded with retries, stored, and *)
(* recorded through the hook.  A step is one call or one answer.               *)
EXTENDS Scheduler

CONSTANTS
    KeyOf,    \* the object key of each page: pages with one hash share a key
    Tries     \* attempts of one HTTP request, 5 in the code

ASSUME TriesPositive == Tries \in Nat \ {0}

VARIABLES
    phase,      \* "gg": the page addresses are being fetched; then "pages"
    asked,      \* attempts made to fetch them
    page,       \* where each page's task stands, its attempts, its buffer
    objects,    \* what is stored under each key
    recorded,   \* the pages recorded through the hook
    received,   \* the pages whose result the collector has seen
    firstErr,   \* "none", an error of a page's "own", or of its "cancelled" context
    outer,      \* the worker's own context is cancelled
    answer      \* of ArchiveContent

work    == <<page, objects, recorded>>
collect == <<phase, asked, received, firstErr, outer, answer>>
hVars   == <<vars, work, collect>>

NotAsked == [failed |-> FALSE, pages |-> {}, given |-> FALSE]

Idle == [step |-> "idle", tries |-> 1, buf |-> "empty"]

Objs == {KeyOf[t] : t \in Tasks}

HInit ==
    /\ Init
    /\ phase = "gg" /\ asked = 1
    /\ page = [t \in Tasks |-> Idle]
    /\ objects \in [Objs -> {"none", "whole"}]
    /\ recorded = {} /\ received = {}
    /\ firstErr = "none" /\ outer = FALSE
    /\ answer = NotAsked

\* FetchGG: getBytes tries again after a broken or refused answer, not after 404.
AskAgain ==
    /\ phase = "gg" /\ ~answer.given
    /\ ~cancelled /\ asked < Tries
    /\ asked' = asked + 1
    /\ UNCHANGED <<vars, work, phase, received, firstErr, outer, answer>>

Resolved ==
    /\ phase = "gg" /\ ~answer.given
    /\ ~cancelled
    /\ phase' = "pages"
    /\ UNCHANGED <<vars, work, asked, received, firstErr, outer, answer>>

\* Unreadable metadata, no addresses, an address that cannot be computed.
ResolveComicFails ==
    /\ phase = "gg" /\ ~answer.given
    /\ answer' = [failed |-> TRUE, pages |-> {}, given |-> TRUE]
    /\ UNCHANGED <<vars, work, phase, asked, received, firstErr, outer>>

\* A permit is granted: downloadPage begins, with a buffer of its own.
Begin(t) ==
    /\ phase = "pages"
    /\ Grant(t)
    /\ page' = [page EXCEPT ![t] = [Idle EXCEPT !.step = "head"]]
    /\ UNCHANGED <<objects, recorded, collect>>

AwaitPermit(t) == phase = "pages" /\ (Wait(t) \/ Wake(t)) /\ UNCHANGED <<work, collect>>

AwaitCancelled(t) ==
    /\ GiveUp(t)
    /\ page' = [page EXCEPT ![t].step = "cancelled"]
    /\ UNCHANGED <<objects, recorded, collect>>

At(t, step) == state[t] = "running" /\ page[t].step = step
To(t, step) == page' = [page EXCEPT ![t].step = step]
Now(t, p)   == page' = [page EXCEPT ![t] = p]
PageOnly    == UNCHANGED <<vars, collect>>

\* The object is there under the page's hash, is not, or the answer is an error.
HeadObject(t) ==
    /\ At(t, "head") /\ ~cancelled
    /\ To(t, IF objects[KeyOf[t]] = "none" THEN "get" ELSE "record") \/ To(t, "own")
    /\ PageOnly /\ UNCHANGED <<objects, recorded>>

\* DownloadPage copies every attempt into one buffer: a transfer that breaks off
\* leaves what it brought, and the next one goes behind it.
Transferred(buf) == IF buf = "empty" THEN "whole" ELSE "torn"

Get(t) ==
    /\ At(t, "get") /\ ~cancelled
    /\ \/ Now(t, [step |-> "put", tries |-> page[t].tries, buf |-> Transferred(page[t].buf)])
       \/ To(t, "limited")   \* 429 or 503
       \/ To(t, "own")       \* 404
    /\ PageOnly /\ UNCHANGED <<objects, recorded>>

\* No connection, a bad status, or a body that breaks off.
GetFails(t) ==
    /\ At(t, "get") /\ ~cancelled
    /\ \/ /\ page[t].tries < Tries
          /\ \E buf \in {page[t].buf, "partial"} :
               Now(t, [step |-> "get", tries |-> page[t].tries + 1, buf |-> buf])
       \/ page[t].tries >= Tries /\ To(t, "own")
    /\ PageOnly /\ UNCHANGED <<objects, recorded>>

RecordFirst(t) ==  \* mutant: the page is recorded whether or not PutObject succeeds
    /\ At(t, "put") /\ ~cancelled
    /\ To(t, "record")
    /\ \/ objects' = [objects EXCEPT ![KeyOf[t]] = page[t].buf]
       \/ UNCHANGED objects
    /\ PageOnly /\ UNCHANGED recorded

\* PutObject; its answer may be lost after the object is written.
Put(t) ==
    /\ At(t, "put") /\ ~cancelled
    /\ \/ To(t, "record") /\ objects' = [objects EXCEPT ![KeyOf[t]] = page[t].buf]
       \/ To(t, "own") /\ objects' = [objects EXCEPT ![KeyOf[t]] = page[t].buf]
       \/ To(t, "own") /\ UNCHANGED objects
    /\ PageOnly /\ UNCHANGED recorded

RecordRollsOn(t) ==  \* mutant: the hook's error comes after its commit
    /\ At(t, "record") /\ ~cancelled
    /\ recorded' = recorded \cup {t}
    /\ To(t, "ok") \/ To(t, "limited")
    /\ PageOnly /\ UNCHANGED objects

\* recordPage; the hook may refuse, as it does once the document is deleted.
Record(t) ==
    /\ At(t, "record") /\ ~cancelled
    /\ \/ To(t, "ok") /\ recorded' = recorded \cup {t}
       \/ To(t, "own") /\ UNCHANGED recorded
    /\ PageOnly /\ UNCHANGED objects

\* A call under a cancelled context fails, wherever the page is.
CallCancelled(t) ==
    /\ \E step \in {"head", "get", "put", "record"} : At(t, step)
    /\ cancelled
    /\ To(t, "cancelled")
    /\ PageOnly /\ UNCHANGED <<objects, recorded>>

\* downloadPage returns, and finish sees the error it returned; attempts used up
\* on rate limits end the task with an error of its own.
ReturnPermit(t) ==
    /\ \/ At(t, "ok") /\ FinishDone(t) /\ UNCHANGED page
       \/ At(t, "limited") /\ FinishLimited(t)
          /\ To(t, IF state'[t] = "failed" THEN "own" ELSE "idle")
       \/ (At(t, "own") \/ At(t, "cancelled")) /\ FinishFailed(t) /\ UNCHANGED page
    /\ UNCHANGED <<objects, recorded, collect>>

CollectAnyError(t) ==  \* mutant: every error replaces the one before
    /\ Ended(t) /\ t \notin received
    /\ received' = received \cup {t}
    /\ IF state[t] = "failed"
       THEN firstErr' = page[t].step /\ cancelled' = TRUE
       ELSE UNCHANGED <<firstErr, cancelled>>
    /\ UNCHANGED <<shared, local, fresh, work, phase, asked, outer, answer>>

\* The collector takes results in whatever order the goroutines sent them.
Collect(t) ==
    /\ Ended(t) /\ t \notin received
    /\ received' = received \cup {t}
    /\ IF state[t] = "failed" /\ firstErr = "none"
       THEN firstErr' = page[t].step /\ cancelled' = TRUE
       ELSE UNCHANGED <<firstErr, cancelled>>
    /\ UNCHANGED <<shared, local, fresh, work, phase, asked, outer, answer>>

\* results is closed when every goroutine is done, and the collector's loop ends.
ReturnPages ==
    /\ phase = "pages" /\ ~answer.given
    /\ received = Tasks
    /\ answer' = [failed |-> firstErr # "none", given |-> TRUE,
                  pages |-> {t \in Tasks : state[t] = "done"}]
    /\ UNCHANGED <<vars, work, phase, asked, received, firstErr, outer>>

\* The service stops.
CancelOuter ==
    /\ ~outer /\ ~answer.given
    /\ outer' = TRUE /\ cancelled' = TRUE
    /\ UNCHANGED <<shared, local, fresh, work, phase, asked, received, firstErr, answer>>

Tick == Elapse /\ UNCHANGED <<work, collect>>

Resolving   == AskAgain \/ Resolved \/ ResolveComicFails
Queueing(t) == Begin(t) \/ AwaitPermit(t) \/ AwaitCancelled(t)
Serving(t)  == \/ HeadObject(t) \/ Get(t) \/ GetFails(t) \/ Put(t) \/ Record(t)
               \/ CallCancelled(t) \/ ReturnPermit(t)

HNext ==
    \/ Resolving
    \/ \E t \in Tasks : Queueing(t) \/ Serving(t) \/ Collect(t)
    \/ ReturnPages \/ CancelOuter \/ Tick

\* As in Scheduler; the retries of a request are counted, and those to the source have
\* a timeout.  The calls to S3 have none, nor has the worker's context a deadline: that
\* each of them ends is assumed of the storage, which answers or breaks off.
HFairness ==
    /\ WF_hVars(Resolving) /\ WF_hVars(ReturnPages) /\ WF_hVars(Tick)
    /\ \A t \in Tasks :
         WF_hVars(Queueing(t)) /\ WF_hVars(Serving(t)) /\ WF_hVars(Collect(t))

HSpec     == HInit /\ [][HNext]_hVars
HFairSpec == HSpec /\ HFairness
-----------------------------------------------------------------------------
HTypeOK ==
    /\ phase \in {"gg", "pages"} /\ asked \in 1 .. Tries
    /\ page \in [Tasks -> [step : {"idle", "head", "get", "put", "record", "ok",
                                   "limited", "own", "cancelled"},
                           tries : 1 .. Tries, buf : {"empty", "partial", "whole", "torn"}]]
    /\ objects \in [Objs -> {"none", "whole", "torn"}]
    /\ recorded \subseteq Tasks /\ received \subseteq Tasks
    /\ firstErr \in {"none", "own", "cancelled"} /\ outer \in BOOLEAN
    /\ answer \in [failed : BOOLEAN, pages : SUBSET Tasks, given : BOOLEAN]

Content == INSTANCE ContentArchive WITH
    Pages <- Tasks, stored <- {k \in Objs : objects[k] # "none"}

\* Concurrent pages, rate limits and retries, and the cancellation of the rest
\* on the first error keep the promise of ArchiveContent: in particular it returns
\* only when no goroutine is left that could still store or record a page, with
\* exactly the pages whose AddPage went through.
HitomiImplements == Content!ContentSpec

\* The error ArchiveContent returns, and failDocument shows to the client, is the
\* one a page failed with, and not the "context canceled" of a page that was
\* stopped because of it, unless it was the service that was stopped.
FirstErrorIsCause == firstErr = "cancelled" => outer

\* A page that has been recorded is not tried again, since the hook would refuse
\* it and fail the document: a rate limit never strikes behind the record.
RecordedIsFinal ==
    \A t \in recorded : page[t].step = "ok" /\ state[t] \in {"running", "done"}

\* The object stored under a page's hash is that page.
ObjectsIntact == \A k \in Objs : objects[k] # "torn"
===============================================================================
