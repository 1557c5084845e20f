------------------------------ MODULE MCContent ------------------------------
(* ArchiveContent of one document, of either source: two pages with the same  *)
(* hash, so that one may find the object the other stored.  For hitomi two    *)
(* permits of which one to begin with, two attempts of a request and of a     *)
(* task; for jmcomic two domains.                                             *)
EXTENDS HitomiArchive, JmcomicArchive

CONSTANTS t1, t2, k1

MCTasks     == {t1, t2}
MCKeyOf     == [t \in MCTasks |-> k1]
MCImageKeys == <<k1, k1>>

VARIABLE source

mcVars == <<hVars, jVars, source>>

\* A document has one source; the other's handler does not move.
MCInit == HInit /\ JInit /\ source \in {"hitomi", "jmcomic"}

Hitomi(A)  == source = "hitomi" /\ A /\ UNCHANGED <<jVars, source>>
Jmcomic(A) == source = "jmcomic" /\ A /\ UNCHANGED <<hVars, source>>

MCNext == Hitomi(HNext) \/ Jmcomic(JNext)

\* The fairness of both modules.
MCFairness ==
    /\ WF_mcVars(Hitomi(Resolving)) /\ WF_mcVars(Hitomi(ReturnPages))
    /\ WF_mcVars(Hitomi(Tick)) /\ WF_mcVars(Jmcomic(JWork))
    /\ \A t \in Tasks : /\ WF_mcVars(Hitomi(Queueing(t)))
                        /\ WF_mcVars(Hitomi(Serving(t)))
                        /\ WF_mcVars(Hitomi(Collect(t)))

MCSpec     == MCInit /\ [][MCNext]_mcVars
MCFairSpec == MCSpec /\ MCFairness

\* ArchiveContent returns, however often the source refuses, and whoever cancels:
\* the worker, one goroutine for all documents, is never stuck in one of them.
ArchiveContentReturns == <>(answer.given \/ jAnswer.given)
===============================================================================
