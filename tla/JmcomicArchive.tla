---------------------------- MODULE JmcomicArchive ----------------------------
(* jmcomic's ArchiveContent: one page after the other, in the order of the    *)
(* chapter.  Its client knows no context, and asks each domain in turn once.  *)
EXTENDS Naturals, Sequences

CONSTANTS
    ImageKeys,   \* the object keys of the chapter's pages, in order (resolvePages):
                 \* md5 of chapter, time and file name.  A page is its place in it.
    Domains      \* how many domains the API and the images each have, at least 1

VARIABLES
    jObjects, jRecorded, jAnswer,
    jOuter,      \* the worker's context is cancelled
    position,    \* the page in hand; 0 before the first
    doing,       \* the call under way, or "next" between two pages
    tried        \* domains that have failed in this call

jLocal == <<position, doing, tried>>
jVars  == <<jObjects, jRecorded, jAnswer, jOuter, jLocal>>

JObjs == {ImageKeys[p] : p \in DOMAIN ImageKeys}

JIdle == position = 0 /\ doing = "scramble" /\ tried = 0

JInit ==
    /\ jObjects \in [JObjs -> {"none", "whole"}]
    /\ jRecorded = {} /\ jOuter = FALSE
    /\ jAnswer = [failed |-> FALSE, pages |-> {}, given |-> FALSE]
    /\ JIdle

Doing(step) == doing = step /\ ~jAnswer.given
Key == ImageKeys[position]

Go(step) == doing' = step /\ tried' = 0 /\ UNCHANGED position

Answers(failed) ==
    /\ jAnswer' = [failed |-> failed, pages |-> jRecorded, given |-> TRUE]
    /\ UNCHANGED <<jObjects, jRecorded, jOuter, jLocal>>

\* Another domain is asked: one that cannot be reached, refuses, or sends what
\* cannot be decoded.  Each answer is read whole before it is used.
TryNextDomain ==
    /\ Doing("scramble") \/ Doing("download")
    /\ tried + 1 < Domains
    /\ tried' = tried + 1
    /\ UNCHANGED <<jObjects, jRecorded, jAnswer, jOuter, position, doing>>

\* Metadata that is no chapter's, a cancelled context, every domain failing.
ScrambleFails == Doing("scramble") /\ Answers(TRUE)

ScrambleKnown ==
    /\ Doing("scramble")
    /\ Go("next")
    /\ UNCHANGED <<jObjects, jRecorded, jAnswer, jOuter>>

NextPageSkips ==  \* mutant: a page that could not be stored is passed over
    /\ Doing("next") \/ Doing("put")
    /\ IF position < Len(ImageKeys)
       THEN /\ position' = position + 1 /\ doing' = "head" /\ tried' = 0
            /\ UNCHANGED <<jObjects, jRecorded, jAnswer, jOuter>>
       ELSE Answers(FALSE)

\* The context is looked at before each page.
NextPage ==
    /\ Doing("next")
    /\ IF position < Len(ImageKeys)
       THEN IF jOuter THEN Answers(TRUE)
            ELSE /\ position' = position + 1 /\ doing' = "head" /\ tried' = 0
                 /\ UNCHANGED <<jObjects, jRecorded, jAnswer, jOuter>>
       ELSE Answers(FALSE)

HeadPage ==
    /\ Doing("head") /\ ~jOuter
    /\ Go(IF jObjects[Key] = "none" THEN "download" ELSE "record")
    /\ UNCHANGED <<jObjects, jRecorded, jAnswer, jOuter>>

\* The download goes on under a cancelled context.
Downloaded ==
    /\ Doing("download")
    /\ Go("put")
    /\ UNCHANGED <<jObjects, jRecorded, jAnswer, jOuter>>

DownloadFails == Doing("download") /\ tried + 1 = Domains /\ Answers(TRUE)

PutPage ==
    /\ Doing("put") /\ ~jOuter
    /\ jObjects' = [jObjects EXCEPT ![Key] = "whole"]
    /\ Go("record")
    /\ UNCHANGED <<jRecorded, jAnswer, jOuter>>

\* The object is written, but its answer is still out, and may be lost.
PutReaches ==
    /\ Doing("put") /\ ~jOuter
    /\ jObjects' = [jObjects EXCEPT ![Key] = "whole"]
    /\ UNCHANGED <<jRecorded, jAnswer, jOuter, jLocal>>

\* HEAD, encoding, PUT or the hook fail.
PageCallFails ==
    /\ Doing("head") \/ Doing("put") \/ Doing("record")
    /\ Answers(TRUE)

RecordThenNext ==
    /\ Doing("record") /\ ~jOuter
    /\ jRecorded' = jRecorded \cup {position}
    /\ Go("next")
    /\ UNCHANGED <<jObjects, jAnswer, jOuter>>

StopOuter ==
    /\ ~jOuter /\ ~jAnswer.given
    /\ jOuter' = TRUE
    /\ UNCHANGED <<jObjects, jRecorded, jAnswer, jLocal>>

JWork ==
    \/ TryNextDomain \/ ScrambleFails \/ ScrambleKnown \/ NextPage \/ HeadPage
    \/ Downloaded \/ DownloadFails \/ PutPage \/ PageCallFails \/ RecordThenNext

JNext == JWork \/ PutReaches \/ StopOuter

JSpec     == JInit /\ [][JNext]_jVars
JFairSpec == JSpec /\ WF_jVars(JWork)
-----------------------------------------------------------------------------
JContent == INSTANCE ContentArchive WITH
    Pages <- DOMAIN ImageKeys, KeyOf <- ImageKeys,
    stored <- {k \in JObjs : jObjects[k] # "none"},
    recorded <- jRecorded, answer <- jAnswer

\* One page after the other keeps the same promise as concurrent pages do: what
\* an error returns is what was recorded up to it, and no page is passed over.
JmcomicImplements == JContent!ContentSpec
===============================================================================
