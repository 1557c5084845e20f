---------------------------- MODULE ContentArchive ----------------------------
(* What a source's ArchiveContent promises to the worker, however it goes     *)
(* about it: an object is stored before the pages that point to it are        *)
(* recorded, a page is recorded once, it answers without an error only when   *)
(* every page is, it always answers with the pages it recorded, and once it    *)
(* has answered it is quiet.                                                   *)
CONSTANTS
    Pages,    \* the pages of one document
    KeyOf     \* the object key of each page; pages with one hash share a key

VARIABLES stored, recorded, answer

contentVars == <<stored, recorded, answer>>

NoAnswer == [failed |-> FALSE, pages |-> {}, given |-> FALSE]

Answer(failed) == [failed |-> failed, pages |-> recorded, given |-> TRUE]

\* Objects of an earlier run of the document may be there, records are not.
ContentInit ==
    /\ stored \subseteq {KeyOf[p] : p \in Pages}
    /\ recorded = {}
    /\ answer = NoAnswer

Store(p) ==
    /\ stored' = stored \cup {KeyOf[p]}
    /\ UNCHANGED <<recorded, answer>>

RecordPage(p) ==
    /\ KeyOf[p] \in stored /\ p \notin recorded
    /\ recorded' = recorded \cup {p}
    /\ UNCHANGED <<stored, answer>>

Return(failed) ==
    /\ ~failed => recorded = Pages
    /\ answer' = Answer(failed)
    /\ UNCHANGED <<stored, recorded>>

ContentNext ==
    /\ ~answer.given
    /\ \/ \E p \in Pages : Store(p) \/ RecordPage(p)
       \/ \E failed \in BOOLEAN : Return(failed)

ContentSpec == ContentInit /\ [][ContentNext]_contentVars
===============================================================================
