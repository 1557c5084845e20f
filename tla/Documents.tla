------------------------------ MODULE Documents ------------------------------
(* The document of internal/documents: its statuses, the graph of legal      *)
(* status changes, and what each store operation does to one document.       *)
(* Titles, metadata bodies, page sizes and timestamps are left out: nothing  *)
(* in the archive's control flow depends on them.                            *)
EXTENDS Integers, FiniteSets

CONSTANTS
    Identities,   \* the (source, source_document_id) pairs clients ask for
    Indexes,      \* page indexes
    Keys,         \* object keys of pages, named by content hash
    Totals        \* numbers of pages that a source may announce

ASSUME PageNumbers == Indexes \subseteq Nat /\ Totals \subseteq Nat

Status == {"queued", "resolving", "downloading", "archived", "failed",
           "deleted", "purged"}

\* Statuses an ordinary read or update may see; deleted and purged are hidden.
Visible(status) ==
    status \in {"queued", "resolving", "downloading", "archived", "failed"}

\* The pairs of different statuses that canTransitionDocumentStatus accepts.
Edges ==
    ({"queued"}      \X {"resolving", "failed", "deleted"})           \cup
    ({"resolving"}   \X {"downloading", "archived", "failed", "deleted"}) \cup
    ({"downloading"} \X {"archived", "failed", "deleted"})            \cup
    ({"archived", "failed"} \X {"queued", "deleted"})                 \cup
    ({"deleted"}     \X {"purged"})

\* A status may always be set again to itself.
CanTransition(from, to) == from = to \/ <<from, to>> \in Edges

\* The page slots of a document that hold a page, with the object key of each.
PageMap == UNION {[S -> Keys] : S \in {T \in SUBSET Indexes : IsFiniteSet(T)}}

NoPages == [p \in {} |-> p]

\* done and total are Progress; error says whether Error is non-empty.
Document == [identity : Identities, status : Status, pages : PageMap,
             done : Nat, total : Nat, error : BOOLEAN]

\* Pages handed over as a list are numbered 0, 1, ... in the order of the list.
Contiguous(pages) == DOMAIN pages = 0 .. (Cardinality(DOMAIN pages) - 1)

\* Create starts from no progress done and adds the pages; total and Error are as the
\* caller hands them over, except that total follows done.
NewDocument(identity, pages, total, error) ==
    LET n == Cardinality(DOMAIN pages)
    IN  [identity |-> identity, status |-> "queued", pages |-> pages,
         done |-> n, total |-> IF total < n THEN n ELSE total, error |-> error]

WithStatus(d, status) == [d EXCEPT !.status = status]

\* A page is added to a free slot; total follows done when done overtakes it.
WithPage(d, index, key) ==
    [d EXCEPT !.pages = [p \in DOMAIN @ \cup {index} |-> IF p = index THEN key ELSE @[p]],
              !.done  = @ + 1,
              !.total = IF @ < d.done + 1 THEN d.done + 1 ELSE @]

\* Removing a page leaves total alone, and never takes done below zero.
WithoutPage(d, index) ==
    [d EXCEPT !.pages = [p \in DOMAIN @ \ {index} |-> @[p]],
              !.done  = IF @ > 0 THEN @ - 1 ELSE @]

\* ResetPages keeps status and total.
WithoutPages(d) == [d EXCEPT !.pages = NoPages, !.done = 0]

\* What Purge leaves of a document: its identity, and nothing archived.
Emptied(d) == [d EXCEPT !.pages = NoPages, !.done = 0, !.total = 0,
                        !.status = "purged"]

IsEmpty(d) == d.done = 0 /\ d.total = 0 /\ DOMAIN d.pages = {}
=============================================================================
