--------------------------- MODULE MCDocumentStore ---------------------------
(* The table and its two implementations, given the same calls.  One document *)
(* has three page slots (gaps in the middle, a slice that grows in place and  *)
(* by moving) and a reader with a copy of it.  Two documents, with two slots  *)
(* and no reader, meet in their identities and ids.  The one total that        *)
(* Create and UpdateMeta set is below, at or above done.                       *)
EXTENDS Stores, TLC

MCIndexes  == 0 .. 2
MCTotals   == {2}
MCErrors   == {FALSE}
MCReadable == {0}

\* Pages take 64 bytes: up to 256 of them, Go doubles a slice that is full.
MCCapacity(n) == CHOOSE c \in {0} \cup {2 ^ k : k \in 0 .. n} : c >= n /\ (c = 0 \/ c < 2 * n)

Symmetry == Permutations(Identities)

\* Bound: the third slot and the reader go with a single document.
OneWithReaderOrTwo ==
    Len(docs) < 2 \/ (~held.shared /\ held.cells = << >>
                      /\ \A id \in DOMAIN docs : 2 \notin DOMAIN docs[id].pages)
==============================================================================
