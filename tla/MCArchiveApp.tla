----------------------------- MODULE MCArchiveApp -----------------------------
(* Instances of ArchiveApp.  A source answers with one or two pages, or with  *)
(* one page whose content has changed.                                        *)
EXTENDS ArchiveApp

CONSTANTS n1, n2, k1, k2, k3, s1, s2

MCIndexes == 0 .. 1
OneIndex  == {0}
MCTotals  == 0 .. 2

OnePage   == [p \in {0} |-> k1]
Changed   == [p \in {0} |-> k3]
TwoPages  == [p \in {0, 1} |-> IF p = 0 THEN k1 ELSE k2]

AllEditions   == {OnePage, Changed, TwoPages}
ShortEditions == {OnePage}

OneStorage  == [n \in Identities |-> s1]
TwoStorages == [n \in Identities |-> IF n = n1 THEN s1 ELSE s2]

AllConfigs   == {Storages}
EitherConfig == {{s} : s \in Storages}
AnyConfigs   == SUBSET Storages \ {{}}

AllModes == {"only_metadata", "all", "restore"}
RestoreMode == {"restore"}
=============================================================================
