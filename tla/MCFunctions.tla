----------------------------- MODULE MCFunctions -----------------------------
(* Bounded inputs for the parts of the service that keep no state.            *)
EXTENDS PureParts

MCIdentities == {"n1", "n2", "n3"}

\* Three documents, archived or deleted, last updated at instants that differ by
\* tenths, by hundredths and by a second.
MCInstants == {[sec |-> 0, frac |-> 10], [sec |-> 0, frac |-> 15], [sec |-> 0, frac |-> 20],
               [sec |-> 1, frac |-> 0]}
Rows == [status : {"archived", "deleted"}, identity : MCIdentities,
         created_at : {[sec |-> 1, frac |-> 0]}, updated_at : MCInstants]
MCTables == {<<a, b, c>> : a \in {row \in Rows : row.identity = "n1"},
                           b \in {row \in Rows : row.identity = "n2"},
                           c \in {row \in Rows : row.identity = "n3"}}
MCQueryInputs ==
    [status : {"any", "deleted"}, identity : {"any", "n2"}, order : {"", "DESC", "desc"},
     orderBy : {"", "created_at", "updated_at"}, offset : {-1, 0, 1, 3}, limit : {-1, 0, 2}]

\* No roles, or a reader, a contributor, an editor and an administrator.
Role(permissions, admin) == [permissions |-> permissions, admin |-> admin]
RoleMaps == {<< >>, [reader |-> Role({"read"}, FALSE), admin |-> Role({}, TRUE),
                     contributor |-> Role({"read", "create"}, FALSE),
                     editor |-> Role({"delete", "refresh"}, FALSE)]}
MCConfigs == [roles : RoleMaps, allow : {<< >>, <<"here">>, <<"*">>, <<"here", "*">>}]
Tokens == {"", "absent", "reader", "admin", "contributor", "editor", "unknown"}
MCRequests == [method : {"OPTIONS", "route"}, handler : Handlers \cup {"health"},
               origin : {"", "here", "there"}, bearer : Tokens, query : Tokens \ {"absent"}]

\* A file of up to two storages whose names may be one once they are trimmed.
Names == [letters : {"", "a", "b"}, padded : BOOLEAN]
Entries == [name : Names, type : {"memory", "s3", "other", "absent"},
            s3 : {"absent", "null", "blank", "complete", "incomplete"}]
KeysDiffer(storages) ==
    \A m, n \in DOMAIN storages : m # n => storages[m].name # storages[n].name
MCFiles == {file \in [lacks : BOOLEAN, negative : BOOLEAN, default : Names,
                      documents : {"memory", "sqlite", "other"},
                      storages : BoundedSeq(Entries, 1) \cup
                          {<<e, f>> : e \in Entries, f \in [name : Names, type : Types,
                                                            s3 : {"absent", "blank", "complete"}]}] :
             /\ KeysDiffer(file.storages)
             /\ Len(file.storages) = 2 =>
                   ~file.lacks /\ ~file.negative /\ file.documents = "sqlite"}

\* Up to two groups of labels 0, 1, 2 and one single if; a hash's last digits.
Groups == [cases : {<<0>>, <<1>>, <<0, 1>>, <<2, 0>>, <<1, 2>>}, value : {0, 1}]
MCScripts == [initial : {<< >>, <<0>>, <<1>>}, default : {<< >>, <<1>>}, groups : BoundedSeq(Groups, 2),
              ifs : {<< >>} \cup {<<[g |-> g, value |-> v]>> : g \in 0 .. 2, v \in {0, 1}}]
MCHashes == {<<0, n, 0>> : n \in 0 .. 3}

\* Chapters on both sides of each limit; images of more and fewer rows than pieces.
MCImages == [scrambleId : {220980}, height : 1 .. 45, digest : {48, 49, 54, 55, 57, 97, 102},
             aid : {220979, 220980, 268849, 268850, 421925, 421926}]
===============================================================================
