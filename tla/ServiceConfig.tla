---------------------------- MODULE ServiceConfig ----------------------------
(* config.yml, as far as the stores go: reading, normalizing and validating   *)
(* it, and what main makes of it.  Go walks a map in any order.               *)
EXTENDS Sequences, SequencesExt, Integers

Types == {"memory", "s3"}

\* requireStructFields: every field must be there, s3 of a storage excepted.  An s3
\* that is null is none, one that lacks a field is "incomplete".  The fields of a
\* "blank" one are there, but some that S3 cannot do without are empty.
FieldsPresent(file) ==
    /\ ~file.lacks
    /\ \A n \in DOMAIN file.storages :
            file.storages[n].type # "absent" /\ file.storages[n].s3 # "incomplete"

\* A name or type as TrimSpace and, for the type, ToLower leave it.
Trimmed(name) == name.letters

Fits(entry) ==
    \/ entry.type = "memory" /\ entry.s3 \in {"absent", "null"}
    \/ entry.type = "s3" /\ entry.s3 \in {"blank", "complete"}

Refused == [accepted |-> FALSE, storages |-> << >>]

StorageOf(entry) == [type |-> entry.type, s3 |-> entry.s3]

WithStorage(entries, entry) ==
    LET name == Trimmed(entry.name)
        storages == entries.storages
    IN  [accepted |-> TRUE,
         storages |-> [other \in DOMAIN storages \cup {name} |->
                         IF other = name THEN StorageOf(entry) ELSE storages[other]]]

AddStorageAgain(entries, entry) ==  \* mutant: a name that is already there is replaced
    IF ~entries.accepted \/ Trimmed(entry.name) = "" \/ ~Fits(entry) THEN Refused
    ELSE WithStorage(entries, entry)

\* One turn of the loop of normalizeAndValidateStorages.
AddStorage(entries, entry) ==
    IF \/ ~entries.accepted
       \/ Trimmed(entry.name) = "" \/ Trimmed(entry.name) \in DOMAIN entries.storages
       \/ ~Fits(entry)
    THEN Refused
    ELSE WithStorage(entries, entry)

\* The loop, over the entries in one of the orders Go may take.
Normalize(file, order) ==
    LET after[n \in 0 .. Len(order)] ==
            IF n = 0 THEN [accepted |-> TRUE, storages |-> << >>]
            ELSE AddStorage(after[n - 1], file.storages[order[n]])
    IN  after[Len(order)]

NotAccepted == [accepted |-> FALSE, default |-> "", documents |-> "", storages |-> << >>]

\* readConfig; documents is document_store, trimmed, which it does not check.
ReadConfig(file, order) ==
    LET entries == Normalize(file, order)
        default == Trimmed(file.default)
    IN  IF /\ FieldsPresent(file) /\ ~file.negative
           /\ entries.accepted
           /\ default # "" /\ default \in DOMAIN entries.storages
        THEN [accepted |-> TRUE, default |-> default, documents |-> file.documents,
              storages |-> entries.storages]
        ELSE NotAccepted

\* defaultConfig, which load writes and reads back when there is no file.
DefaultFile ==
    [lacks |-> FALSE, negative |-> FALSE, default |-> [letters |-> "memory", padded |-> FALSE],
     documents |-> "sqlite",
     storages |-> <<[name |-> [letters |-> "memory", padded |-> FALSE],
                     type |-> "memory", s3 |-> "absent"]>>]

Load(files, order) == ReadConfig(IF files = << >> THEN DefaultFile ELSE files[1], order)

\* newDocumentStore
DocumentStoreKnown(documents) == documents \in {"", "memory", "sqlite"}

\* NewMemoryStore takes anything, NewS3Store refuses an s3 that is none or blank.
Creatable(storage) ==
    \/ storage.type = "memory"
    \/ storage.type = "s3" /\ storage.s3 = "complete"

\* What main gets to serve with: nothing, since it exits, when the file is refused,
\* its document store is unknown, or a storage cannot be created or registered.
Registered(config) ==
    IF /\ config.accepted
       /\ DocumentStoreKnown(config.documents)
       /\ \A name \in DOMAIN config.storages : name # "" /\ Creatable(config.storages[name])
    THEN DOMAIN config.storages
    ELSE {}
===============================================================================
