------------------------------- MODULE PureParts -------------------------------
(* The parts of the service that compute without keeping state: one step takes *)
(* an input, and the properties compare what the code makes of it with a       *)
(* definition of what it is for.                                               *)
EXTENDS Queries, HttpAccess, ServiceConfig, GalleryShards, ImagePieces

CONSTANTS
    Tables, QueryInputs,    \* the documents of a store, and what a query may ask for
    Configs, Requests,      \* roles and origins of a configuration, HTTP requests
    Files,                  \* configuration files
    Scripts, Hashes,        \* gg.js, and the hashes of pages
    Images                  \* scrambled images

Instants == [sec : Int, frac : 0 .. 99]

ASSUME QueriesAssumption ==
    /\ \A table \in Tables :
          table \in Seq([status : Status, identity : Identities,
                         created_at : Instants, updated_at : Instants])
    /\ \A query \in QueryInputs : query.offset \in Int /\ query.limit \in Int

\* "absent" is no token, but stands for there being none.
ASSUME AccessAssumption ==
    /\ \A config \in Configs :
          /\ config.allow \in Seq(STRING)
          /\ \A token \in DOMAIN config.roles :
                token # "absent" /\ config.roles[token].admin \in BOOLEAN
    /\ \A request \in Requests : request.handler \in Handlers \cup {"health"}

ASSUME FilesAssumption ==
    \A file \in Files :
        file.storages \in Seq([name : [letters : STRING, padded : BOOLEAN],
                               type : STRING, s3 : STRING])

ASSUME ScriptsAssumption ==
    \A script \in Scripts :
        /\ script.groups \in Seq([cases : Seq(Nat), value : Nat])
        /\ script.ifs \in Seq([g : Nat, value : Nat])
        /\ \A value \in {script.initial, script.default} : value \in Seq(Nat) /\ Len(value) <= 1

ASSUME ImagesAssumption ==
    Images \subseteq [scrambleId : Int, aid : Int, height : Nat, digest : Nat]

VARIABLES topic, input

PartsInit == topic = "none" /\ input = << >>

Take(t, inputs) == topic = "none" /\ topic' = t /\ \E i \in inputs : input' = i

TakeQuery   == Take("query", [table : Tables, input : QueryInputs])
TakeRequest == Take("request", [config : Configs, request : Requests])
TakeFile    == Take("file", {<< >>} \cup {<<file>> : file \in Files})
TakeScript  == Take("script", [script : Scripts, hash : Hashes])
TakeImage   == Take("image", Images)

PartsNext == TakeQuery \/ TakeRequest \/ TakeFile \/ TakeScript \/ TakeImage

PartsSpec == PartsInit /\ [][PartsNext]_<<topic, input>>
-----------------------------------------------------------------------------
\* The instants a table holds are written with one length within a second.
SameLengthInSecond(table) ==
    \A id, other \in DOMAIN table : \A field \in {"created_at", "updated_at"} :
        LET a == table[id][field]
            b == table[other][field]
        IN  a.sec = b.sec => Len(Text(a)) = Len(Text(b))

\* A query is answered alike by both stores: the same documents, in an order and
\* between an offset and a limit that SQL allows.  For queries by time this holds
\* of tables whose instants within a second are written with equally many digits.
QueriesAgree ==
    topic = "query" =>
        LET query == Build(input.input)
        IN  query.accepted /\ (query.orderBy = "id" \/ SameLengthInSecond(input.table)) =>
                MemQuery(input.table, query) \in SqlQueries(input.table, query)

\* The handlers that change documents, and what the permissions open: one of them
\* all that changes nothing, and each of the others its own.
Writing == {"requestDocument", "removeDocument", "refreshDocument"}
Opens   == [read    |-> Handlers \ Writing,  create |-> {"requestDocument"},
            delete  |-> {"removeDocument"},  refresh |-> {"refreshDocument"}]
Reach(role) ==
    IF role.admin THEN Handlers
    ELSE UNION {Opens[permission] : permission \in role.permissions \cap DOMAIN Opens}

\* Once roles are configured, a role reaches what its permissions open, an
\* administrator everything, by the one token that counts; an allowed page of a
\* browser is told its origin on every answer, refusals included, and its preflight,
\* which carries no token, is answered.
AccessAsConfigured ==
    topic = "request" =>
        LET config  == input.config
            request == input.request
            serve   == Serve(config, request)
            token == IF request.bearer = "absent" THEN request.query ELSE request.bearer
            given == request.bearer # "absent" \/ request.query # ""
            allowed == request.origin # "" /\ \E n \in DOMAIN config.allow :
                            config.allow[n] \in {"*", request.origin}
        IN  /\ request.method # "OPTIONS" /\ request.handler # "health" =>
                 (serve.answer = "handler" <=>
                    \/ DOMAIN config.roles = {}
                    \/ /\ given /\ token \in DOMAIN config.roles
                       /\ request.handler \in Reach(config.roles[token]))
            /\ (serve.cors # "") = allowed
            /\ allowed /\ request.method = "OPTIONS" => serve.answer = "204"

\* The file leaves nothing to main to refuse: no s3 with an empty field that it needs,
\* and a document store there is (that it opens is not modelled).  Load does not ask.
Startable(file) ==
    /\ file.documents \in {"", "memory", "sqlite"}
    /\ \A n \in DOMAIN file.storages : file.storages[n].s3 # "blank"

\* A configuration means one thing, in whatever order Go walks the storages.  Of one
\* that is accepted and leaves main nothing to refuse, every storage is registered,
\* no two as one, and the default is among them; without a file the service starts.
\* With any other file it registers nothing and exits.
ConfigMeansOneThing ==
    topic = "file" =>
        LET file    == IF input = << >> THEN DefaultFile ELSE input[1]
            numbers == DOMAIN file.storages
            configs == {Load(input, order) : order \in SetToSeqs(numbers)}
        IN  /\ Cardinality(configs) = 1
            /\ \A config \in configs :
                  IF config.accepted /\ Startable(file)
                  THEN /\ config.default \in Registered(config)
                       /\ Cardinality(Registered(config)) = Cardinality(numbers)
                  ELSE Registered(config) = {}
            /\ input = << >> => \A config \in configs : Registered(config) = {"memory"}

\* No number has two labels (the first would count, ParseGG takes the last).
LabelsDistinct(script) ==
    \A m, n \in DOMAIN script.groups :
        m # n => ToSet(script.groups[m].cases) \cap ToSet(script.groups[n].cases) = {}

\* A label of the switch or an if gives g a value.
Labelled(script, g) ==
    \/ \E n \in DOMAIN script.groups : g \in ToSet(script.groups[n].cases)
    \/ \E n \in DOMAIN script.ifs : script.ifs[n].g = g

\* The shard that ParseGG reads off the text is the one the script computes: always for
\* a number that the script names, and for the others exactly if the script has one value
\* for them.  If the declaration of o and a default clause say different things, ParseGG
\* takes the one and the script the other; if neither gives a value, ParseGG takes 0.
ShardAsScript ==
    topic = "script" /\ LabelsDistinct(input.script) =>
        LET script == input.script
            g == Inum(input.hash)
        IN  Shard(ParseGG(script), g) = RunScript(script, g) <=>
                Labelled(script, g) \/ Cardinality(ToSet(Otherwise(script))) = 1

\* The pieces are put back: every row of the image is shown once, the piece that was
\* lowest comes first, and within a piece the rows keep their order, also when the rows
\* cannot be divided by the pieces or are fewer than them.
RowsRearranged ==
    topic = "image" =>
        LET height   == input.height
            segments == SegmentationNum(input.scrambleId, input.aid, input.digest)
            shown    == RearrangeImage(height, segments)
            piece(n) == PieceOf(height, segments, shown[n])
        IN  /\ {shown[n] : n \in 1 .. height} = 0 .. height - 1
            /\ \A m, n \in 1 .. height : m < n =>
                  \/ piece(m) > piece(n)
                  \/ piece(m) = piece(n) /\ shown[m] < shown[n]
===============================================================================
