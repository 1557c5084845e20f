---------------------------- MODULE PurePartsProofs ----------------------------
(* What the parts without state compute, for every input: any tables, queries,*)
(* configurations, requests, scripts and images.  Loops of the code are       *)
(* recursive functions; that they are what their recursion says (LoopExists), *)
(* and what holds after every turn (EachTurn), rests on the least number of a *)
(* set of naturals.                                                           *)
EXTENDS PureParts, NaturalsInduction, WellFoundedInduction, SequenceTheorems,
        FiniteSetTheorems, TLAPS

LEMMA LeastNatural ==
    ASSUME NEW S, S \subseteq Nat, S # {}
    PROVE  \E n \in S : \A m \in S : n <= m
  <1> DEFINE R == OpToRel(<, Nat)
  <1>1. IsWellFoundedOn(R, Nat)
    BY NatLessThanWellFounded
  <1>2. \A a, b \in Nat : a < b => <<a, b>> \in R
    BY DEF OpToRel
  <1> HIDE DEF R
  <1>3. PICK n \in S : \A m \in S : ~(<<m, n>> \in R)
    BY <1>1, WFMin
  <1>4. ASSUME NEW m \in S PROVE n <= m
    <2>1. ~(m < n)
      BY <1>2, <1>3
    <2>2. m \in Nat /\ n \in Nat
      OBVIOUS
    <2> QED  BY <2>1, <2>2
  <1> QED  BY <1>4

\* Induction over the turns of a loop, for a set of turns.
LEMMA EachTurn ==
    ASSUME NEW N \in Nat, NEW G, 0 \in G, \A n \in 1 .. N : n - 1 \in G => n \in G
    PROVE  \A n \in 0 .. N : n \in G
  <1> DEFINE S == {n \in 0 .. N : n \notin G}
  <1> SUFFICES ASSUME S # {} PROVE FALSE
    OBVIOUS
  <1>1. S \subseteq Nat
    OBVIOUS
  <1>2. PICK n \in S : \A m \in S : n <= m
    <2> HIDE DEF S
    <2> QED  BY <1>1, LeastNatural
  <1>3. n \in 1 .. N /\ n - 1 \in 0 .. N /\ ~(n <= n - 1)
    OBVIOUS
  <1> QED  BY <1>2, <1>3

\* A function takes a loop from turn to turn.
IsLoop(f, N, base, step) ==
    \A n \in 0 .. N : f[n] = IF n = 0 THEN base ELSE step[n][f[n - 1]]

LEMMA LoopExists ==
    ASSUME NEW N \in Nat, NEW S, NEW base \in S, NEW step \in [1 .. N -> [S -> S]]
    PROVE  \E f \in [0 .. N -> S] : IsLoop(f, N, base, step)
  <1> DEFINE G == {n \in 0 .. N : \E f \in [0 .. n -> S] : IsLoop(f, n, base, step)}
  <1>1. 0 \in G
    <2> DEFINE f == [k \in 0 .. 0 |-> base]
    <2>1. f \in [0 .. 0 -> S]
      OBVIOUS
    <2>2. IsLoop(f, 0, base, step)
      BY DEF IsLoop
    <2> QED  BY <2>1, <2>2
  <1>2. ASSUME NEW n \in 1 .. N, n - 1 \in G PROVE n \in G
    <2>1. PICK f \in [0 .. (n - 1) -> S] : IsLoop(f, n - 1, base, step)
      BY <1>2
    <2> DEFINE g == [k \in 0 .. n |-> IF k = n THEN step[n][f[n - 1]] ELSE f[k]]
    <2>2. g \in [0 .. n -> S]
      <3>1. f[n - 1] \in S /\ step[n] \in [S -> S]
        OBVIOUS
      <3> QED  BY <3>1
    <2>3. IsLoop(g, n, base, step)
      BY <2>1 DEF IsLoop
    <2>4. n \in 0 .. N
      OBVIOUS
    <2> HIDE DEF g
    <2> QED  BY <2>2, <2>3, <2>4
  <1>3. \A n \in 0 .. N : n \in G
    <2> HIDE DEF G
    <2> QED  BY <1>1, <1>2, EachTurn
  <1>4. N \in G
    <2> HIDE DEF G
    <2> QED  BY <1>3
  <1> QED  BY <1>4

\* The orders of a finite set name each of its elements once.
LEMMA OrdersOf ==
    ASSUME NEW T, IsFiniteSet(T), NEW s \in SetToSeqs(T)
    PROVE  /\ Cardinality(T) \in Nat /\ Len(s) = Cardinality(T)
           /\ s \in Seq(T) /\ s \in [1 .. Cardinality(T) -> T]
           /\ \A i, j \in 1 .. Cardinality(T) : i # j => s[i] # s[j]
           /\ \A t \in T : \E i \in 1 .. Cardinality(T) : s[i] = t
  <1> DEFINE N == Cardinality(T)
  <1>1. N \in Nat
    BY FS_CardinalityType
  <1>2. s \in [1 .. N -> T] /\ \A i, j \in 1 .. N : i # j => s[i] # s[j]
    BY DEF SetToSeqs
  <1> HIDE DEF N
  <1>3. s \in Seq(T)
    BY <1>1, <1>2, SeqDef
  <1>4. Len(s) = N
    <2>1. Len(s) \in Nat /\ 1 .. Len(s) = 1 .. N
      BY <1>2, <1>3, LenProperties
    <2> QED  BY <1>1, <2>1
  <1>5. s \in Injection(1 .. N, T)
    BY <1>2 DEF Injection, IsInjective
  <1>6. IsFiniteSet(1 .. N) /\ Cardinality(1 .. N) = N
    <2>1. /\ IsFiniteSet(1 .. N)
          /\ Cardinality(1 .. N) = IF 1 > N THEN 0 ELSE N - 1 + 1
      BY <1>1, FS_Interval
    <2> QED  BY <1>1, <2>1
  <1>7. s \in Surjection(1 .. N, T)
    BY <1>5, <1>6, FS_Injection DEF N
  <1>8. \A t \in T : \E i \in 1 .. N : s[i] = t
    BY <1>7 DEF Surjection
  <1> QED  BY <1>1, <1>2, <1>3, <1>4, <1>8 DEF N

-----------------------------------------------------------------------------
(* Access.                                                                   *)

\* The first entry of the list that matches is found, if there is one.
LEMMA MatchOriginOK ==
    ASSUME NEW allow, DOMAIN allow \subseteq Nat, NEW origin, origin # ""
    PROVE  MatchOrigin(allow, origin) # "" <=>
              \E n \in DOMAIN allow : allow[n] \in {"*", origin}
  <1> DEFINE matching == {n \in DOMAIN allow : allow[n] \in {"*", origin}}
  <1>1. CASE matching = {}
    BY <1>1 DEF MatchOrigin
  <1>2. CASE matching # {}
    <2>1. matching \subseteq Nat
      OBVIOUS
    <2>2. \E n \in matching : \A k \in matching : n <= k
      <3> HIDE DEF matching
      <3> QED  BY <1>2, <2>1, LeastNatural
    <2> DEFINE first == CHOOSE n \in matching : \A k \in matching : n <= k
    <2>3. first \in matching
      <3> HIDE DEF matching
      <3> QED  BY <2>2
    <2>4. MatchOrigin(allow, origin) = allow[first]
      BY <1>2 DEF MatchOrigin
    <2> HIDE DEF first
    <2> QED  BY <2>3, <2>4
  <1> QED  BY <1>1, <1>2

\* A permission is required by the handlers it opens.
LEMMA OpensRequired ==
    \A handler \in Handlers :
        /\ Required[handler] \in DOMAIN Opens
        /\ \A permission \in DOMAIN Opens :
               handler \in Opens[permission] <=> permission = Required[handler]
  BY DEF Handlers, Required, Opens, Writing

LEMMA ReachOK ==
    ASSUME NEW role, role.admin \in BOOLEAN, NEW handler \in Handlers
    PROVE  handler \in Reach(role) <=> HasPermission(role, Required[handler])
  BY OpensRequired DEF Reach, HasPermission

LEMMA AccessOK ==
    ASSUME NEW config \in Configs, NEW request \in Requests,
           topic = "request", input = [config |-> config, request |-> request]
    PROVE  AccessAsConfigured
  <1> DEFINE serve == Serve(config, request)
             token == IF request.bearer = "absent" THEN request.query ELSE request.bearer
             given == request.bearer # "absent" \/ request.query # ""
             allowed == request.origin # "" /\ \E n \in DOMAIN config.allow :
                            config.allow[n] \in {"*", request.origin}
  <1>1. CorsHeader(config, request) # "" <=> allowed
    <2>1. CASE request.origin = ""
      BY <2>1 DEF CorsHeader
    <2>2. CASE request.origin # "" /\ config.allow = << >>
      <3>1. config.allow \in Seq(STRING)
        BY AccessAssumption
      <3>2. DOMAIN config.allow = 1 .. Len(config.allow)
        BY <3>1, LenProperties
      <3>3. Len(config.allow) = 0
        BY <2>2, EmptySeq
      <3>4. DOMAIN config.allow = {}
        BY <3>2, <3>3
      <3> QED  BY <2>2, <3>4 DEF CorsHeader
    <2>3. CASE request.origin # "" /\ config.allow # << >>
      <3>1. CorsHeader(config, request) = MatchOrigin(config.allow, request.origin)
        BY <2>3 DEF CorsHeader
      <3>2. config.allow \in Seq(STRING)
        BY AccessAssumption
      <3>3. DOMAIN config.allow = 1 .. Len(config.allow) /\ Len(config.allow) \in Nat
        BY <3>2, LenProperties
      <3>4. DOMAIN config.allow \subseteq Nat
        BY <3>3
      <3> QED  BY <2>3, <3>1, <3>4, MatchOriginOK
    <2> QED  BY <2>1, <2>2, <2>3
  <1>2. serve.cors = CorsHeader(config, request)
    BY DEF Serve
  <1>3. allowed /\ request.method = "OPTIONS" => serve.answer = "204"
    BY <1>1 DEF Serve
  <1>4. ASSUME request.method # "OPTIONS", request.handler # "health"
        PROVE  serve.answer = "handler" <=>
                  \/ DOMAIN config.roles = {}
                  \/ /\ given /\ token \in DOMAIN config.roles
                     /\ request.handler \in Reach(config.roles[token])
    <2>1. serve.answer = Authorize(config, request)
      BY <1>4 DEF Serve, Route
    <2>2. request.handler \in Handlers
      BY <1>4, AccessAssumption
    <2>3. "absent" \notin DOMAIN config.roles
      BY AccessAssumption
    <2>4. CASE ~given
      <3>1. Token(request) = "absent"
        BY <2>4 DEF Token
      <3> QED  BY <2>1, <2>3, <2>4, <3>1 DEF Authorize
    <2>5. CASE given
      <3>1. Token(request) = token
        BY <2>5 DEF Token
      <3>2. ASSUME token \in DOMAIN config.roles
            PROVE  request.handler \in Reach(config.roles[token]) <=>
                      HasPermission(config.roles[token], Required[request.handler])
        <4>1. config.roles[token].admin \in BOOLEAN
          BY <3>2, AccessAssumption
        <4> QED  BY <2>2, <4>1, ReachOK
      <3> QED  BY <2>1, <2>5, <3>1, <3>2 DEF Authorize
    <2> QED  BY <2>4, <2>5
  <1> QED  BY <1>1, <1>2, <1>3, <1>4 DEF AccessAsConfigured
-----------------------------------------------------------------------------
(* Configurations.                                                           *)

\* What the entries with the numbers K come to, in no order.
Collected(entries, K) ==
    IF /\ \A k \in K : Trimmed(entries[k].name) # "" /\ Fits(entries[k])
       /\ \A j, k \in K : j # k => Trimmed(entries[j].name) # Trimmed(entries[k].name)
    THEN [accepted |-> TRUE,
          storages |-> [name \in {Trimmed(entries[k].name) : k \in K} |->
                          StorageOf(entries[CHOOSE k \in K : Trimmed(entries[k].name) = name])]]
    ELSE Refused

LEMMA CollectedNone ==
    ASSUME NEW entries
    PROVE  Collected(entries, {}) = [accepted |-> TRUE, storages |-> << >>]
  <1> DEFINE storages == [name \in {Trimmed(entries[k].name) : k \in {}} |->
                            StorageOf(entries[CHOOSE k \in {} : Trimmed(entries[k].name) = name])]
  <1>1. storages \in [{} -> {}] /\ << >> \in [{} -> {}]
    OBVIOUS
  <1>2. Collected(entries, {}) = [accepted |-> TRUE, storages |-> storages]
    BY DEF Collected
  <1> HIDE DEF storages
  <1>3. storages = << >>
    BY <1>1
  <1> QED  BY <1>2, <1>3

LEMMA RefusedStays ==
    ASSUME NEW entry
    PROVE  AddStorage(Refused, entry) = Refused
  BY DEF AddStorage, Refused

LEMMA CollectedAgain ==
    ASSUME NEW entries, NEW K, NEW k \in K
    PROVE  AddStorage(Collected(entries, K), entries[k]) = Refused
  <1> DEFINE collected == Collected(entries, K)
  <1>1. CASE collected = Refused
    BY <1>1, RefusedStays
  <1>2. CASE collected # Refused
    <2>1. DOMAIN collected.storages = {Trimmed(entries[j].name) : j \in K}
      BY <1>2 DEF Collected
    <2>2. Trimmed(entries[k].name) \in DOMAIN collected.storages
      BY <2>1
    <2> HIDE DEF collected
    <2>3. AddStorage(collected, entries[k]) = Refused
      BY <2>2 DEF AddStorage
    <2> QED  BY <2>3 DEF collected
  <1> QED  BY <1>1, <1>2

\* One turn collects one entry more.
LEMMA CollectedStep ==
    ASSUME NEW entries, NEW K, NEW k, k \notin K
    PROVE  AddStorage(Collected(entries, K), entries[k]) = Collected(entries, K \cup {k})
  <1> DEFINE name(j) == Trimmed(entries[j].name)
             good(j) == name(j) # "" /\ Fits(entries[j])
             apart(M) == \A i, j \in M : i # j => name(i) # name(j)
             before == Collected(entries, K)
             M == K \cup {k}
  <1>1. CASE ~(\A j \in K : good(j)) \/ ~apart(K)
    <2>1. before = Refused
      BY <1>1 DEF Collected
    <2>2. Collected(entries, M) = Refused
      BY <1>1 DEF Collected
    <2> QED  BY <2>1, <2>2, RefusedStays
  <1>2. CASE (\A j \in K : good(j)) /\ apart(K)
    <2>1. before = [accepted |-> TRUE,
                    storages |-> [x \in {name(j) : j \in K} |->
                                    StorageOf(entries[CHOOSE j \in K : name(j) = x])]]
      BY <1>2 DEF Collected
    <2>2. before.accepted /\ DOMAIN before.storages = {name(j) : j \in K}
      BY <2>1
    <2>3. \A x \in {name(j) : j \in K} :
              before.storages[x] = StorageOf(entries[CHOOSE j \in K : name(j) = x])
      BY <2>1
    <2> HIDE DEF before
    <2>4. CASE ~good(k)
      <3>1. AddStorage(before, entries[k]) = Refused
        BY <2>4 DEF AddStorage
      <3>2. Collected(entries, M) = Refused
        BY <2>4 DEF Collected
      <3> QED  BY <3>1, <3>2 DEF before
    <2>5. CASE name(k) \in {name(j) : j \in K}
      <3>1. AddStorage(before, entries[k]) = Refused
        BY <2>2, <2>5 DEF AddStorage
      <3>2. PICK j \in K : name(j) = name(k)
        BY <2>5
      <3>3. ~apart(M)
        BY <3>2
      <3>4. Collected(entries, M) = Refused
        BY <3>3 DEF Collected
      <3> QED  BY <3>1, <3>4 DEF before
    <2>6. CASE good(k) /\ name(k) \notin {name(j) : j \in K}
      <3>1. AddStorage(before, entries[k]) =
               [accepted |-> TRUE,
                storages |-> [x \in {name(j) : j \in K} \cup {name(k)} |->
                                IF x = name(k) THEN StorageOf(entries[k]) ELSE before.storages[x]]]
        BY <2>2, <2>6 DEF AddStorage, WithStorage
      <3>2. (\A j \in M : good(j)) /\ apart(M)
        BY <1>2, <2>6
      <3>3. Collected(entries, M) =
               [accepted |-> TRUE,
                storages |-> [x \in {name(j) : j \in M} |->
                                StorageOf(entries[CHOOSE j \in M : name(j) = x])]]
        BY <3>2 DEF Collected
      <3>4. {name(j) : j \in M} = {name(j) : j \in K} \cup {name(k)}
        OBVIOUS
      <3>5. ASSUME NEW x \in {name(j) : j \in M}
            PROVE  (IF x = name(k) THEN StorageOf(entries[k]) ELSE before.storages[x]) =
                      StorageOf(entries[CHOOSE j \in M : name(j) = x])
        <4> DEFINE c == CHOOSE j \in M : name(j) = x
        <4>1. c \in M /\ name(c) = x
          OBVIOUS
        <4>2. CASE x = name(k)
          <5>1. c = k
            BY <2>6, <4>1, <4>2
          <5> QED  BY <4>2, <5>1
        <4>3. CASE x # name(k)
          <5> DEFINE d == CHOOSE j \in K : name(j) = x
          <5>1. c \in K
            BY <4>1, <4>3
          <5>2. d \in K /\ name(d) = x
            BY <4>1, <5>1
          <5> HIDE DEF c
          <5>3. before.storages[x] = StorageOf(entries[d])
            BY <2>3, <5>2
          <5> HIDE DEF d
          <5>4. c = d
            BY <1>2, <4>1, <5>1, <5>2
          <5> QED  BY <4>3, <5>3, <5>4 DEF c
        <4> QED  BY <4>2, <4>3
      <3> HIDE DEF M
      <3>6. [x \in {name(j) : j \in K} \cup {name(k)} |->
               IF x = name(k) THEN StorageOf(entries[k]) ELSE before.storages[x]] =
            [x \in {name(j) : j \in M} |-> StorageOf(entries[CHOOSE j \in M : name(j) = x])]
        BY <3>4, <3>5
      <3>7. AddStorage(before, entries[k]) = Collected(entries, M)
        BY <3>1, <3>3, <3>6
      <3> QED  BY <3>7 DEF before, M
    <2> QED  BY <2>4, <2>5, <2>6
  <1> QED  BY <1>1, <1>2

\* The loop of normalizeAndValidateStorages.
AddsStorages(f, file, order) ==
    /\ f[0] = [accepted |-> TRUE, storages |-> << >>]
    /\ \A n \in 1 .. Len(order) : f[n] = AddStorage(f[n - 1], file.storages[order[n]])

LEMMA NormalizeLoop ==
    ASSUME NEW file, NEW K, NEW order \in Seq(K)
    PROVE  \E f : AddsStorages(f, file, order) /\ Normalize(file, order) = f[Len(order)]
  <1> DEFINE S == {Refused} \cup {Collected(file.storages, M) : M \in SUBSET K}
             N == Len(order)
             base == [accepted |-> TRUE, storages |-> << >>]
             turn(m, n) == AddStorage(m, file.storages[order[n]])
             step == [n \in 1 .. N |-> [m \in S |-> turn(m, n)]]
             Loop(f) == f = [n \in 0 .. N |-> IF n = 0 THEN base ELSE turn(f[n - 1], n)]
             c == CHOOSE f : Loop(f)
  <1>1. N \in Nat /\ base \in S
    <2>1. N \in Nat
      BY LenProperties
    <2>2. base = Collected(file.storages, {}) /\ {} \in SUBSET K
      BY CollectedNone
    <2> QED  BY <2>1, <2>2
  <1>2. ASSUME NEW n \in 1 .. N, NEW m \in S
        PROVE  turn(m, n) \in S
    <2>1. order[n] \in K
      BY ElementOfSeq
    <2>2. CASE m = Refused
      BY <2>2, RefusedStays
    <2>3. ASSUME NEW M \in SUBSET K, m = Collected(file.storages, M)
          PROVE  turn(m, n) \in S
      <3>1. CASE order[n] \in M
        BY <2>3, <3>1, CollectedAgain
      <3>2. CASE order[n] \notin M
        <4>1. turn(m, n) = Collected(file.storages, M \cup {order[n]})
          BY <2>3, <3>2, CollectedStep
        <4>2. M \cup {order[n]} \in SUBSET K
          BY <2>1
        <4> QED  BY <4>1, <4>2
      <3> QED  BY <3>1, <3>2
    <2> QED  BY <2>2, <2>3
  <1>3. Normalize(file, order) = c[N]
    BY DEF Normalize
  <1> HIDE DEF S, N, turn, base
  <1>4. step \in [1 .. N -> [S -> S]]
    BY <1>2
  <1>5. PICK f \in [0 .. N -> S] : IsLoop(f, N, base, step)
    <2> HIDE DEF step
    <2> QED  BY <1>1, <1>4, LoopExists
  <1>6. Loop(f)
    <2>1. ASSUME NEW n \in 1 .. N
          PROVE  n \in 0 .. N /\ n # 0 /\ f[n - 1] \in S /\ step[n][f[n - 1]] = turn(f[n - 1], n)
      BY <1>1
    <2>2. ASSUME NEW n \in 0 .. N
          PROVE  f[n] = IF n = 0 THEN base ELSE turn(f[n - 1], n)
      <3> HIDE DEF step
      <3>1. CASE n = 0
        BY <1>5, <3>1 DEF IsLoop
      <3>2. CASE n # 0
        <4>1. n \in 1 .. N
          BY <1>1, <3>2
        <4>2. f[n] = step[n][f[n - 1]]
          BY <1>5, <3>2 DEF IsLoop
        <4> QED  BY <2>1, <3>2, <4>1, <4>2
      <3> QED  BY <3>1, <3>2
    <2> QED  BY <2>2
  <1>7. Loop(c)
    <2> HIDE DEF Loop
    <2> QED  BY <1>6
  <1> HIDE DEF c
  <1>8. 0 \in 0 .. N /\ c[0] = base /\ \A n \in 1 .. N : c[n] = turn(c[n - 1], n)
    BY <1>1, <1>7
  <1>9. c \in [0 .. N -> S]
    <2> DEFINE G == {n \in 0 .. N : c[n] \in S}
    <2>1. 0 \in G
      BY <1>1, <1>8
    <2>2. ASSUME NEW n \in 1 .. N, n - 1 \in G PROVE n \in G
      BY <1>1, <1>2, <1>8, <2>2
    <2>3. \A n \in 0 .. N : n \in G
      <3> HIDE DEF G
      <3> QED  BY <1>1, <2>1, <2>2, EachTurn
    <2> QED  BY <1>7, <2>3
  <1> QED  BY <1>3, <1>8, <1>9 DEF N, S, turn, base, AddsStorages

\* Whatever the order of the entries, they come to the same.
LEMMA NormalizeOK ==
    ASSUME NEW file, NEW K, IsFiniteSet(K), NEW order \in SetToSeqs(K)
    PROVE  Normalize(file, order) = Collected(file.storages, K)
  <1> DEFINE N == Len(order)
             seen(n) == {order[k] : k \in 1 .. n}
             entries == file.storages
  <1>1. /\ N \in Nat /\ order \in Seq(K)
        /\ \A i, j \in 1 .. N : i # j => order[i] # order[j]
        /\ seen(N) = K
    <2>1. /\ Cardinality(K) \in Nat /\ N = Cardinality(K)
          /\ order \in Seq(K) /\ order \in [1 .. Cardinality(K) -> K]
          /\ \A i, j \in 1 .. Cardinality(K) : i # j => order[i] # order[j]
          /\ \A t \in K : \E i \in 1 .. Cardinality(K) : order[i] = t
      BY OrdersOf
    <2> HIDE DEF N
    <2> QED  BY <2>1
  <1>2. PICK f : AddsStorages(f, file, order) /\ Normalize(file, order) = f[N]
    BY <1>1, NormalizeLoop
  <1> HIDE DEF N
  <1> DEFINE G == {n \in 0 .. N : f[n] = Collected(entries, seen(n))}
  <1>3. 0 \in G
    <2>1. seen(0) = {}
      OBVIOUS
    <2>2. f[0] = [accepted |-> TRUE, storages |-> << >>]
      BY <1>2 DEF AddsStorages
    <2>3. Collected(entries, {}) = [accepted |-> TRUE, storages |-> << >>]
      BY CollectedNone
    <2> HIDE DEF seen, entries
    <2>4. 0 \in 0 .. N
      BY <1>1
    <2> QED  BY <2>1, <2>2, <2>3, <2>4
  <1>4. ASSUME NEW n \in 1 .. N, n - 1 \in G PROVE n \in G
    <2>1. f[n] = AddStorage(f[n - 1], entries[order[n]])
      BY <1>2 DEF AddsStorages, N
    <2>2. order[n] \notin seen(n - 1)
      <3>1. \A k \in 1 .. (n - 1) : k \in 1 .. N /\ k # n
        BY <1>1
      <3> QED  BY <1>1, <3>1
    <2>3. seen(n) = seen(n - 1) \cup {order[n]}
      <3>1. 1 .. n = 1 .. (n - 1) \cup {n}
        BY <1>1
      <3> QED  BY <3>1
    <2>4. f[n - 1] = Collected(entries, seen(n - 1))
      BY <1>4
    <2> HIDE DEF seen, entries
    <2>5. AddStorage(Collected(entries, seen(n - 1)), entries[order[n]]) =
             Collected(entries, seen(n - 1) \cup {order[n]})
      BY <2>2, CollectedStep
    <2>6. n \in 0 .. N
      BY <1>1
    <2> QED  BY <2>1, <2>3, <2>4, <2>5, <2>6
  <1>5. N \in G
    <2>1. \A n \in 0 .. N : n \in G
      <3> HIDE DEF G
      <3> QED  BY <1>1, <1>3, <1>4, EachTurn
    <2> HIDE DEF G
    <2> QED  BY <1>1, <2>1
  <1> QED  BY <1>1, <1>2, <1>5

\* An accepted collection of entries is complete, has for each name the storage of an
\* entry that fits, and for each entry its storage.
LEMMA CollectedOK ==
    ASSUME NEW entries, NEW K, IsFiniteSet(K), Collected(entries, K).accepted
    PROVE  LET storages == Collected(entries, K).storages
           IN  /\ DOMAIN storages = {Trimmed(entries[k].name) : k \in K}
               /\ \A name \in DOMAIN storages : name # "" /\ \E k \in K :
                     Fits(entries[k]) /\ storages[name] = StorageOf(entries[k])
               /\ \A k \in K : \E name \in DOMAIN storages :
                     Fits(entries[k]) /\ storages[name] = StorageOf(entries[k])
               /\ Cardinality(DOMAIN storages) = Cardinality(K)
  <1> DEFINE name(k) == Trimmed(entries[k].name)
             names == {name(k) : k \in K}
             storages == Collected(entries, K).storages
             f == [k \in K |-> name(k)]
  <1>1. Collected(entries, K) # Refused
    BY DEF Refused
  <1>2. /\ \A k \in K : name(k) # "" /\ Fits(entries[k])
        /\ \A j, k \in K : j # k => name(j) # name(k)
    BY <1>1 DEF Collected
  <1>3. storages = [x \in names |-> StorageOf(entries[CHOOSE k \in K : name(k) = x])]
    BY <1>2 DEF Collected
  <1> HIDE DEF storages
  <1>4. DOMAIN storages = names
    BY <1>3
  <1>5. ASSUME NEW x \in names
        PROVE  \E k \in K : name(k) = x /\ storages[x] = StorageOf(entries[k])
    <2> DEFINE c == CHOOSE k \in K : name(k) = x
    <2>1. c \in K /\ name(c) = x
      OBVIOUS
    <2>2. storages[x] = StorageOf(entries[c])
      BY <1>3
    <2> HIDE DEF c
    <2> QED  BY <2>1, <2>2
  <1>10. ASSUME NEW x \in names
         PROVE  x # "" /\ \E k \in K : Fits(entries[k]) /\ storages[x] = StorageOf(entries[k])
    BY <1>2, <1>5
  <1>11. ASSUME NEW k \in K
         PROVE  \E x \in names : Fits(entries[k]) /\ storages[x] = StorageOf(entries[k])
    <2>1. name(k) \in names
      OBVIOUS
    <2>2. PICK j \in K : name(j) = name(k) /\ storages[name(k)] = StorageOf(entries[j])
      BY <1>5, <2>1
    <2>3. j = k
      BY <1>2, <2>2
    <2> QED  BY <1>2, <2>1, <2>2, <2>3
  <1>6. f \in [K -> names] /\ (\A j, k \in K : f[j] = f[k] => j = k) /\ (\A x \in names : \E k \in K : f[k] = x)
    <2> HIDE DEF name
    <2> QED  BY <1>2
  <1> HIDE DEF f
  <1>7. f \in Bijection(K, names)
    BY <1>6 DEF Bijection, Injection, Surjection, IsInjective
  <1>8. ExistsBijection(K, names)
    BY <1>7 DEF ExistsBijection
  <1> HIDE DEF names
  <1>9. Cardinality(names) = Cardinality(K)
    BY <1>8, FS_Bijection
  <1> QED  BY <1>4, <1>9, <1>10, <1>11 DEF storages, names

LEMMA FileOK ==
    ASSUME NEW files \in {<< >>} \cup {<<file>> : file \in Files}, topic = "file", input = files
    PROVE  ConfigMeansOneThing
  <1> DEFINE file == IF files = << >> THEN DefaultFile ELSE files[1]
             entries == file.storages
             K == DOMAIN entries
             N == Len(entries)
             collected == Collected(entries, K)
             default == Trimmed(file.default)
             c == IF /\ FieldsPresent(file) /\ ~file.negative
                     /\ collected.accepted
                     /\ default # "" /\ default \in DOMAIN collected.storages
                  THEN [accepted |-> TRUE, default |-> default, documents |-> file.documents,
                        storages |-> collected.storages]
                  ELSE NotAccepted
             configs == {Load(files, order) : order \in SetToSeqs(K)}
  <1>1. N \in Nat /\ K = 1 .. N
    <2>1. CASE files = << >>
      BY <2>1 DEF DefaultFile
    <2>2. ASSUME NEW g \in Files, files = <<g>>
          PROVE  N \in Nat /\ K = 1 .. N
      <3>1. entries = g.storages
        BY <2>2
      <3>2. g.storages \in Seq([name : [letters : STRING, padded : BOOLEAN],
                                type : STRING, s3 : STRING])
        BY FilesAssumption
      <3> QED  BY <3>1, <3>2, LenProperties
    <2> QED  BY <2>1, <2>2
  <1>2. files # << >> => entries = files[1].storages
    OBVIOUS
  <1>3. files = << >> => entries = DefaultFile.storages
    OBVIOUS
  <1> HIDE DEF N, K
  <1>4. IsFiniteSet(K) /\ Cardinality(K) = N
    <2>1. /\ IsFiniteSet(1 .. N)
          /\ Cardinality(1 .. N) = IF 1 > N THEN 0 ELSE N - 1 + 1
      BY <1>1, FS_Interval
    <2> QED  BY <1>1, <2>1
  <1>5. [i \in 1 .. N |-> i] \in SetToSeqs(K)
    BY <1>1, <1>4 DEF SetToSeqs
  <1>6. ASSUME NEW order \in SetToSeqs(K) PROVE Load(files, order) = c
    <2>1. Normalize(file, order) = collected
      <3>1. PICK g : g = file
        OBVIOUS
      <3>2. Normalize(g, order) = Collected(g.storages, K)
        BY <1>4, NormalizeOK
      <3> QED  BY <3>1, <3>2
    <2>2. Load(files, order) = ReadConfig(file, order)
      BY DEF Load
    <2> HIDE DEF file, collected
    <2> QED  BY <2>1, <2>2 DEF ReadConfig
  <1>7. configs = {c}
    <2> HIDE DEF c
    <2> QED  BY <1>5, <1>6
  <1>8. Cardinality(configs) = 1
    BY <1>7, FS_Singleton
  <1>9. ASSUME c.accepted
        PROVE  /\ Registered(c) = IF Startable(file) THEN DOMAIN c.storages ELSE {}
               /\ c.default \in DOMAIN c.storages
               /\ Cardinality(DOMAIN c.storages) = Cardinality(K)
    <2>1. /\ collected.accepted /\ default # "" /\ default \in DOMAIN collected.storages
          /\ c.default = default /\ c.storages = collected.storages
          /\ c.documents = file.documents
      BY <1>9 DEF NotAccepted
    <2> DEFINE storages == collected.storages
    <2>2. /\ \A name \in DOMAIN storages : name # "" /\ \E k \in K :
                Fits(entries[k]) /\ storages[name] = StorageOf(entries[k])
          /\ \A k \in K : \E name \in DOMAIN storages :
                Fits(entries[k]) /\ storages[name] = StorageOf(entries[k])
          /\ Cardinality(DOMAIN storages) = Cardinality(K)
      <3>1. PICK e : e = entries
        OBVIOUS
      <3>2. Collected(e, K).accepted
        BY <2>1, <3>1
      <3>3. LET all == Collected(e, K).storages
            IN  /\ \A name \in DOMAIN all : name # "" /\ \E k \in K :
                      Fits(e[k]) /\ all[name] = StorageOf(e[k])
                /\ \A k \in K : \E name \in DOMAIN all :
                      Fits(e[k]) /\ all[name] = StorageOf(e[k])
                /\ Cardinality(DOMAIN all) = Cardinality(K)
        BY <1>4, <3>2, CollectedOK
      <3> QED  BY <3>1, <3>3
    <2>3. Startable(file) <=> DocumentStoreKnown(c.documents) /\ \A k \in K : entries[k].s3 # "blank"
      BY <2>1 DEF Startable, DocumentStoreKnown, K
    <2> HIDE DEF c, collected, default, entries
    <2>4. \A k \in K : Fits(entries[k]) =>
             (Creatable(StorageOf(entries[k])) <=> entries[k].s3 # "blank")
      BY DEF Fits, Creatable, StorageOf
    <2>5. (\A name \in DOMAIN storages : name # "" /\ Creatable(storages[name])) <=>
             \A k \in K : entries[k].s3 # "blank"
      BY <2>2, <2>4
    <2>6. Registered(c) = IF Startable(file) THEN DOMAIN storages ELSE {}
      <3> HIDE DEF file
      <3> QED  BY <1>9, <2>1, <2>3, <2>5 DEF Registered
    <2> QED  BY <2>1, <2>2, <2>6
  <1>12. ASSUME ~c.accepted PROVE Registered(c) = {}
    <2> HIDE DEF c
    <2> QED  BY <1>12 DEF Registered
  <1>10. ASSUME files = << >> PROVE c.accepted /\ Startable(file) /\ DOMAIN c.storages = {"memory"}
    <2>1. /\ FieldsPresent(file) /\ ~file.negative /\ default = "memory"
          /\ Startable(file)
          /\ K = {1} /\ entries[1] = [name |-> [letters |-> "memory", padded |-> FALSE],
                                      type |-> "memory", s3 |-> "absent"]
      BY <1>10 DEF FieldsPresent, DefaultFile, Trimmed, Startable, K
    <2>2. Trimmed(entries[1].name) = "memory" /\ Fits(entries[1])
      BY <2>1 DEF Trimmed, Fits
    <2> HIDE DEF file, entries, default
    <2>3. /\ \A k \in K : Trimmed(entries[k].name) # "" /\ Fits(entries[k])
          /\ \A j, k \in K : j # k => Trimmed(entries[j].name) # Trimmed(entries[k].name)
      BY <2>1, <2>2
    <2>4. collected.accepted /\ DOMAIN collected.storages = {Trimmed(entries[k].name) : k \in K}
      BY <2>3 DEF Collected
    <2>5. DOMAIN collected.storages = {"memory"}
      BY <2>1, <2>2, <2>4
    <2> HIDE DEF collected
    <2> QED  BY <2>1, <2>4, <2>5
  <1>11. (IF input = << >> THEN DefaultFile ELSE input[1]) = file
    OBVIOUS
  <1> HIDE DEF c, configs, file
  <1> QED  BY <1>7, <1>8, <1>9, <1>10, <1>11, <1>12 DEF ConfigMeansOneThing, configs, entries, K
-----------------------------------------------------------------------------
(* Shards.                                                                   *)

Mappings(numbers, values) == UNION {[T -> values] : T \in SUBSET numbers}

LEMMA MappedOK ==
    ASSUME NEW L, NEW V, NEW mapping \in Mappings(L, V), NEW numbers, numbers \subseteq L,
           NEW value \in V
    PROVE  Mapped(mapping, numbers, value) \in Mappings(L, V)
  <1>1. PICK T \in SUBSET L : mapping \in [T -> V]
    BY DEF Mappings
  <1>2. Mapped(mapping, numbers, value) \in [numbers \cup T -> V]
    BY <1>1 DEF Mapped
  <1> QED  BY <1>2 DEF Mappings

\* The loop of ParseGG over the ifs.
TakesIfs(f, mapping, ifs) ==
    /\ f[0] = mapping
    /\ \A n \in 1 .. Len(ifs) : f[n] = Mapped(f[n - 1], {ifs[n].g}, ifs[n].value)

LEMMA MapIfsLoop ==
    ASSUME NEW L, NEW V, NEW mapping \in Mappings(L, V), NEW ifs \in Seq([g : L, value : V])
    PROVE  \E f \in [0 .. Len(ifs) -> Mappings(L, V)] :
              TakesIfs(f, mapping, ifs) /\ MapIfs(mapping, ifs) = f[Len(ifs)]
  <1> DEFINE S == Mappings(L, V)
             N == Len(ifs)
             turn(m, n) == Mapped(m, {ifs[n].g}, ifs[n].value)
             step == [n \in 1 .. N |-> [m \in S |-> turn(m, n)]]
             Loop(f) == f = [n \in 0 .. N |-> IF n = 0 THEN mapping ELSE turn(f[n - 1], n)]
             c == CHOOSE f : Loop(f)
  <1>1. N \in Nat /\ mapping \in S
    OBVIOUS
  <1>2. ASSUME NEW n \in 1 .. N, NEW m \in S
        PROVE  turn(m, n) \in S
    <2>1. ifs[n] \in [g : L, value : V]
      BY ElementOfSeq
    <2>2. {ifs[n].g} \subseteq L /\ ifs[n].value \in V
      BY <2>1
    <2>3. m \in Mappings(L, V)
      OBVIOUS
    <2> HIDE DEF N, S
    <2>4. Mapped(m, {ifs[n].g}, ifs[n].value) \in Mappings(L, V)
      BY <2>2, <2>3, MappedOK
    <2> QED  BY <2>4 DEF S
  <1>3. MapIfs(mapping, ifs) = c[N]
    BY DEF MapIfs
  <1> HIDE DEF S, N, turn
  <1>4. step \in [1 .. N -> [S -> S]]
    BY <1>2
  <1>5. PICK f \in [0 .. N -> S] : IsLoop(f, N, mapping, step)
    <2> HIDE DEF step
    <2> QED  BY <1>1, <1>4, LoopExists
  <1>6. Loop(f)
    <2>1. ASSUME NEW n \in 1 .. N
          PROVE  n \in 0 .. N /\ n # 0 /\ f[n - 1] \in S /\ step[n][f[n - 1]] = turn(f[n - 1], n)
      BY <1>1
    <2>2. ASSUME NEW n \in 0 .. N
          PROVE  f[n] = IF n = 0 THEN mapping ELSE turn(f[n - 1], n)
      <3> HIDE DEF step
      <3>1. CASE n = 0
        BY <1>5, <3>1 DEF IsLoop
      <3>2. CASE n # 0
        <4>1. n \in 1 .. N
          BY <1>1, <3>2
        <4>2. f[n] = step[n][f[n - 1]]
          BY <1>5, <3>2 DEF IsLoop
        <4> QED  BY <2>1, <3>2, <4>1, <4>2
      <3> QED  BY <3>1, <3>2
    <2> QED  BY <2>2
  <1>7. Loop(c)
    <2> HIDE DEF Loop
    <2> QED  BY <1>6
  <1> HIDE DEF c
  <1>8. 0 \in 0 .. N /\ c[0] = mapping /\ \A n \in 1 .. N : c[n] = turn(c[n - 1], n)
    BY <1>1, <1>7
  <1>9. c \in [0 .. N -> S]
    <2> DEFINE G == {n \in 0 .. N : c[n] \in S}
    <2>1. 0 \in G
      BY <1>1, <1>8
    <2>2. ASSUME NEW n \in 1 .. N, n - 1 \in G PROVE n \in G
      BY <1>1, <1>2, <1>8, <2>2
    <2>3. \A n \in 0 .. N : n \in G
      <3> HIDE DEF G
      <3> QED  BY <1>1, <2>1, <2>2, EachTurn
    <2> QED  BY <1>7, <2>3
  <1> QED  BY <1>3, <1>8, <1>9 DEF N, S, turn, TakesIfs

\* The loop of ParseGG over the labels, group by group.
GroupStates(L, V) == [pending : {{}}, mapping : Mappings(L, V)]

TakesGroups(f, groups) ==
    /\ f[0] = [pending |-> {}, mapping |-> << >>]
    /\ \A n \in 1 .. Len(groups) : f[n] = MapGroup(f[n - 1], groups[n])

LEMMA MapGroupsLoop ==
    ASSUME NEW L, NEW V, NEW groups \in Seq([cases : Seq(L), value : V])
    PROVE  \E f \in [0 .. Len(groups) -> GroupStates(L, V)] :
              TakesGroups(f, groups) /\ MapGroups(groups) = f[Len(groups)].mapping
  <1> DEFINE S == GroupStates(L, V)
             N == Len(groups)
             base == [pending |-> {}, mapping |-> << >>]
             turn(m, n) == MapGroup(m, groups[n])
             step == [n \in 1 .. N |-> [m \in S |-> turn(m, n)]]
             Loop(f) == f = [n \in 0 .. N |-> IF n = 0 THEN base ELSE turn(f[n - 1], n)]
             c == CHOOSE f : Loop(f)
  <1>1. N \in Nat /\ base \in S
    <2>1. << >> \in [{} -> V]
      OBVIOUS
    <2>2. << >> \in Mappings(L, V)
      BY <2>1 DEF Mappings
    <2> QED  BY <2>2 DEF GroupStates
  <1>2. ASSUME NEW n \in 1 .. N, NEW m \in S
        PROVE  turn(m, n) \in S
    <2>1. groups[n] \in [cases : Seq(L), value : V]
      BY ElementOfSeq
    <2>2. groups[n].cases \in Seq(L) /\ groups[n].value \in V
      BY <2>1
    <2>3. m \in GroupStates(L, V)
      OBVIOUS
    <2>4. m.pending = {} /\ m.mapping \in Mappings(L, V)
      BY <2>3 DEF GroupStates
    <2> HIDE DEF N, S
    <2> DEFINE labels == m.pending \cup ToSet(groups[n].cases)
    <2>5. labels \subseteq L
      BY <2>2, <2>4 DEF ToSet
    <2> HIDE DEF labels
    <2>6. Mapped(m.mapping, labels, groups[n].value) \in Mappings(L, V)
      BY <2>2, <2>4, <2>5, MappedOK
    <2>7. MapGroup(m, groups[n]) =
             [pending |-> {}, mapping |-> Mapped(m.mapping, labels, groups[n].value)]
      BY DEF MapGroup, labels
    <2> QED  BY <2>6, <2>7 DEF S, GroupStates
  <1>3. MapGroups(groups) = c[N].mapping
    BY DEF MapGroups
  <1> HIDE DEF S, N, turn, base
  <1>4. step \in [1 .. N -> [S -> S]]
    BY <1>2
  <1>5. PICK f \in [0 .. N -> S] : IsLoop(f, N, base, step)
    <2> HIDE DEF step
    <2> QED  BY <1>1, <1>4, LoopExists
  <1>6. Loop(f)
    <2>1. ASSUME NEW n \in 1 .. N
          PROVE  n \in 0 .. N /\ n # 0 /\ f[n - 1] \in S /\ step[n][f[n - 1]] = turn(f[n - 1], n)
      BY <1>1
    <2>2. ASSUME NEW n \in 0 .. N
          PROVE  f[n] = IF n = 0 THEN base ELSE turn(f[n - 1], n)
      <3> HIDE DEF step
      <3>1. CASE n = 0
        BY <1>5, <3>1 DEF IsLoop
      <3>2. CASE n # 0
        <4>1. n \in 1 .. N
          BY <1>1, <3>2
        <4>2. f[n] = step[n][f[n - 1]]
          BY <1>5, <3>2 DEF IsLoop
        <4> QED  BY <2>1, <3>2, <4>1, <4>2
      <3> QED  BY <3>1, <3>2
    <2> QED  BY <2>2
  <1>7. Loop(c)
    <2> HIDE DEF Loop
    <2> QED  BY <1>6
  <1> HIDE DEF c
  <1>8. 0 \in 0 .. N /\ c[0] = base /\ \A n \in 1 .. N : c[n] = turn(c[n - 1], n)
    BY <1>1, <1>7
  <1>9. c \in [0 .. N -> S]
    <2> DEFINE G == {n \in 0 .. N : c[n] \in S}
    <2>1. 0 \in G
      BY <1>1, <1>8
    <2>2. ASSUME NEW n \in 1 .. N, n - 1 \in G PROVE n \in G
      BY <1>1, <1>2, <1>8, <2>2
    <2>3. \A n \in 0 .. N : n \in G
      <3> HIDE DEF G
      <3> QED  BY <1>1, <2>1, <2>2, EachTurn
    <2> QED  BY <1>7, <2>3
  <1> QED  BY <1>3, <1>8, <1>9 DEF N, S, turn, base, TakesGroups

\* The ifs of the script, as a browser runs them.
RunsIfs(o, script, g) ==
    /\ o[0] = Switched(script, g)
    /\ \A n \in 1 .. Len(script.ifs) :
          o[n] = IF script.ifs[n].g = g THEN script.ifs[n].value ELSE o[n - 1]

LEMMA RunScriptLoop ==
    ASSUME NEW script, NEW g, Len(script.ifs) \in Nat
    PROVE  \E o : RunsIfs(o, script, g) /\ RunScript(script, g) = o[Len(script.ifs)]
  <1> DEFINE N == Len(script.ifs)
             base == Switched(script, g)
             S == {base} \cup {script.ifs[n].value : n \in 1 .. N}
             turn(o, n) == IF script.ifs[n].g = g THEN script.ifs[n].value ELSE o
             step == [n \in 1 .. N |-> [m \in S |-> turn(m, n)]]
             Loop(f) == f = [n \in 0 .. N |-> IF n = 0 THEN base ELSE turn(f[n - 1], n)]
             c == CHOOSE f : Loop(f)
  <1>1. N \in Nat /\ base \in S
    OBVIOUS
  <1>2. ASSUME NEW n \in 1 .. N, NEW m \in S
        PROVE  turn(m, n) \in S
    OBVIOUS
  <1>3. RunScript(script, g) = c[N]
    BY DEF RunScript
  <1> HIDE DEF S, N, turn, base
  <1>4. step \in [1 .. N -> [S -> S]]
    BY <1>2
  <1>5. PICK f \in [0 .. N -> S] : IsLoop(f, N, base, step)
    <2> HIDE DEF step
    <2> QED  BY <1>1, <1>4, LoopExists
  <1>6. Loop(f)
    <2>1. ASSUME NEW n \in 1 .. N
          PROVE  n \in 0 .. N /\ n # 0 /\ f[n - 1] \in S /\ step[n][f[n - 1]] = turn(f[n - 1], n)
      BY <1>1
    <2>2. ASSUME NEW n \in 0 .. N
          PROVE  f[n] = IF n = 0 THEN base ELSE turn(f[n - 1], n)
      <3> HIDE DEF step
      <3>1. CASE n = 0
        BY <1>5, <3>1 DEF IsLoop
      <3>2. CASE n # 0
        <4>1. n \in 1 .. N
          BY <1>1, <3>2
        <4>2. f[n] = step[n][f[n - 1]]
          BY <1>5, <3>2 DEF IsLoop
        <4> QED  BY <2>1, <3>2, <4>1, <4>2
      <3> QED  BY <3>1, <3>2
    <2> QED  BY <2>2
  <1>7. Loop(c)
    <2> HIDE DEF Loop
    <2> QED  BY <1>6
  <1> HIDE DEF c
  <1>8. 0 \in 0 .. N /\ c[0] = base /\ \A n \in 1 .. N : c[n] = turn(c[n - 1], n)
    BY <1>1, <1>7
  <1>9. c \in [0 .. N -> S]
    <2> DEFINE G == {n \in 0 .. N : c[n] \in S}
    <2>1. 0 \in G
      BY <1>1, <1>8
    <2>2. ASSUME NEW n \in 1 .. N, n - 1 \in G PROVE n \in G
      BY <1>1, <1>2, <1>8, <2>2
    <2>3. \A n \in 0 .. N : n \in G
      <3> HIDE DEF G
      <3> QED  BY <1>1, <2>1, <2>2, EachTurn
    <2> QED  BY <1>7, <2>3
  <1> QED  BY <1>3, <1>8, <1>9 DEF N, S, turn, base, RunsIfs

\* What the labels up to one place give a number, if no number has two labels: the
\* value of the group it is a label of.
LEMMA SwitchOK ==
    ASSUME NEW L, NEW V, NEW groups \in Seq([cases : Seq(L), value : V]), NEW g,
           \A m, n \in DOMAIN groups :
              m # n => ToSet(groups[m].cases) \cap ToSet(groups[n].cases) = {}
    PROVE  /\ MapGroups(groups) \in Mappings(L, V)
           /\ g \in DOMAIN MapGroups(groups) <=>
                 \E k \in 1 .. Len(groups) : g \in ToSet(groups[k].cases)
           /\ \A k \in 1 .. Len(groups) :
                 g \in ToSet(groups[k].cases) => MapGroups(groups)[g] = groups[k].value
  <1> DEFINE N == Len(groups)
             hit(k) == g \in ToSet(groups[k].cases)
  <1>0. PICK f \in [0 .. Len(groups) -> GroupStates(L, V)] :
              TakesGroups(f, groups) /\ MapGroups(groups) = f[Len(groups)].mapping
    BY MapGroupsLoop
  <1>1. /\ f \in [0 .. N -> GroupStates(L, V)]
        /\ MapGroups(groups) = f[N].mapping
        /\ f[0] = [pending |-> {}, mapping |-> << >>]
        /\ \A n \in 1 .. N : f[n] = MapGroup(f[n - 1], groups[n])
    BY <1>0 DEF TakesGroups
  <1>2. N \in Nat /\ DOMAIN groups = 1 .. N
    OBVIOUS
  <1> DEFINE OK(n) == /\ g \in DOMAIN f[n].mapping <=> \E k \in 1 .. n : hit(k)
                      /\ \A k \in 1 .. n : hit(k) => f[n].mapping[g] = groups[k].value
             G == {n \in 0 .. N : OK(n)}
  <1>3. 0 \in G
    BY <1>1, <1>2
  <1>4. ASSUME NEW n \in 1 .. N, n - 1 \in G PROVE n \in G
    <2> DEFINE before == f[n - 1].mapping
               labels == ToSet(groups[n].cases)
    <2>0. n - 1 \in 0 .. N
      BY <1>2
    <2>1. f[n - 1] \in GroupStates(L, V)
      BY <1>1, <2>0
    <2>2. f[n - 1].pending = {}
      BY <2>1 DEF GroupStates
    <2>3. f[n].mapping = Mapped(before, labels, groups[n].value)
      <3>1. f[n] = MapGroup(f[n - 1], groups[n])
        BY <1>1
      <3>2. {} \cup ToSet(groups[n].cases) = ToSet(groups[n].cases)
        OBVIOUS
      <3> QED  BY <2>2, <3>1, <3>2 DEF MapGroup
    <2>4. OK(n - 1)
      BY <1>4
    <2>5. \A k \in 1 .. n : k \in 1 .. (n - 1) \/ k = n
      BY <1>2
    <2>6. ASSUME NEW k \in 1 .. (n - 1) PROVE k \in 1 .. N /\ k # n /\ (hit(k) => g \notin labels)
      <3>1. k \in 1 .. N /\ k # n
        BY <1>2
      <3>2. ToSet(groups[k].cases) \cap ToSet(groups[n].cases) = {}
        BY <1>2, <3>1
      <3> QED  BY <3>1, <3>2
    <2> HIDE DEF before, labels
    <2>7. DOMAIN f[n].mapping = labels \cup DOMAIN before
      BY <2>3 DEF Mapped
    <2>8. g \in labels => f[n].mapping[g] = groups[n].value
      BY <2>3 DEF Mapped
    <2>9. g \in DOMAIN before \ labels => f[n].mapping[g] = before[g]
      BY <2>3 DEF Mapped
    <2>10. hit(n) <=> g \in labels
      BY DEF labels
    <2>11. n \in 0 .. N /\ n \in 1 .. n /\ 1 .. (n - 1) \subseteq 1 .. n
      BY <1>2
    <2>12. /\ g \in DOMAIN before <=> \E k \in 1 .. (n - 1) : hit(k)
           /\ \A k \in 1 .. (n - 1) : hit(k) => before[g] = groups[k].value
      BY <2>4 DEF before
    <2> HIDE DEF hit
    <2>13. g \in DOMAIN f[n].mapping <=> \E k \in 1 .. n : hit(k)
      BY <2>5, <2>7, <2>10, <2>11, <2>12
    <2>14. ASSUME NEW k \in 1 .. n, hit(k) PROVE f[n].mapping[g] = groups[k].value
      <3>1. CASE k = n
        BY <2>8, <2>10, <2>14, <3>1
      <3>2. CASE k # n
        <4>1. k \in 1 .. (n - 1)
          BY <2>5, <3>2
        <4> QED  BY <2>6, <2>9, <2>12, <2>14, <4>1
      <3> QED  BY <3>1, <3>2
    <2> QED  BY <2>11, <2>13, <2>14
  <1>5. N \in G
    <2>1. \A n \in 0 .. N : n \in G
      <3> HIDE DEF G
      <3> QED  BY <1>2, <1>3, <1>4, EachTurn
    <2> HIDE DEF G
    <2> QED  BY <1>2, <2>1
  <1>6. f[N] \in GroupStates(L, V)
    BY <1>2
  <1>7. f[N].mapping \in Mappings(L, V)
    BY <1>6 DEF GroupStates
  <1> QED  BY <1>1, <1>5, <1>7

Cased(script, g) == \E n \in DOMAIN script.groups : g \in ToSet(script.groups[n].cases)

\* What the script has for a number without a label.
Unlabelled(script) ==
    LET otherwise == Otherwise(script)
    IN  IF otherwise = << >> THEN Undefined ELSE otherwise[Len(otherwise)]

\* The switch gives a number what a mapping has for it.
Follows(script, g, mapping) ==
    Switched(script, g) = IF g \in DOMAIN mapping THEN mapping[g] ELSE Unlabelled(script)

\* And so does the switch of the script.
LEMMA SwitchedOK ==
    ASSUME NEW L, NEW V, NEW script, script.groups \in Seq([cases : Seq(L), value : V]), NEW g,
           LabelsDistinct(script)
    PROVE  LET mapping == MapGroups(script.groups)
           IN  /\ Cased(script, g) <=> g \in DOMAIN mapping
               /\ Follows(script, g, mapping)
  <1> DEFINE groups == script.groups
             N == Len(groups)
             hit == {n \in DOMAIN groups : g \in ToSet(groups[n].cases)}
             first == CHOOSE n \in hit : \A k \in hit : n <= k
             mapping == MapGroups(groups)
  <1>1. N \in Nat /\ DOMAIN groups = 1 .. N
    OBVIOUS
  <1>2. /\ g \in DOMAIN mapping <=> \E k \in 1 .. N : g \in ToSet(groups[k].cases)
        /\ \A k \in 1 .. N : g \in ToSet(groups[k].cases) => mapping[g] = groups[k].value
    <2> HIDE DEF mapping, N, groups
    <2>1. \A m, n \in DOMAIN groups :
              m # n => ToSet(groups[m].cases) \cap ToSet(groups[n].cases) = {}
      BY DEF LabelsDistinct, groups
    <2>2. groups \in Seq([cases : Seq(L), value : V])
      BY DEF groups
    <2> QED  BY <2>1, <2>2, SwitchOK DEF mapping, N
  <1> HIDE DEF mapping, groups, N
  <1>3. ASSUME hit = {} PROVE Switched(script, g) = Unlabelled(script)
    BY <1>3 DEF Switched, Unlabelled, groups
  <1>4. ASSUME hit # {} PROVE Switched(script, g) = mapping[g]
    <2>1. Switched(script, g) = groups[first].value
      BY <1>4 DEF Switched, groups
    <2>2. hit \subseteq Nat
      BY <1>1
    <2>3. \E n \in hit : \A k \in hit : n <= k
      <3> HIDE DEF hit
      <3> QED  BY <1>4, <2>2, LeastNatural
    <2>4. first \in hit
      <3> HIDE DEF hit
      <3> QED  BY <2>3
    <2> HIDE DEF first
    <2>5. mapping[g] = groups[first].value
      BY <1>1, <1>2, <2>4
    <2> QED  BY <2>1, <2>5
  <1>5. Cased(script, g) <=> hit # {}
    BY DEF Cased, groups
  <1>6. g \in DOMAIN mapping <=> hit # {}
    BY <1>1, <1>2
  <1> HIDE DEF hit
  <1>7. Follows(script, g, mapping)
    BY <1>3, <1>4, <1>6 DEF Follows
  <1> QED  BY <1>5, <1>6, <1>7 DEF groups, mapping

\* The first of the values for the others is the last exactly if there is one value.
LEMMA OtherwiseOK ==
    ASSUME NEW script \in Scripts
    PROVE  LET otherwise == Otherwise(script)
           IN  (IF otherwise = << >> THEN 0 ELSE otherwise[1]) = Unlabelled(script) <=>
                   Cardinality(ToSet(otherwise)) = 1
  <1> DEFINE s == Otherwise(script)
  <1>1. PICK a, b : a = script.initial /\ b = script.default
    OBVIOUS
  <1>2. a \in Seq(Nat) /\ Len(a) <= 1 /\ b \in Seq(Nat) /\ Len(b) <= 1
    BY <1>1, ScriptsAssumption
  <1>3. s = a \o b
    BY <1>1 DEF Otherwise
  <1>4. Len(a) \in Nat /\ Len(b) \in Nat /\ s \in Seq(Nat) /\ Len(s) = Len(a) + Len(b)
    BY <1>2, <1>3, LenProperties
  <1>5. Len(s) \in {0, 1, 2} /\ DOMAIN s = 1 .. Len(s) /\ (s = << >> <=> Len(s) = 0)
    BY <1>2, <1>4
  <1>6. Unlabelled(script) = IF s = << >> THEN -1 ELSE s[Len(s)]
    BY DEF Unlabelled, Undefined
  <1>7. \A n \in 1 .. Len(s) : s[n] \in Nat
    BY <1>4
  <1> HIDE DEF s
  <1>8. ToSet(s) = {s[n] : n \in 1 .. Len(s)}
    BY <1>5 DEF ToSet
  <1>9. CASE Len(s) = 0
    <2>1. ToSet(s) = {}
      BY <1>8, <1>9
    <2>2. Cardinality(ToSet(s)) = 0
      BY <2>1, FS_EmptySet
    <2> QED  BY <1>5, <1>6, <1>9, <2>2 DEF s
  <1>10. CASE Len(s) = 1
    <2>1. ToSet(s) = {s[1]}
      BY <1>8, <1>10
    <2>2. Cardinality(ToSet(s)) = 1
      BY <2>1, FS_Singleton
    <2> QED  BY <1>5, <1>6, <1>10, <2>2 DEF s
  <1>11. CASE Len(s) = 2
    <2>1. ToSet(s) = {s[1], s[2]}
      <3>1. 1 .. 2 = {1, 2}
        OBVIOUS
      <3> QED  BY <1>8, <1>11, <3>1
    <2>2. Cardinality(ToSet(s)) = 1 <=> s[1] = s[2]
      <3>1. CASE s[1] = s[2]
        <4>1. ToSet(s) = {s[1]}
          BY <2>1, <3>1
        <4> QED  BY <3>1, <4>1, FS_Singleton
      <3>2. ASSUME Cardinality(ToSet(s)) = 1 PROVE s[1] = s[2]
        <4>1. IsFiniteSet(ToSet(s))
          <5>1. IsFiniteSet({s[1]})
            BY FS_Singleton
          <5>2. IsFiniteSet({s[1]} \cup {s[2]})
            BY <5>1, FS_AddElement
          <5>3. {s[1], s[2]} = {s[1]} \cup {s[2]}
            OBVIOUS
          <5> QED  BY <2>1, <5>2, <5>3
        <4>2. PICK x : ToSet(s) = {x}
          BY <3>2, <4>1, FS_Singleton
        <4> QED  BY <2>1, <4>2
      <3> QED  BY <3>1, <3>2
    <2> QED  BY <1>5, <1>6, <1>11, <2>2 DEF s
  <1> QED  BY <1>5, <1>9, <1>10, <1>11

LEMMA ShardOK ==
    ASSUME NEW script \in Scripts, NEW hash \in Hashes, topic = "script",
           input = [script |-> script, hash |-> hash]
    PROVE  ShardAsScript
  <1> SUFFICES ASSUME LabelsDistinct(script), NEW inum, inum = Inum(hash)
               PROVE  Shard(ParseGG(script), inum) = RunScript(script, inum) <=>
                         Labelled(script, inum) \/ Cardinality(ToSet(Otherwise(script))) = 1
    BY DEF ShardAsScript
  <1> DEFINE ifs == script.ifs
             N == Len(ifs)
             switched == MapGroups(script.groups)
  <1>0. PICK L : L = Nat
    OBVIOUS
  <1>1. /\ script.groups \in Seq([cases : Seq(L), value : L])
        /\ ifs \in Seq([g : L, value : L])
    BY <1>0, ScriptsAssumption
  <1>2. switched \in Mappings(L, L)
    <2>1. \A m, n \in DOMAIN script.groups :
              m # n => ToSet(script.groups[m].cases) \cap ToSet(script.groups[n].cases) = {}
      BY DEF LabelsDistinct
    <2> QED  BY <1>1, <2>1, SwitchOK
  <1> DEFINE cased == Cased(script, inum)
             otherwise == Otherwise(script)
             default == IF otherwise = << >> THEN 0 ELSE otherwise[1]
  <1>3. /\ cased <=> inum \in DOMAIN switched
        /\ Switched(script, inum) = IF cased THEN switched[inum] ELSE Unlabelled(script)
    <2>1. /\ cased <=> inum \in DOMAIN switched
          /\ Follows(script, inum, switched)
      BY <1>1, SwitchedOK
    <2> HIDE DEF switched, cased
    <2> QED  BY <2>1 DEF Follows
  <1> HIDE DEF switched, ifs
  <1>4. PICK f \in [0 .. Len(ifs) -> Mappings(L, L)] :
           TakesIfs(f, switched, ifs) /\ MapIfs(switched, ifs) = f[Len(ifs)]
    <2>1. PICK m, i : m = switched /\ i = ifs
      OBVIOUS
    <2>2. m \in Mappings(L, L)
      BY <1>2, <2>1
    <2>3. i \in Seq([g : L, value : L])
      BY <1>1, <2>1
    <2>4. \E f \in [0 .. Len(i) -> Mappings(L, L)] : TakesIfs(f, m, i) /\ MapIfs(m, i) = f[Len(i)]
      BY <2>2, <2>3, MapIfsLoop
    <2> QED  BY <2>1, <2>4
  <1>5. N \in Nat
    BY <1>1
  <1>6. PICK o : RunsIfs(o, script, inum) /\ RunScript(script, inum) = o[Len(script.ifs)]
    BY <1>5, RunScriptLoop DEF ifs
  <1> DEFINE named(n) == cased \/ \E k \in 1 .. n : ifs[k].g = inum
             OK(n) == /\ named(n) <=> inum \in DOMAIN f[n]
                      /\ o[n] = IF named(n) THEN f[n][inum] ELSE Unlabelled(script)
             G == {n \in 0 .. N : OK(n)}
  <1> HIDE DEF cased, default
  <1>7. 0 \in G
    BY <1>3, <1>4, <1>5, <1>6 DEF TakesIfs, RunsIfs
  <1>8. ASSUME NEW n \in 1 .. N, n - 1 \in G PROVE n \in G
    <2>1. f[n] = Mapped(f[n - 1], {ifs[n].g}, ifs[n].value)
      BY <1>4 DEF TakesIfs
    <2>2. o[n] = IF ifs[n].g = inum THEN ifs[n].value ELSE o[n - 1]
      BY <1>6 DEF RunsIfs, ifs
    <2>3. OK(n - 1)
      BY <1>8
    <2>6. /\ n \in 0 .. N /\ n \in 1 .. n
          /\ \A k \in 1 .. n : k \in 1 .. (n - 1) \/ k = n
          /\ \A k \in 1 .. (n - 1) : k \in 1 .. n
      BY <1>5
    <2>4. CASE ifs[n].g = inum
      <3>1. inum \in DOMAIN f[n] /\ f[n][inum] = ifs[n].value
        BY <2>1, <2>4 DEF Mapped
      <3>2. named(n)
        BY <2>4, <2>6
      <3> QED  BY <2>2, <2>4, <2>6, <3>1, <3>2
    <2>5. CASE ifs[n].g # inum
      <3>1. inum \in DOMAIN f[n] <=> inum \in DOMAIN f[n - 1]
        BY <2>1, <2>5 DEF Mapped
      <3>2. inum \in DOMAIN f[n - 1] => f[n][inum] = f[n - 1][inum]
        BY <2>1, <2>5 DEF Mapped
      <3>3. named(n) <=> named(n - 1)
        BY <2>5, <2>6
      <3> HIDE DEF named
      <3> QED  BY <2>2, <2>3, <2>5, <2>6, <3>1, <3>2, <3>3
    <2> QED  BY <2>4, <2>5
  <1>9. OK(N)
    <2>1. \A n \in 0 .. N : n \in G
      <3> HIDE DEF G, N
      <3> QED  BY <1>5, <1>7, <1>8, EachTurn
    <2>2. N \in 0 .. N
      BY <1>5
    <2>3. N \in G
      BY <2>1, <2>2
    <2> QED  BY <2>3
  <1>10. Shard(ParseGG(script), inum) = IF inum \in DOMAIN f[N] THEN f[N][inum] ELSE default
    <2>1. ParseGG(script) = [mapping |-> f[N], default |-> default]
      BY <1>4 DEF ParseGG, switched, ifs, default
    <2> QED  BY <2>1 DEF Shard
  <1>11. default = Unlabelled(script) <=> Cardinality(ToSet(Otherwise(script))) = 1
    BY OtherwiseOK DEF default
  <1>12. Labelled(script, inum) <=> named(N)
    <2>1. DOMAIN script.ifs = 1 .. N
      BY <1>1 DEF ifs
    <2> QED  BY <2>1 DEF Labelled, Cased, cased, ifs
  <1>13. RunScript(script, inum) = o[N]
    BY <1>6 DEF ifs
  <1> HIDE DEF named, N
  <1> QED  BY <1>9, <1>10, <1>11, <1>12, <1>13
-----------------------------------------------------------------------------
(* Images.                                                                   *)

\* Multiples of one number.
LEMMA Multiples ==
    ASSUME NEW c \in Nat, NEW a \in Nat, NEW b \in Nat
    PROVE  /\ c * a \in Nat
           /\ c * (a + 1) = c * a + c
           /\ a <= b => c * a <= c * b
  <1>1. c * a \in Nat
    OBVIOUS
  <1>2. c * (a + 1) = c * a + c
    OBVIOUS
  <1>3. ASSUME a <= b PROVE c * a <= c * b
    <2>1. PICK d \in Nat : b = a + d
      BY <1>3
    <2>2. c * (a + d) = c * a + c * d
      OBVIOUS
    <2>3. c * d >= 0
      OBVIOUS
    <2> QED  BY <2>1, <2>2, <2>3
  <1> QED  BY <1>1, <1>2, <1>3

LEMMA Division ==
    ASSUME NEW n \in Nat, NEW d \in Nat, d > 0
    PROVE  /\ n \div d \in Nat /\ n % d \in 0 .. (d - 1)
           /\ n = d * (n \div d) + (n % d)
  OBVIOUS

LEMMA Quotient ==
    ASSUME NEW n \in Nat, NEW d \in Nat, d > 0, NEW q \in Nat, d * q <= n, n < d * q + d
    PROVE  n \div d = q
  <1> DEFINE k == n \div d
  <1>1. k \in Nat /\ d * k <= n /\ n < d * k + d
    BY Division
  <1> HIDE DEF k
  <1>2. ASSUME k < q PROVE FALSE
    <2>1. d * (k + 1) <= d * q /\ d * (k + 1) = d * k + d
      BY <1>1, <1>2, Multiples
    <2> QED  BY <1>1, <2>1
  <1>3. ASSUME q < k PROVE FALSE
    <2>1. d * (q + 1) <= d * k /\ d * (q + 1) = d * q + d
      BY <1>1, <1>3, Multiples
    <2>2. d * k \in Nat /\ d * q \in Nat
      BY <1>1
    <2> QED  BY <1>1, <2>1, <2>2
  <1> QED  BY <1>1, <1>2, <1>3 DEF k

\* How the client takes an image apart, s > 0: from the top of the result, the piece a
\* row y of it belongs to, and the row of the scrambled image it shows.
RowAt(h, s, y, i, r) ==
    LET over == h % s
        size == h \div s
    IN  \/ i = 0 /\ y < size + over /\ r = size * (s - 1) + y
        \/ i > 0 /\ size * i + over <= y /\ y < size * i + over + size
           /\ r = size * (s - 1 - i) + (y - over - size * i)

LEMMA CutOK ==
    ASSUME NEW h \in Nat, NEW s \in Nat, s > 0
    PROVE  /\ h \div s \in Nat /\ h % s \in Nat
           /\ h = (h \div s) * s + (h % s)
           /\ (h \div s) * s \in Nat
           /\ (h \div s) * s = (h \div s) * (s - 1) + (h \div s)
           /\ (h \div s) * (s - 1) \in Nat
  <1> DEFINE size == h \div s
  <1>1. size \in Nat /\ h % s \in Nat /\ h = s * size + (h % s)
    BY Division
  <1> HIDE DEF size
  <1>2. s * size = size * s
    BY <1>1
  <1>3. s - 1 \in Nat /\ s = (s - 1) + 1
    OBVIOUS
  <1>4. size * ((s - 1) + 1) = size * (s - 1) + size /\ size * (s - 1) \in Nat /\ size * s \in Nat
    BY <1>1, <1>3, Multiples
  <1> QED  BY <1>1, <1>2, <1>3, <1>4 DEF size

\* Where a piece goes covers the rows RowAt gives it, and comes from those.
LEMMA PieceOK ==
    ASSUME NEW h \in Nat, NEW s \in Nat, s > 0, NEW i \in 0 .. s - 1, NEW y \in 0 .. h - 1
    PROVE  LET p == PieceAt(h, s, i)
           IN  p.to <= y /\ y < p.to + p.rows <=> RowAt(h, s, y, i, p.from + (y - p.to))
  <1> DEFINE size == h \div s
             over == h % s
             p == PieceAt(h, s, i)
  <1>1. /\ size \in Nat /\ over \in Nat /\ h = size * s + over
        /\ size * s = size * (s - 1) + size /\ size * (s - 1) \in Nat
    BY CutOK
  <1>2. /\ p.from = h - size * (i + 1) - over
        /\ p.to = size * i + (IF i = 0 THEN 0 ELSE over)
        /\ p.rows = IF i = 0 THEN size + over ELSE size
    BY DEF PieceAt
  <1>3. /\ size * i \in Nat /\ size * (i + 1) = size * i + size
        /\ size * (s - 1 - i) = size * s - size * i - size
    <2>1. size * i \in Nat /\ size * (i + 1) = size * i + size
      BY <1>1, Multiples
    <2>2. s - 1 - i \in Nat /\ s = (s - 1 - i) + (i + 1)
      OBVIOUS
    <2>3. size * ((s - 1 - i) + (i + 1)) = size * (s - 1 - i) + size * (i + 1)
      BY <1>1
    <2> QED  BY <1>1, <2>1, <2>2, <2>3
  <1>4. i \in Nat /\ y \in Nat
    OBVIOUS
  <1> HIDE DEF p
  <1>5. CASE i = 0
    <2>1. size * 0 = 0
      BY <1>1
    <2>2. size * i = 0 /\ p.to = 0 /\ p.rows = size + over /\ p.from = size * (s - 1)
      BY <1>1, <1>2, <1>3, <1>5, <2>1
    <2>3. RowAt(h, s, y, i, p.from + (y - p.to)) <=> y < size + over
      BY <1>1, <1>4, <1>5, <2>2 DEF RowAt
    <2> QED  BY <1>1, <1>4, <2>2, <2>3 DEF p
  <1>6. CASE i > 0
    <2>1. p.to = size * i + over /\ p.rows = size /\ p.from = size * (s - 1 - i)
      BY <1>1, <1>2, <1>3, <1>6
    <2>2. p.from + (y - p.to) = size * (s - 1 - i) + (y - over - size * i)
      BY <1>1, <1>3, <1>4, <2>1
    <2>3. RowAt(h, s, y, i, p.from + (y - p.to)) <=>
             size * i + over <= y /\ y < size * i + over + size
      BY <1>6, <2>2 DEF RowAt
    <2> QED  BY <2>1, <2>3 DEF p
  <1> QED  BY <1>4, <1>5, <1>6

\* Every row of the result lies in one piece, and shows a row of the image that lies in
\* the piece as far from the bottom.
LEMMA RowsCovered ==
    ASSUME NEW h \in Nat, NEW s \in Nat, s > 0, NEW y \in 0 .. h - 1
    PROVE  \E i \in 0 .. s - 1, r \in Int : RowAt(h, s, y, i, r)
  <1> DEFINE size == h \div s
             over == h % s
  <1>1. /\ size \in Nat /\ over \in Nat /\ h = size * s + over
        /\ size * s = size * (s - 1) + size /\ size * (s - 1) \in Nat /\ size * s \in Nat
    BY CutOK
  <1>2. y \in Nat /\ y < h /\ 0 \in 0 .. s - 1
    OBVIOUS
  <1>3. CASE y < size + over
    <2>1. RowAt(h, s, y, 0, size * (s - 1) + y) /\ size * (s - 1) + y \in Int
      BY <1>1, <1>2, <1>3 DEF RowAt
    <2> QED  BY <1>2, <2>1
  <1>4. CASE size + over <= y
    <2> DEFINE n == y - over
               i == n \div size
    <2> HIDE DEF over
    <2>1. n \in Nat /\ size <= n
      BY <1>1, <1>2, <1>4
    <2>2. size > 0
      <3> SUFFICES ASSUME size = 0 PROVE FALSE
        BY <1>1
      <3>1. size * s = 0
        BY <1>1
      <3> QED  BY <1>1, <1>2, <1>4, <3>1
    <2> HIDE DEF n, size
    <2>3. i \in Nat /\ size * i <= n /\ n < size * i + size
      <3>1. n \div size \in Nat /\ n % size \in 0 .. (size - 1) /\ n = size * (n \div size) + (n % size)
        BY <1>1, <2>1, <2>2, Division
      <3>2. size * (n \div size) \in Nat
        BY <1>1, <3>1, Multiples
      <3> QED  BY <1>1, <2>1, <3>1, <3>2
    <2> HIDE DEF i
    <2>4. i # 0
      <3> SUFFICES ASSUME i = 0 PROVE FALSE
        OBVIOUS
      <3>1. size * i = 0
        BY <1>1
      <3> QED  BY <1>1, <2>1, <2>3, <3>1
    <2>5. i < s
      <3> SUFFICES ASSUME s <= i PROVE FALSE
        BY <2>3
      <3>1. size * s <= size * i
        BY <1>1, <2>3, Multiples
      <3>2. n < size * s /\ size * i \in Nat
        BY <1>1, <1>2, <2>1, <2>3 DEF n
      <3> QED  BY <1>1, <2>1, <2>3, <3>1, <3>2
    <2>6. size * i \in Nat /\ s - 1 - i \in Nat
      BY <1>1, <2>3, <2>5, Multiples
    <2>7. size * (s - 1 - i) \in Nat
      BY <1>1, <2>6, Multiples
    <2>8. size * (s - 1 - i) + (y - over - size * i) \in Int
      BY <1>1, <1>2, <2>6, <2>7
    <2>9. RowAt(h, s, y, i, size * (s - 1 - i) + (y - over - size * i))
      BY <1>1, <1>2, <2>3, <2>4, <2>6 DEF RowAt, n, size, over
    <2> QED  BY <2>3, <2>5, <2>8, <2>9
  <1> QED  BY <1>1, <1>2, <1>3, <1>4

\* Of two rows of the result the upper one lies in the same piece or one before.
LEMMA RowsInOrder ==
    ASSUME NEW h \in Nat, NEW s \in Nat, s > 0, NEW y \in Int, NEW z \in Int, y <= z,
           NEW i \in Nat, NEW k \in Nat, NEW r, NEW q, RowAt(h, s, y, i, r), RowAt(h, s, z, k, q)
    PROVE  i <= k /\ (i = k => r \in Int /\ q \in Int /\ q - r = z - y)
  <1> DEFINE size == h \div s
             over == h % s
  <1>1. /\ size \in Nat /\ over \in Nat /\ size * (s - 1) \in Nat
    BY CutOK
  <1>2. size * i \in Nat /\ size * k \in Nat
    BY <1>1, Multiples
  <1>3. i <= k
    <2> SUFFICES ASSUME k < i PROVE FALSE
      OBVIOUS
    <2>1. size * (k + 1) <= size * i /\ size * (k + 1) = size * k + size
      <3>1. k + 1 <= i /\ k + 1 \in Nat
        OBVIOUS
      <3> QED  BY <1>1, <3>1, Multiples
    <2>2. size * i + over <= y
      BY DEF RowAt
    <2>3. z < size * k + over + size
      <3>1. CASE k = 0
        <4>1. size * k = 0
          BY <1>1, <3>1
        <4> QED  BY <1>1, <3>1, <4>1 DEF RowAt
      <3>2. CASE k > 0
        BY <3>2 DEF RowAt
      <3> QED  BY <3>1, <3>2
    <2> HIDE DEF size, over
    <2> QED  BY <1>1, <1>2, <2>1, <2>2, <2>3
  <1>4. ASSUME i = k PROVE r \in Int /\ q \in Int /\ q - r = z - y
    <2>1. CASE i = 0
      <3>1. r = size * (s - 1) + y /\ q = size * (s - 1) + z
        BY <1>4, <2>1 DEF RowAt
      <3> QED  BY <1>1, <3>1
    <2>2. CASE i > 0
      <3>1. /\ r = size * (s - 1 - i) + (y - over - size * i)
            /\ q = size * (s - 1 - i) + (z - over - size * i)
        BY <1>4, <2>2 DEF RowAt
      <3>2. size * (s - 1 - i) \in Int
        BY <1>1
      <3> HIDE DEF size, over
      <3> QED  BY <1>1, <1>2, <3>1, <3>2
    <2> QED  BY <2>1, <2>2
  <1> QED  BY <1>3, <1>4

\* The row it shows is one of the image, in the piece with that number from the bottom.
LEMMA RowShown ==
    ASSUME NEW h \in Nat, NEW s \in Nat, s > 0, NEW y \in 0 .. h - 1, NEW i \in 0 .. s - 1,
           NEW r, RowAt(h, s, y, i, r)
    PROVE  r \in 0 .. h - 1 /\ PieceOf(h, s, r) = s - 1 - i
  <1> DEFINE size == h \div s
             over == h % s
             k == s - 1 - i
  <1>1. /\ size \in Nat /\ over \in Nat /\ h = size * s + over
        /\ size * s = size * (s - 1) + size /\ size * (s - 1) \in Nat /\ size * s \in Nat
    BY CutOK
  <1>2. y \in Nat /\ i \in Nat /\ k \in Nat
    OBVIOUS
  <1>3. CASE i = 0
    <2>1. y < size + over /\ r = size * (s - 1) + y
      BY <1>3 DEF RowAt
    <2>2. size * (s - 1) <= r /\ r \in 0 .. h - 1
      <3> HIDE DEF size, over
      <3> QED  BY <1>1, <1>2, <2>1
    <2> QED  BY <1>3, <2>2 DEF PieceOf
  <1>4. CASE i > 0
    <2>1. /\ size * i + over <= y /\ y < size * i + over + size
          /\ r = size * k + (y - over - size * i)
      BY <1>4 DEF RowAt
    <2>2. size * i \in Nat /\ size * k \in Nat
      BY <1>1, <1>2, Multiples
    <2>3. size > 0
      <3> HIDE DEF size, over
      <3> QED  BY <1>1, <1>2, <2>1, <2>2
    <2>4. r \in Nat /\ size * k <= r /\ r < size * k + size
      <3> HIDE DEF size, over, k
      <3> QED  BY <1>1, <1>2, <2>1, <2>2
    <2>5. size * (k + 1) = size * k + size /\ size * (k + 1) <= size * (s - 1)
      <3>1. k + 1 <= s - 1 /\ k + 1 \in Nat /\ s - 1 \in Nat
        BY <1>4
      <3> QED  BY <1>1, <1>2, <3>1, Multiples
    <2>6. r < size * (s - 1)
      <3> HIDE DEF size, over, k
      <3> QED  BY <1>1, <2>2, <2>4, <2>5
    <2>7. r \div size = k
      <3> HIDE DEF size, over, k
      <3> QED  BY <1>1, <1>2, <2>3, <2>4, Quotient
    <2>8. r \in 0 .. h - 1
      <3> HIDE DEF size, over, k
      <3> QED  BY <1>1, <2>4, <2>6
    <2>9. ~(size * (s - 1) <= r)
      <3> HIDE DEF size, over, k
      <3> QED  BY <1>1, <2>4, <2>6
    <2>10. PieceOf(h, s, r) = k
      BY <2>7, <2>9 DEF PieceOf
    <2> QED  BY <2>8, <2>10
  <1> QED  BY <1>2, <1>3, <1>4

\* rearrangeImage shows those rows.
LEMMA RearrangeOK ==
    ASSUME NEW h \in Nat, NEW s \in Nat, s > 0, NEW y \in 0 .. h - 1,
           NEW i \in 0 .. s - 1, NEW r \in Int, RowAt(h, s, y, i, r)
    PROVE  RearrangeImage(h, s)[y + 1] = r
  <1> DEFINE covers(k) == LET p == PieceAt(h, s, k) IN p.to <= y /\ y < p.to + p.rows
             covering == {k \in 0 .. s - 1 : covers(k)}
             row(k) == PieceAt(h, s, k).from + (y - PieceAt(h, s, k).to)
             last == CHOOSE k \in covering : \A m \in covering : m <= k
  <1>1. \A k \in 0 .. s - 1 : covers(k) <=> RowAt(h, s, y, k, row(k))
    BY PieceOK
  <1>2. \A k \in 0 .. s - 1 : \A q : RowAt(h, s, y, k, q) => k = i /\ q = r
    <2> SUFFICES ASSUME NEW k \in 0 .. s - 1, NEW q, RowAt(h, s, y, k, q)
                 PROVE  k = i /\ q = r
      OBVIOUS
    <2>1. y \in Int /\ y <= y /\ i \in Nat /\ k \in Nat
      OBVIOUS
    <2>2. i <= k /\ k <= i
      BY <2>1, RowsInOrder
    <2>3. i = k
      BY <2>1, <2>2
    <2>4. q - r = y - y /\ q \in Int
      BY <2>1, <2>3, RowsInOrder
    <2> QED  BY <2>1, <2>3, <2>4
  <1>3. covers(i)
    <2>1. CASE i = 0
      <3>1. (h \div s) * 0 = 0
        <4>1. h \div s \in Nat
          BY CutOK
        <4> QED  BY <4>1
      <3>2. /\ y < (h \div s) + (h % s)
            /\ PieceAt(h, s, 0).to = 0 /\ PieceAt(h, s, 0).rows = (h \div s) + (h % s)
        <4>1. h \div s \in Nat /\ h % s \in Nat
          BY CutOK
        <4> QED  BY <2>1, <3>1, <4>1 DEF RowAt, PieceAt
      <3> QED  BY <2>1, <3>2
    <2>2. CASE i > 0
      <3>1. /\ (h \div s) * i + (h % s) <= y
            /\ y < (h \div s) * i + (h % s) + (h \div s)
        BY <2>2 DEF RowAt
      <3>2. /\ PieceAt(h, s, i).to = (h \div s) * i + (h % s)
            /\ PieceAt(h, s, i).rows = h \div s
        BY <2>2 DEF PieceAt
      <3> QED  BY <3>1, <3>2
    <2> QED  BY <2>1, <2>2
  <1>4. row(i) = r
    <2> HIDE DEF covers, row
    <2> QED  BY <1>1, <1>2, <1>3
  <1>5. covering = {i}
    <2> HIDE DEF covers, row
    <2> QED  BY <1>1, <1>2, <1>3
  <1>6. last = i
    BY <1>5
  <1>7. RearrangeImage(h, s)[y + 1] = row(last)
    <2>1. y + 1 \in 1 .. h /\ (y + 1) - 1 = y /\ s # 0
      OBVIOUS
    <2>2. covering # {}
      BY <1>5
    <2> QED  BY <2>1, <2>2 DEF RearrangeImage
  <1> QED  BY <1>4, <1>6, <1>7

\* Every row of the image is shown: the row of the result that shows it.
LEMMA EveryRowShown ==
    ASSUME NEW h \in Nat, NEW s \in Nat, s > 0, NEW r \in 0 .. h - 1
    PROVE  \E y \in 0 .. h - 1, i \in 0 .. s - 1 : RowAt(h, s, y, i, r)
  <1> DEFINE size == h \div s
             over == h % s
  <1>1. /\ size \in Nat /\ over \in Nat /\ h = size * s + over
        /\ size * s = size * (s - 1) + size /\ size * (s - 1) \in Nat /\ size * s \in Nat
    BY CutOK
  <1>2. r \in Nat /\ r < h /\ 0 \in 0 .. s - 1
    OBVIOUS
  <1>3. CASE size * (s - 1) <= r
    <2> DEFINE y == r - size * (s - 1)
    <2>1. y \in 0 .. h - 1 /\ y < size + over /\ r = size * (s - 1) + y
      <3> HIDE DEF size, over
      <3> QED  BY <1>1, <1>2, <1>3
    <2>2. RowAt(h, s, y, 0, r)
      BY <2>1 DEF RowAt
    <2> QED  BY <1>2, <2>1, <2>2
  <1>4. CASE r < size * (s - 1)
    <2> DEFINE k == r \div size
               i == s - 1 - k
               y == over + size * i + (r - size * k)
    <2>1. size > 0
      <3> SUFFICES ASSUME size = 0 PROVE FALSE
        BY <1>1
      <3>1. size * (s - 1) = 0
        BY <1>1
      <3> QED  BY <1>2, <1>4, <3>1
    <2> HIDE DEF size, over
    <2>2. k \in Nat /\ r % size \in 0 .. (size - 1) /\ r = size * k + (r % size)
      BY <1>1, <1>2, <2>1, Division
    <2> HIDE DEF k
    <2>3. size * k \in Nat
      BY <1>1, <2>2, Multiples
    <2>4. size * k <= r /\ r < size * k + size
      BY <1>1, <2>2, <2>3
    <2>5. k < s - 1
      <3> SUFFICES ASSUME s - 1 <= k PROVE FALSE
        BY <2>2
      <3>1. size * (s - 1) <= size * k
        BY <1>1, <2>2, Multiples
      <3> QED  BY <1>1, <1>2, <1>4, <2>3, <2>4, <3>1
    <2>6. i \in 0 .. s - 1 /\ i > 0 /\ i \in Nat /\ s - 1 - i = k /\ i + 1 <= s
      BY <2>2, <2>5
    <2> HIDE DEF i
    <2>7. size * i \in Nat /\ size * (i + 1) <= size * s /\ size * (i + 1) = size * i + size
      BY <1>1, <2>6, Multiples
    <2>8. /\ y \in Nat /\ size * i + over <= y /\ y < size * i + over + size
          /\ r = size * k + (y - over - size * i)
      BY <1>1, <1>2, <2>3, <2>4, <2>7
    <2>9. y \in 0 .. h - 1
      BY <1>1, <2>7, <2>8
    <2> HIDE DEF y
    <2>10. RowAt(h, s, y, i, r)
      BY <2>6, <2>8 DEF RowAt, size, over
    <2> QED  BY <2>6, <2>9, <2>10
  <1> QED  BY <1>1, <1>2, <1>3, <1>4

\* The properties RowsRearranged asks for.
LEMMA Arrangement ==
    ASSUME NEW h \in Nat, NEW s \in Nat
    PROVE  LET shown    == RearrangeImage(h, s)
               piece(n) == PieceOf(h, s, shown[n])
           IN  /\ {shown[n] : n \in 1 .. h} = 0 .. h - 1
               /\ \A m, n \in 1 .. h : m < n =>
                     \/ piece(m) > piece(n)
                     \/ piece(m) = piece(n) /\ shown[m] < shown[n]
  <1> DEFINE shown == RearrangeImage(h, s)
             piece(n) == PieceOf(h, s, shown[n])
  <1>1. CASE s = 0
    <2>1. \A n \in 1 .. h : shown[n] = n - 1 /\ piece(n) = 0
      BY <1>1 DEF RearrangeImage, PieceOf
    <2>2. \A r \in 0 .. h - 1 : r + 1 \in 1 .. h /\ shown[r + 1] = r
      BY <2>1
    <2> HIDE DEF shown, piece
    <2>3. \A n \in 1 .. h : shown[n] \in 0 .. h - 1
      BY <2>1
    <2>4. {shown[n] : n \in 1 .. h} = 0 .. h - 1
      BY <2>2, <2>3
    <2>5. \A m, n \in 1 .. h : m < n => piece(m) = piece(n) /\ shown[m] < shown[n]
      BY <2>1
    <2> QED  BY <2>4, <2>5 DEF shown, piece
  <1>2. CASE s > 0
    <2>1. ASSUME NEW n \in 1 .. h
          PROVE  \E i \in 0 .. s - 1 : /\ shown[n] \in 0 .. h - 1
                                      /\ RowAt(h, s, n - 1, i, shown[n])
                                      /\ piece(n) = s - 1 - i
      <3>1. n - 1 \in 0 .. h - 1 /\ (n - 1) + 1 = n
        OBVIOUS
      <3>2. PICK i \in 0 .. s - 1, r \in Int : RowAt(h, s, n - 1, i, r)
        BY <1>2, <3>1, RowsCovered
      <3>3. shown[n] = r
        BY <1>2, <3>1, <3>2, RearrangeOK
      <3>4. r \in 0 .. h - 1 /\ PieceOf(h, s, r) = s - 1 - i
        BY <1>2, <3>1, <3>2, RowShown
      <3> QED  BY <3>2, <3>3, <3>4
    <2>2. ASSUME NEW r \in 0 .. h - 1 PROVE \E n \in 1 .. h : shown[n] = r
      <3>1. PICK y \in 0 .. h - 1, i \in 0 .. s - 1 : RowAt(h, s, y, i, r)
        BY <1>2, EveryRowShown
      <3>2. shown[y + 1] = r /\ y + 1 \in 1 .. h
        BY <1>2, <3>1, RearrangeOK
      <3> QED  BY <3>2
    <2> HIDE DEF shown, piece
    <2>3. {shown[n] : n \in 1 .. h} = 0 .. h - 1
      BY <2>1, <2>2
    <2>4. ASSUME NEW m \in 1 .. h, NEW n \in 1 .. h, m < n
          PROVE  \/ piece(m) > piece(n)
                 \/ piece(m) = piece(n) /\ shown[m] < shown[n]
      <3>1. PICK i \in 0 .. s - 1 : RowAt(h, s, m - 1, i, shown[m]) /\ piece(m) = s - 1 - i
        BY <2>1
      <3>2. PICK k \in 0 .. s - 1 : RowAt(h, s, n - 1, k, shown[n]) /\ piece(n) = s - 1 - k
        BY <2>1
      <3>3. m - 1 \in Int /\ n - 1 \in Int /\ m - 1 <= n - 1 /\ i \in Nat /\ k \in Nat
        BY <2>4
      <3>4. /\ i <= k
            /\ i = k => /\ shown[m] \in Int /\ shown[n] \in Int
                        /\ shown[n] - shown[m] = (n - 1) - (m - 1)
        <4>1. PICK y, z, r, q : y = m - 1 /\ z = n - 1 /\ r = shown[m] /\ q = shown[n]
          OBVIOUS
        <4>2. /\ y \in Int /\ z \in Int /\ y <= z
              /\ RowAt(h, s, y, i, r) /\ RowAt(h, s, z, k, q)
          BY <3>1, <3>2, <3>3, <4>1
        <4>3. i <= k /\ (i = k => r \in Int /\ q \in Int /\ q - r = z - y)
          BY <1>2, <3>3, <4>2, RowsInOrder
        <4> QED  BY <4>1, <4>3
      <3>5. CASE i = k
        BY <2>4, <3>1, <3>2, <3>4, <3>5
      <3>6. CASE i < k
        <4>1. piece(m) = s - 1 - i /\ piece(n) = s - 1 - k
          BY <3>1, <3>2
        <4> QED  BY <3>3, <3>6, <4>1
      <3> QED  BY <3>3, <3>4, <3>5, <3>6
    <2> QED  BY <2>3, <2>4 DEF shown, piece
  <1> QED  BY <1>1, <1>2

LEMMA ImageOK ==
    ASSUME NEW image \in Images, topic = "image", input = image
    PROVE  RowsRearranged
  <1> DEFINE segments == SegmentationNum(image.scrambleId, image.aid, image.digest)
  <1>1. image.height \in Nat /\ image.digest \in Nat
    BY ImagesAssumption
  <1>2. segments \in Nat
    BY <1>1 DEF SegmentationNum
  <1> HIDE DEF segments
  <1>3. PICK h, s : h = image.height /\ s = segments
    OBVIOUS
  <1> QED  BY <1>1, <1>2, <1>3, Arrangement DEF RowsRearranged, segments
-----------------------------------------------------------------------------
(* Queries.                                                                  *)

\* A strict total order of T, as a set of pairs, and a sequence in that order.
Orders(R, T) ==
    /\ \A x, y \in T : x # y => <<x, y>> \in R \/ <<y, x>> \in R
    /\ \A x, y, z \in T : <<x, y>> \in R /\ <<y, z>> \in R => <<x, z>> \in R

InOrder(s, R) == \A m, n \in DOMAIN s : m < n => <<s[m], s[n]>> \in R

\* A finite set that is not empty has a last element.
LastOf(x, R, U) == x \in U /\ \A y \in U : y # x => <<y, x>> \in R

LEMMA LastExists ==
    ASSUME NEW T, IsFiniteSet(T), NEW R, Orders(R, T), NEW U \in SUBSET T, U # {}
    PROVE  \E x : LastOf(x, R, U)
  <1> DEFINE N == Cardinality(T)
             G == {n \in 0 .. N : \A V \in SUBSET T :
                       Cardinality(V) = n /\ V # {} => \E x : LastOf(x, R, V)}
  <1>1. N \in Nat
    BY FS_CardinalityType
  <1>2. \A V \in SUBSET T : IsFiniteSet(V) /\ Cardinality(V) \in 0 .. N
    <2> SUFFICES ASSUME NEW V \in SUBSET T
                 PROVE  IsFiniteSet(V) /\ Cardinality(V) \in 0 .. N
      OBVIOUS
    <2>1. IsFiniteSet(V) /\ Cardinality(V) <= N
      BY FS_Subset
    <2>2. Cardinality(V) \in Nat
      BY <2>1, FS_CardinalityType
    <2> HIDE DEF N
    <2> QED  BY <1>1, <2>1, <2>2
  <1> HIDE DEF N
  <1>3. 0 \in G
    <2>1. \A V \in SUBSET T : Cardinality(V) = 0 => V = {}
      BY <1>2, FS_EmptySet
    <2> QED  BY <1>1, <2>1
  <1>4. ASSUME NEW n \in 1 .. N, n - 1 \in G PROVE n \in G
    <2>1. ASSUME NEW V \in SUBSET T, Cardinality(V) = n, V # {} PROVE \E x : LastOf(x, R, V)
      <3>1. PICK x \in V : TRUE
        BY <2>1
      <3> DEFINE W == V \ {x}
      <3>2. Cardinality(W) = n - 1
        <4>1. IsFiniteSet(V)
          BY <1>2
        <4>2. Cardinality(W) = IF x \in V THEN Cardinality(V) - 1 ELSE Cardinality(V)
          BY <4>1, FS_RemoveElement
        <4> QED  BY <2>1, <3>1, <4>2
      <3>3. W \in SUBSET T
        OBVIOUS
      <3>4. CASE W = {}
        <4>1. LastOf(x, R, V)
          BY <3>1, <3>4 DEF LastOf
        <4> QED  BY <4>1
      <3>5. CASE W # {}
        <4> HIDE DEF W
        <4>1. PICK v : LastOf(v, R, W)
          BY <1>4, <3>2, <3>3, <3>5
        <4>2. v \in V /\ v # x /\ v \in T /\ x \in T
          BY <3>1, <4>1 DEF LastOf, W
        <4>3. CASE <<x, v>> \in R
          <5>1. LastOf(v, R, V)
            BY <3>1, <4>1, <4>2, <4>3 DEF LastOf, W
          <5> QED  BY <5>1
        <4>4. CASE <<v, x>> \in R
          <5>1. ASSUME NEW y \in V, y # x PROVE <<y, x>> \in R
            <6>1. y \in W /\ y \in T
              BY <5>1 DEF W
            <6>2. y = v \/ <<y, v>> \in R
              BY <4>1, <6>1 DEF LastOf
            <6> QED  BY <4>2, <4>4, <6>1, <6>2 DEF Orders
          <5>2. LastOf(x, R, V)
            BY <3>1, <5>1 DEF LastOf
          <5> QED  BY <5>2
        <4> QED  BY <4>2, <4>3, <4>4 DEF Orders
      <3> QED  BY <3>4, <3>5
    <2>2. n \in 0 .. N
      BY <1>1
    <2> QED  BY <2>1, <2>2
  <1>5. \A n \in 0 .. N : n \in G
    <2> HIDE DEF G
    <2> QED  BY <1>1, <1>3, <1>4, EachTurn
  <1>6. Cardinality(U) \in G
    <2> HIDE DEF G
    <2> QED  BY <1>2, <1>5
  <1> QED  BY <1>6

\* So it can be sorted.
LEMMA SortExists ==
    ASSUME NEW T, IsFiniteSet(T), NEW R, Orders(R, T)
    PROVE  \E s \in SetToSeqs(T) : InOrder(s, R)
  <1> DEFINE N == Cardinality(T)
             G == {n \in 0 .. N : \A V \in SUBSET T :
                       Cardinality(V) = n => \E s \in SetToSeqs(V) : InOrder(s, R)}
  <1>1. N \in Nat
    BY FS_CardinalityType
  <1>2. \A V \in SUBSET T : IsFiniteSet(V)
    BY FS_Subset
  <1>3. 0 \in G
    <2>1. ASSUME NEW V \in SUBSET T, Cardinality(V) = 0
          PROVE  \E s \in SetToSeqs(V) : InOrder(s, R)
      <3> DEFINE s == [i \in 1 .. 0 |-> i]
      <3>1. s \in [1 .. 0 -> V] /\ 1 .. 0 = {}
        OBVIOUS
      <3>2. s \in SetToSeqs(V)
        BY <2>1, <3>1 DEF SetToSeqs
      <3>3. InOrder(s, R)
        BY <3>1 DEF InOrder
      <3> QED  BY <3>2, <3>3
    <2> HIDE DEF N
    <2> QED  BY <1>1, <2>1
  <1>4. ASSUME NEW n \in 1 .. N, n - 1 \in G PROVE n \in G
    <2>0. n \in Nat /\ n >= 1 /\ n \in 0 .. N
      <3> HIDE DEF N
      <3> QED  BY <1>1
    <2>1. ASSUME NEW V \in SUBSET T, Cardinality(V) = n
          PROVE  \E s \in SetToSeqs(V) : InOrder(s, R)
      <3>1. IsFiniteSet(V) /\ V # {}
        BY <1>2, <2>0, <2>1, FS_EmptySet
      <3>2. PICK x : LastOf(x, R, V)
        BY <3>1, LastExists
      <3> DEFINE W == V \ {x}
      <3>3. Cardinality(W) = n - 1 /\ W \in SUBSET T /\ x \in V
        <4>1. x \in V
          BY <3>2 DEF LastOf
        <4>2. Cardinality(W) = IF x \in V THEN Cardinality(V) - 1 ELSE Cardinality(V)
          BY <3>1, FS_RemoveElement
        <4> QED  BY <2>1, <4>1, <4>2
      <3> HIDE DEF W
      <3>4. PICK t \in SetToSeqs(W) : InOrder(t, R)
        BY <1>4, <3>3
      <3>5. /\ t \in [1 .. (n - 1) -> W]
            /\ \A i, j \in 1 .. (n - 1) : i # j => t[i] # t[j]
        BY <3>3 DEF SetToSeqs
      <3> DEFINE s == [i \in 1 .. n |-> IF i = n THEN x ELSE t[i]]
      <3>6. \A i \in 1 .. n : i = n \/ i \in 1 .. (n - 1)
        BY <2>0
      <3>7. \A i \in 1 .. (n - 1) : t[i] \in V /\ t[i] # x /\ t[i] \in W
        BY <3>5 DEF W
      <3>8. s \in [1 .. n -> V] /\ \A i, j \in 1 .. n : i # j => s[i] # s[j]
        <4>1. s \in [1 .. n -> V]
          BY <3>3, <3>6, <3>7
        <4>2. ASSUME NEW i \in 1 .. n, NEW j \in 1 .. n, i # j PROVE s[i] # s[j]
          <5>1. CASE i = n
            BY <3>6, <3>7, <4>2, <5>1
          <5>2. CASE j = n
            BY <3>6, <3>7, <4>2, <5>2
          <5>3. CASE i # n /\ j # n
            BY <3>5, <3>6, <4>2, <5>3
          <5> QED  BY <5>1, <5>2, <5>3
        <4> QED  BY <4>1, <4>2
      <3>9. s \in SetToSeqs(V)
        BY <2>1, <3>8 DEF SetToSeqs
      <3>10. ASSUME NEW m \in 1 .. n, NEW k \in 1 .. n, m < k PROVE <<s[m], s[k]>> \in R
        <4>1. m \in 1 .. (n - 1)
          BY <2>0, <3>10
        <4>2. s[m] = t[m]
          BY <2>0, <4>1
        <4>3. CASE k = n
          <5>1. s[k] = x
            BY <4>3
          <5> QED  BY <3>2, <3>7, <4>1, <4>2, <5>1 DEF LastOf
        <4>4. CASE k # n
          <5>1. k \in 1 .. (n - 1) /\ s[k] = t[k]
            BY <3>6, <4>4
          <5>2. DOMAIN t = 1 .. (n - 1)
            BY <3>5
          <5> QED  BY <3>4, <3>10, <4>1, <4>2, <5>1, <5>2 DEF InOrder
        <4> QED  BY <4>3, <4>4
      <3>11. DOMAIN s = 1 .. n
        OBVIOUS
      <3> HIDE DEF s
      <3>12. InOrder(s, R)
        BY <3>10, <3>11 DEF InOrder
      <3> QED  BY <3>9, <3>12
    <2> QED  BY <2>0, <2>1
  <1>5. \A n \in 0 .. N : n \in G
    <2> HIDE DEF G
    <2> QED  BY <1>1, <1>3, <1>4, EachTurn
  <1>6. N \in G
    <2> HIDE DEF G, N
    <2> QED  BY <1>1, <1>5
  <1> QED  BY <1>6

\* The two windows, on any rows.
LEMMA WindowsAgree ==
    ASSUME NEW T, NEW rows \in Seq(T), NEW query, query.offset \in Int, query.limit \in Int
    PROVE  MemWindow(rows, query) = SqlWindow(rows, query)
  <1> DEFINE L == Len(rows)
             offset == query.offset
             limit == query.limit
             from == IF offset > 0 /\ offset < L THEN offset ELSE 0
             size == IF offset >= L THEN 0 ELSE L - from
             upto == from + (IF limit > 0 /\ size > limit THEN limit ELSE size)
             skipped == IF offset > 0 THEN offset ELSE 0
             last == IF limit > 0 THEN skipped + limit ELSE L
             end == IF last < L THEN last ELSE L
  <1>1. L \in Nat
    BY LenProperties
  <1>2. MemWindow(rows, query) = SubSeq(rows, from + 1, upto)
    BY DEF MemWindow
  <1>3. SqlWindow(rows, query) = SubSeq(rows, skipped + 1, end)
    BY DEF SqlWindow
  <1> HIDE DEF L, offset, limit
  <1>4. offset \in Int /\ limit \in Int
    BY DEF offset, limit
  <1>5. CASE offset >= L
    <2>1. from + 1 \in Int /\ upto \in Int /\ upto < from + 1
      BY <1>1, <1>4, <1>5
    <2>2. skipped + 1 \in Int /\ end \in Int /\ end < skipped + 1
      BY <1>1, <1>4, <1>5
    <2> HIDE DEF from, upto, skipped, end
    <2> QED  BY <1>2, <1>3, <2>1, <2>2, SubSeqEmpty
  <1>6. CASE offset < L
    <2>1. from = skipped /\ upto = end
      BY <1>1, <1>4, <1>6
    <2> HIDE DEF from, upto, skipped, end
    <2> QED  BY <1>2, <1>3, <2>1
  <1> QED  BY <1>1, <1>4, <1>5, <1>6

LEMMA Enclosed ==
    ASSUME NEW p \in Int, NEW f \in Seq(Int), NEW z \in Int, NEW s, s = <<p>> \o f \o <<z>>
    PROVE  /\ Len(f) \in Nat /\ DOMAIN s = 1 .. Len(s) /\ Len(s) = Len(f) + 2
           /\ s[1] = p /\ s[Len(s)] = z
           /\ \A i \in 1 .. Len(f) : s[i + 1] = f[i]
  <1> DEFINE t == <<p>> \o f
  <1>1. /\ <<p>> \in Seq(Int) /\ Len(<<p>>) = 1 /\ <<p>>[1] = p
        /\ <<z>> \in Seq(Int) /\ Len(<<z>>) = 1 /\ <<z>>[1] = z
        /\ Len(f) \in Nat
    BY LenProperties
  <1>2. PICK x, y : x = <<p>> /\ y = <<z>>
    OBVIOUS
  <1>3. /\ x \in Seq(Int) /\ Len(x) = 1 /\ x[1] = p
        /\ y \in Seq(Int) /\ Len(y) = 1 /\ y[1] = z
        /\ s = (x \o f) \o y
    BY <1>1, <1>2
  <1>4. PICK u : u = x \o f
    OBVIOUS
  <1>5. /\ u \in Seq(Int) /\ Len(u) = 1 + Len(f)
        /\ \A i \in 1 .. 1 + Len(f) : u[i] = IF i <= 1 THEN x[i] ELSE f[i - 1]
    BY <1>3, <1>4, ConcatProperties
  <1>6. /\ s \in Seq(Int) /\ Len(s) = Len(u) + 1
        /\ \A i \in 1 .. Len(u) + 1 : s[i] = IF i <= Len(u) THEN u[i] ELSE y[i - Len(u)]
    BY <1>3, <1>4, <1>5, ConcatProperties
  <1>7. DOMAIN s = 1 .. Len(s)
    BY <1>6, LenProperties
  <1>8. Len(s) = Len(f) + 2
    BY <1>1, <1>5, <1>6
  <1>9. s[1] = p
    <2>1. 1 \in 1 .. Len(u) + 1 /\ 1 <= Len(u) /\ 1 \in 1 .. 1 + Len(f)
      BY <1>1, <1>5
    <2> QED  BY <1>3, <1>5, <1>6, <2>1
  <1>10. s[Len(s)] = z
    <2>1. Len(s) \in 1 .. Len(u) + 1 /\ ~(Len(s) <= Len(u)) /\ Len(s) - Len(u) = 1
      BY <1>1, <1>5, <1>6
    <2> QED  BY <1>3, <1>6, <2>1
  <1>11. ASSUME NEW i \in 1 .. Len(f) PROVE s[i + 1] = f[i]
    <2>1. /\ i + 1 \in 1 .. Len(u) + 1 /\ i + 1 <= Len(u)
          /\ i + 1 \in 1 .. 1 + Len(f) /\ ~(i + 1 <= 1) /\ (i + 1) - 1 = i
      BY <1>1, <1>5
    <2> QED  BY <1>5, <1>6, <2>1
  <1> QED  BY <1>1, <1>7, <1>8, <1>9, <1>10, <1>11

\* An instant as text: its second, then as many digits as its fraction needs.
IsText(s, sec, d, e) ==
    /\ DOMAIN s = 1 .. Len(s) /\ s[1] = sec
    /\ d = 0 /\ e = 0 => Len(s) = 2 /\ s[2] = 10
    /\ d # 0 /\ e = 0 => Len(s) = 4 /\ s[2] = -1 /\ s[3] = d /\ s[4] = 10
    /\ e # 0 => Len(s) = 5 /\ s[2] = -1 /\ s[3] = d /\ s[4] = e /\ s[5] = 10

LEMMA Tens ==
    ASSUME NEW n \in 0 .. 99
    PROVE  /\ n \div 10 \in 0 .. 9 /\ (n % 10) \in 0 .. 9
           /\ n = 10 * (n \div 10) + (n % 10)
  <1> DEFINE d == n \div 10
             e == n % 10
  <1>1. n \in Nat /\ 10 \in Nat /\ 10 > 0
    OBVIOUS
  <1>2. d \in Nat /\ e \in 0 .. (10 - 1) /\ n = 10 * d + e
    BY <1>1, Division
  <1> HIDE DEF d, e
  <1>3. d \in 0 .. 9 /\ e \in 0 .. 9
    BY <1>1, <1>2
  <1> QED  BY <1>2, <1>3 DEF d, e

LEMMA TextIs ==
    ASSUME NEW a \in Instants
    PROVE  IsText(Text(a), a.sec, a.frac \div 10, a.frac % 10)
  <1> DEFINE d == a.frac \div 10
             e == a.frac % 10
             f == IF a.frac = 0 THEN << >> ELSE IF e = 0 THEN <<-1, d>> ELSE <<-1, d, e>>
  <1>1. a.sec \in Int /\ a.frac \in 0 .. 99
    BY DEF Instants
  <1>2. d \in 0 .. 9 /\ e \in 0 .. 9 /\ a.frac = 10 * d + e
    BY <1>1, Tens
  <1>3. Text(a) = <<a.sec>> \o f \o <<10>>
    BY DEF Text
  <1> HIDE DEF d, e
  <1>4. f \in Seq(Int)
    BY <1>2
  <1>5. /\ a.frac = 0 => Len(f) = 0
        /\ a.frac # 0 /\ e = 0 => Len(f) = 2 /\ f[1] = -1 /\ f[2] = d
        /\ e # 0 => Len(f) = 3 /\ f[1] = -1 /\ f[2] = d /\ f[3] = e
    BY <1>2
  <1>6. a.frac = 0 <=> d = 0 /\ e = 0
    BY <1>2
  <1> HIDE DEF f
  <1>7. PICK s, g, p : s = Text(a) /\ g = f /\ p = a.sec
    OBVIOUS
  <1>8. p \in Int /\ g \in Seq(Int) /\ 10 \in Int /\ s = <<p>> \o g \o <<10>>
    BY <1>1, <1>3, <1>4, <1>7
  <1>9. /\ Len(g) \in Nat /\ DOMAIN s = 1 .. Len(s) /\ Len(s) = Len(g) + 2
        /\ s[1] = p /\ s[Len(s)] = 10
        /\ \A i \in 1 .. Len(g) : s[i + 1] = g[i]
    BY <1>8, Enclosed
  <1>10. ASSUME d = 0, e = 0 PROVE Len(s) = 2 /\ s[2] = 10
    BY <1>5, <1>6, <1>7, <1>9, <1>10
  <1>11. ASSUME d # 0, e = 0 PROVE Len(s) = 4 /\ s[2] = -1 /\ s[3] = d /\ s[4] = 10
    <2>1. Len(g) = 2 /\ g[1] = -1 /\ g[2] = d
      BY <1>5, <1>6, <1>7, <1>11
    <2>2. s[1 + 1] = g[1] /\ s[2 + 1] = g[2]
      BY <1>9, <2>1
    <2> QED  BY <1>9, <2>1, <2>2
  <1>12. ASSUME e # 0
         PROVE  Len(s) = 5 /\ s[2] = -1 /\ s[3] = d /\ s[4] = e /\ s[5] = 10
    <2>1. Len(g) = 3 /\ g[1] = -1 /\ g[2] = d /\ g[3] = e
      BY <1>5, <1>7, <1>12
    <2>2. s[1 + 1] = g[1] /\ s[2 + 1] = g[2] /\ s[3 + 1] = g[3]
      BY <1>9, <2>1
    <2> QED  BY <1>9, <2>1, <2>2
  <1> QED  BY <1>7, <1>9, <1>10, <1>11, <1>12 DEF IsText, d, e

\* Texts of one length are ordered as the instants are.
LEMMA TextOrder ==
    ASSUME NEW a \in Instants, NEW b \in Instants,
           a.sec = b.sec => Len(Text(a)) = Len(Text(b))
    PROVE  TextEarlier(a, b) <=> Earlier(a, b)
  <1>1. /\ a.sec \in Int /\ b.sec \in Int /\ a.frac \in 0 .. 99 /\ b.frac \in 0 .. 99
    BY DEF Instants
  <1>2. PICK s, t, d, e, f, g :
            /\ s = Text(a) /\ d = a.frac \div 10 /\ e = a.frac % 10
            /\ t = Text(b) /\ f = b.frac \div 10 /\ g = b.frac % 10
    OBVIOUS
  <1>3. /\ IsText(s, a.sec, d, e) /\ d \in 0 .. 9 /\ e \in 0 .. 9 /\ a.frac = 10 * d + e
        /\ IsText(t, b.sec, f, g) /\ f \in 0 .. 9 /\ g \in 0 .. 9 /\ b.frac = 10 * f + g
    BY <1>1, <1>2, Tens, TextIs
  <1> DEFINE smaller(n) == /\ n \in DOMAIN s \cap DOMAIN t /\ s[n] < t[n]
                           /\ \A k \in 1 .. n - 1 : s[k] = t[k]
  <1>4. TextEarlier(a, b) <=> \E n : smaller(n)
    BY <1>2 DEF TextEarlier
  <1>5. /\ s[1] = a.sec /\ t[1] = b.sec /\ 1 \in DOMAIN s /\ 1 \in DOMAIN t
        /\ DOMAIN s \subseteq 1 .. 5
    BY <1>3 DEF IsText
  <1>6. CASE a.sec # b.sec
    <2>1. ASSUME NEW n, smaller(n) PROVE a.sec < b.sec
      <3>1. n \in 1 .. 5
        BY <1>5, <2>1
      <3>2. CASE n = 1
        BY <1>5, <2>1, <3>2
      <3>3. CASE n # 1
        <4>1. 1 \in 1 .. n - 1
          BY <3>1, <3>3
        <4> QED  BY <1>5, <1>6, <2>1, <4>1
      <3> QED  BY <3>2, <3>3
    <2>2. ASSUME a.sec < b.sec PROVE smaller(1)
      BY <1>5, <2>2
    <2> HIDE DEF smaller
    <2> QED  BY <1>1, <1>4, <1>6, <2>1, <2>2 DEF Earlier
  <1>7. CASE a.sec = b.sec
    <2>1. /\ Len(s) = Len(t)
          /\ (d = 0 /\ e = 0 => Len(s) = 2) /\ (d # 0 /\ e = 0 => Len(s) = 4)
          /\ (e # 0 => Len(s) = 5)
          /\ (f = 0 /\ g = 0 => Len(t) = 2) /\ (f # 0 /\ g = 0 => Len(t) = 4)
          /\ (g # 0 => Len(t) = 5)
      <3>1. Len(s) = Len(t)
        BY <1>2, <1>7
      <3>2. /\ (d = 0 /\ e = 0 => Len(s) = 2) /\ (d # 0 /\ e = 0 => Len(s) = 4)
            /\ (e # 0 => Len(s) = 5)
        BY <1>3 DEF IsText
      <3>3. /\ (f = 0 /\ g = 0 => Len(t) = 2) /\ (f # 0 /\ g = 0 => Len(t) = 4)
            /\ (g # 0 => Len(t) = 5)
        BY <1>3 DEF IsText
      <3> QED  BY <3>1, <3>2, <3>3
    <2>2. Earlier(a, b) <=> a.frac < b.frac
      BY <1>1, <1>7 DEF Earlier
    <2>3. CASE e # 0
      <3>1. g # 0
        BY <2>1, <2>3
      <3>2. /\ DOMAIN s = 1 .. 5 /\ s[2] = -1 /\ s[3] = d /\ s[4] = e /\ s[5] = 10
            /\ DOMAIN t = 1 .. 5 /\ t[2] = -1 /\ t[3] = f /\ t[4] = g /\ t[5] = 10
        BY <1>3, <2>3, <3>1 DEF IsText
      <3>3. ASSUME NEW n, smaller(n) PROVE d < f \/ (d = f /\ e < g)
        <4>1. n \in {1, 2, 3, 4, 5} /\ s[n] < t[n]
          BY <3>2, <3>3
        <4>2. CASE n = 3
          BY <3>2, <4>1, <4>2
        <4>3. CASE n = 4
          <5>1. 3 \in 1 .. n - 1
            BY <4>3
          <5>2. s[3] = t[3]
            BY <3>3, <5>1
          <5> QED  BY <3>2, <4>1, <4>3, <5>2
        <4>4. n \in {3, 4}
          <5>1. n # 1
            BY <1>1, <1>5, <1>7, <4>1
          <5> QED  BY <3>2, <4>1, <5>1
        <4> QED  BY <4>2, <4>3, <4>4
      <3>4. ASSUME d < f PROVE smaller(3)
        BY <1>5, <1>7, <3>2, <3>4
      <3>5. ASSUME d = f, e < g PROVE smaller(4)
        BY <1>5, <1>7, <3>2, <3>5
      <3> HIDE DEF smaller
      <3>6. a.frac < b.frac <=> (d < f \/ (d = f /\ e < g))
        BY <1>3
      <3> QED  BY <1>4, <2>2, <3>3, <3>4, <3>5, <3>6
    <2>4. CASE d # 0 /\ e = 0
      <3>1. f # 0 /\ g = 0
        <4>1. Len(t) = 4
          BY <2>1, <2>4
        <4>2. g = 0
          BY <2>1, <4>1
        <4> QED  BY <2>1, <4>1, <4>2
      <3>2. /\ DOMAIN s = 1 .. 4 /\ s[2] = -1 /\ s[3] = d /\ s[4] = 10
            /\ DOMAIN t = 1 .. 4 /\ t[2] = -1 /\ t[3] = f /\ t[4] = 10
        BY <1>3, <2>4, <3>1 DEF IsText
      <3>3. ASSUME NEW n, smaller(n) PROVE d < f
        <4>1. n \in {1, 2, 3, 4} /\ s[n] < t[n]
          BY <3>2, <3>3
        <4> QED  BY <1>1, <1>5, <1>7, <3>2, <4>1
      <3>4. ASSUME d < f PROVE smaller(3)
        BY <1>5, <1>7, <3>2, <3>4
      <3> HIDE DEF smaller
      <3>5. a.frac < b.frac <=> d < f
        BY <1>3, <2>4, <3>1
      <3> QED  BY <1>4, <2>2, <3>3, <3>4, <3>5
    <2>5. CASE d = 0 /\ e = 0
      <3>1. f = 0 /\ g = 0
        BY <2>1, <2>5
      <3>2. DOMAIN s = 1 .. 2 /\ s[2] = 10 /\ t[2] = 10
        BY <1>3, <2>5, <3>1 DEF IsText
      <3>3. ASSUME NEW n PROVE ~smaller(n)
        <4>1. n \in DOMAIN s => n \in {1, 2}
          BY <3>2
        <4> QED  BY <1>1, <1>5, <1>7, <3>2, <4>1
      <3>4. a.frac = 0 /\ b.frac = 0
        BY <1>3, <2>5, <3>1
      <3> HIDE DEF smaller
      <3> QED  BY <1>4, <2>2, <3>3, <3>4
    <2> QED  BY <2>3, <2>4, <2>5
  <1> QED  BY <1>6, <1>7

\* The order of a query is strict and total, rows of one instant by their number.
LEMMA PrecedesOK ==
    ASSUME NEW table, NEW query, NEW T, T \subseteq Nat,
           query.orderBy = "id" \/ \A x \in T : table[x][query.orderBy] \in Instants
    PROVE  /\ \A x, y \in T : Precedes(table, query, x, y) => ~Before(table, query, y, x, "time")
           /\ \A x, y \in T : x # y => \/ Precedes(table, query, x, y)
                                       \/ Precedes(table, query, y, x)
           /\ \A x, y, z \in T : Precedes(table, query, x, y) /\ Precedes(table, query, y, z) =>
                                    Precedes(table, query, x, z)
  <1> DEFINE before(x, y) == Before(table, query, x, y, "time")
             precedes(x, y) == Precedes(table, query, x, y)
             key(x) == table[x][query.orderBy]
  <1>1. \A x, y : precedes(x, y) <=> (before(x, y) \/ (~before(y, x) /\ x < y))
    BY DEF Precedes
  <1>2. \A x \in T : x \in Int
    OBVIOUS
  <1>3. CASE query.orderBy = "id"
    <2>1. \A x, y : before(x, y) <=> IF query.order = "DESC" THEN y < x ELSE x < y
      BY <1>3 DEF Before
    <2> HIDE DEF before, precedes
    <2>2. \A x, y \in T : precedes(x, y) <=> before(x, y)
      BY <1>1, <1>2, <2>1
    <2>3. /\ \A x, y \in T : before(x, y) => ~before(y, x)
          /\ \A x, y \in T : x # y => before(x, y) \/ before(y, x)
          /\ \A x, y, z \in T : before(x, y) /\ before(y, z) => before(x, z)
      BY <1>2, <2>1
    <2> QED  BY <2>2, <2>3 DEF before, precedes
  <1>4. CASE query.orderBy # "id"
    <2>1. \A x, y : before(x, y) <=> IF query.order = "DESC" THEN Earlier(key(y), key(x))
                                     ELSE Earlier(key(x), key(y))
      BY <1>4 DEF Before
    <2>2. \A x \in T : key(x).sec \in Int /\ key(x).frac \in Int
      <3>1. \A a \in Instants : a.sec \in Int /\ a.frac \in Int
        BY DEF Instants
      <3>2. \A x \in T : key(x) \in Instants
        BY <1>4
      <3> HIDE DEF key
      <3> QED  BY <3>1, <3>2
    <2> HIDE DEF before, precedes, key
    <2>3. /\ \A x, y \in T : Earlier(key(x), key(y)) => ~Earlier(key(y), key(x))
          /\ \A x, y, z \in T : Earlier(key(x), key(y)) =>
                                   Earlier(key(x), key(z)) \/ Earlier(key(z), key(y))
      BY <2>2 DEF Earlier
    <2> HIDE DEF Earlier
    <2>4. /\ \A x, y \in T : before(x, y) => ~before(y, x)
          /\ \A x, y, z \in T : before(x, y) => before(x, z) \/ before(z, y)
      BY <2>1, <2>3
    <2>5. \A x, y \in T : precedes(x, y) => ~before(y, x)
      BY <1>1, <2>4
    <2>6. \A x, y \in T : x # y => precedes(x, y) \/ precedes(y, x)
      <3> SUFFICES ASSUME NEW x \in T, NEW y \in T, x # y
                   PROVE  precedes(x, y) \/ precedes(y, x)
        OBVIOUS
      <3>1. x < y \/ y < x
        BY <1>2
      <3>2. precedes(x, y) <=> (before(x, y) \/ (~before(y, x) /\ x < y))
        BY <1>1
      <3>3. precedes(y, x) <=> (before(y, x) \/ (~before(x, y) /\ y < x))
        BY <1>1
      <3> QED  BY <3>1, <3>2, <3>3
    <2>7. ASSUME NEW x \in T, NEW y \in T, NEW z \in T, precedes(x, y), precedes(y, z)
          PROVE  precedes(x, z)
      <3>1. CASE before(x, y) \/ before(y, z)
        <4>1. before(x, z)
          BY <2>4, <2>5, <2>7, <3>1
        <4> QED  BY <1>1, <4>1
      <3>2. CASE ~before(x, y) /\ ~before(y, z)
        <4>1. x < y /\ y < z /\ ~before(y, x) /\ ~before(z, y)
          BY <1>1, <2>7, <3>2
        <4>2. x < z /\ ~before(z, x)
          BY <1>2, <2>4, <4>1
        <4> QED  BY <1>1, <4>2
      <3> QED  BY <3>1, <3>2
    <2> QED  BY <2>5, <2>6, <2>7 DEF before, precedes
  <1> QED  BY <1>3, <1>4

\* What MemoryStore answers is an answer of SQL, if the text orders the rows as time does.
LEMMA QueryAnswered ==
    ASSUME NEW table, NEW query, NEW N \in Nat, DOMAIN table = 1 .. N,
           query.orderBy = "id" \/ \A x \in 1 .. N : table[x][query.orderBy] \in Instants,
           \A x, y \in 1 .. N : Before(table, query, x, y, "text") <=>
                                Before(table, query, x, y, "time"),
           query.offset \in Int, query.limit \in Int
    PROVE  MemQuery(table, query) \in SqlQueries(table, query)
  <1> DEFINE T == Selected(table, query)
             R == {p \in T \X T : Precedes(table, query, p[1], p[2])}
             sorted(s) == \A m, n \in DOMAIN s : m < n => Precedes(table, query, s[m], s[n])
             rows == CHOOSE s \in SetToSeqs(T) : sorted(s)
  <1>1. T \subseteq 1 .. N
    BY DEF Selected
  <1> HIDE DEF T
  <1>2. T \subseteq Nat /\ IsFiniteSet(T)
    <2>1. IsFiniteSet(1 .. N)
      BY FS_Interval
    <2> QED  BY <1>1, <2>1, FS_Subset
  <1>3. /\ \A x, y \in T : Precedes(table, query, x, y) => ~Before(table, query, y, x, "time")
        /\ \A x, y \in T : x # y => \/ Precedes(table, query, x, y)
                                    \/ Precedes(table, query, y, x)
        /\ \A x, y, z \in T : Precedes(table, query, x, y) /\ Precedes(table, query, y, z) =>
                                 Precedes(table, query, x, z)
    <2>1. query.orderBy = "id" \/ \A x \in T : table[x][query.orderBy] \in Instants
      BY <1>1
    <2> QED  BY <1>2, <2>1, PrecedesOK
  <1>4. \A x, y \in T : <<x, y>> \in R <=> Precedes(table, query, x, y)
    OBVIOUS
  <1> HIDE DEF R
  <1>5. Orders(R, T)
    BY <1>3, <1>4 DEF Orders
  <1>6. PICK s \in SetToSeqs(T) : InOrder(s, R)
    BY <1>2, <1>5, SortExists
  <1>7. sorted(s)
    <2>1. \A m \in DOMAIN s : s[m] \in T
      BY DEF SetToSeqs
    <2> QED  BY <1>4, <1>6, <2>1 DEF InOrder
  <1>8. rows \in SetToSeqs(T) /\ sorted(rows)
    <2> HIDE DEF sorted
    <2> QED  BY <1>7
  <1>9. MemQuery(table, query) = MemWindow(rows, query)
    BY DEF MemQuery, T
  <1> HIDE DEF rows
  <1>10. MemWindow(rows, query) = SqlWindow(rows, query)
    <2>1. rows \in Seq(T)
      BY <1>2, <1>8, OrdersOf
    <2> QED  BY <2>1, WindowsAgree
  <1>11. \A m, n \in DOMAIN rows : m < n => ~Before(table, query, rows[n], rows[m], "text")
    <2>1. \A m \in DOMAIN rows : rows[m] \in T /\ rows[m] \in 1 .. N
      BY <1>1, <1>8 DEF SetToSeqs
    <2> QED  BY <1>3, <1>8, <2>1
  <1>12. SqlWindow(rows, query) \in SqlQueries(table, query)
    BY <1>8, <1>11 DEF SqlQueries, T
  <1> QED  BY <1>9, <1>10, <1>12

LEMMA QueryOK ==
    ASSUME NEW table \in Tables, NEW asked \in QueryInputs, topic = "query",
           input = [table |-> table, input |-> asked]
    PROVE  QueriesAgree
  <1> DEFINE query == Build(asked)
             N == Len(table)
  <1>1. SUFFICES ASSUME query.accepted, query.orderBy = "id" \/ SameLengthInSecond(table)
                 PROVE  MemQuery(table, query) \in SqlQueries(table, query)
    BY DEF QueriesAgree
  <1>2. /\ table \in Seq([status : Status, identity : Identities,
                          created_at : Instants, updated_at : Instants])
        /\ asked.offset \in Int /\ asked.limit \in Int
    BY QueriesAssumption
  <1>3. /\ query.orderBy \in {"id", "created_at", "updated_at"}
        /\ query.offset \in Int /\ query.limit \in Int
    <2>1. asked.orderBy \in {"", "id", "created_at", "updated_at"}
      BY <1>1 DEF Build
    <2>2. /\ query.orderBy = IF asked.orderBy = "" THEN "id" ELSE asked.orderBy
          /\ query.offset = asked.offset
          /\ query.limit = IF asked.limit = 0 THEN 10 ELSE asked.limit
      BY DEF Build
    <2> HIDE DEF query
    <2>3. query.orderBy \in {"id", "created_at", "updated_at"}
      BY <2>1, <2>2
    <2>4. query.offset \in Int /\ query.limit \in Int
      <3>1. CASE asked.limit = 0
        <4>1. query.offset = asked.offset /\ query.limit = 10
          BY <2>2, <3>1
        <4> QED  BY <1>2, <4>1
      <3>2. CASE asked.limit # 0
        <4>1. query.offset = asked.offset /\ query.limit = asked.limit
          BY <2>2, <3>2
        <4> QED  BY <1>2, <4>1
      <3> QED  BY <3>1, <3>2
    <2> QED  BY <2>3, <2>4
  <1>4. N \in Nat /\ DOMAIN table = 1 .. N
    BY <1>2, LenProperties
  <1>5. \A x \in 1 .. N : table[x].created_at \in Instants /\ table[x].updated_at \in Instants
    <2>1. \A x \in 1 .. N : table[x] \in [status : Status, identity : Identities,
                                          created_at : Instants, updated_at : Instants]
      BY <1>2, <1>4, ElementOfSeq
    <2> QED  BY <2>1
  <1> HIDE DEF query, N
  <1>6. query.orderBy = "id" \/ \A x \in 1 .. N : table[x][query.orderBy] \in Instants
    BY <1>3, <1>5
  <1>7. ASSUME NEW x \in 1 .. N, NEW y \in 1 .. N
        PROVE  Before(table, query, x, y, "text") <=> Before(table, query, x, y, "time")
    <2>1. CASE query.orderBy = "id"
      BY <2>1 DEF Before
    <2>2. CASE query.orderBy # "id"
      <3>1. SameLengthInSecond(table) /\ query.orderBy \in {"created_at", "updated_at"}
        BY <1>1, <1>3, <2>2
      <3>2. ASSUME NEW v \in 1 .. N, NEW w \in 1 .. N
            PROVE  TextEarlier(table[v][query.orderBy], table[w][query.orderBy]) <=>
                      Earlier(table[v][query.orderBy], table[w][query.orderBy])
        <4>1. PICK a, b : a = table[v][query.orderBy] /\ b = table[w][query.orderBy]
          OBVIOUS
        <4>2. a \in Instants /\ b \in Instants
          BY <1>6, <2>2, <4>1
        <4>3. a.sec = b.sec => Len(Text(a)) = Len(Text(b))
          BY <1>4, <3>1, <4>1 DEF SameLengthInSecond
        <4> QED  BY <4>1, <4>2, <4>3, TextOrder
      <3> QED  BY <2>2, <3>2 DEF Before
    <2> QED  BY <2>1, <2>2
  <1>8. PICK q : q = query
    OBVIOUS
  <1> QED  BY <1>3, <1>4, <1>6, <1>7, <1>8, QueryAnswered
-----------------------------------------------------------------------------
(* The properties of every input that is taken.                              *)

Taken ==
    \/ topic = "none"
    \/ topic = "query" /\ \E table \in Tables, asked \in QueryInputs :
                             input = [table |-> table, input |-> asked]
    \/ topic = "request" /\ \E config \in Configs, request \in Requests :
                               input = [config |-> config, request |-> request]
    \/ topic = "file" /\ input \in {<< >>} \cup {<<file>> : file \in Files}
    \/ topic = "script" /\ \E script \in Scripts, hash \in Hashes :
                              input = [script |-> script, hash |-> hash]
    \/ topic = "image" /\ input \in Images

LEMMA OnlyTaken == PartsSpec => []Taken
  <1>1. PartsInit => Taken
    BY DEF PartsInit, Taken
  <1>2. Taken /\ [PartsNext]_<<topic, input>> => Taken'
    <2> SUFFICES ASSUME Taken, [PartsNext]_<<topic, input>> PROVE Taken'
      OBVIOUS
    <2>1. CASE TakeQuery
      <3>1. topic' = "query" /\ input' \in [table : Tables, input : QueryInputs]
        BY <2>1 DEF TakeQuery, Take
      <3>2. \E table \in Tables, asked \in QueryInputs :
                input' = [table |-> table, input |-> asked]
        BY <3>1
      <3> QED  BY <3>1, <3>2 DEF Taken
    <2>2. CASE TakeRequest
      <3>1. topic' = "request" /\ input' \in [config : Configs, request : Requests]
        BY <2>2 DEF TakeRequest, Take
      <3>2. \E config \in Configs, request \in Requests :
                input' = [config |-> config, request |-> request]
        BY <3>1
      <3> QED  BY <3>1, <3>2 DEF Taken
    <2>3. CASE TakeFile
      BY <2>3 DEF TakeFile, Take, Taken
    <2>4. CASE TakeScript
      <3>1. topic' = "script" /\ input' \in [script : Scripts, hash : Hashes]
        BY <2>4 DEF TakeScript, Take
      <3>2. \E script \in Scripts, hash \in Hashes :
                input' = [script |-> script, hash |-> hash]
        BY <3>1
      <3> QED  BY <3>1, <3>2 DEF Taken
    <2>5. CASE TakeImage
      BY <2>5 DEF TakeImage, Take, Taken
    <2>6. CASE UNCHANGED <<topic, input>>
      BY <2>6 DEF Taken
    <2> QED  BY <2>1, <2>2, <2>3, <2>4, <2>5, <2>6 DEF PartsNext
  <1> QED  BY <1>1, <1>2, PTL DEF PartsSpec

\* MemoryStore answers a query with what SQLiteStore may answer: the same documents, in
\* an order and a window that SQL allows, on every table whose instants within a second
\* are written with equally many digits, or for a query by id.
THEOREM PartsQueriesAgree == PartsSpec => []QueriesAgree
  <1>1. Taken => QueriesAgree
    <2>1. ASSUME Taken, topic = "query" PROVE QueriesAgree
      BY <2>1, QueryOK DEF Taken
    <2>2. ASSUME topic # "query" PROVE QueriesAgree
      BY <2>2 DEF QueriesAgree
    <2> QED  BY <2>1, <2>2
  <1> QED  BY <1>1, OnlyTaken, PTL

\* The middleware lets through what the roles of the configuration open to the token that
\* counts, and tells an allowed page of a browser its origin on every answer.
THEOREM PartsAccess == PartsSpec => []AccessAsConfigured
  <1>1. Taken => AccessAsConfigured
    <2>1. ASSUME Taken, topic = "request" PROVE AccessAsConfigured
      BY <2>1, AccessOK DEF Taken
    <2>2. ASSUME topic # "request" PROVE AccessAsConfigured
      BY <2>2 DEF AccessAsConfigured
    <2> QED  BY <2>1, <2>2
  <1> QED  BY <1>1, OnlyTaken, PTL

\* Whatever order Go walks the storages of config.yml in, the configuration read is the
\* same.  main registers each of its storages, the default among them, if it is accepted
\* and leaves main nothing to refuse, and with any other exits before it serves.
THEOREM PartsConfig == PartsSpec => []ConfigMeansOneThing
  <1>1. Taken => ConfigMeansOneThing
    <2>1. ASSUME Taken, topic = "file" PROVE ConfigMeansOneThing
      BY <2>1, FileOK DEF Taken
    <2>2. ASSUME topic # "file" PROVE ConfigMeansOneThing
      BY <2>2 DEF ConfigMeansOneThing
    <2> QED  BY <2>1, <2>2
  <1> QED  BY <1>1, OnlyTaken, PTL

\* For every script no number of which has two labels, the shard ParseGG's mapping gives a
\* page's hash is the one gg.js itself computes, exactly if the script names its number or
\* has one value for those it does not name.
THEOREM PartsShard == PartsSpec => []ShardAsScript
  <1>1. Taken => ShardAsScript
    <2>1. ASSUME Taken, topic = "script" PROVE ShardAsScript
      BY <2>1, ShardOK DEF Taken
    <2>2. ASSUME topic # "script" PROVE ShardAsScript
      BY <2>2 DEF ShardAsScript
    <2> QED  BY <2>1, <2>2
  <1> QED  BY <1>1, OnlyTaken, PTL

\* rearrangeImage shows every row of an image of any height once, the lowest piece first
\* and the rows of a piece in their order.
THEOREM PartsRows == PartsSpec => []RowsRearranged
  <1>1. Taken => RowsRearranged
    <2>1. ASSUME Taken, topic = "image" PROVE RowsRearranged
      BY <2>1, ImageOK DEF Taken
    <2>2. ASSUME topic # "image" PROVE RowsRearranged
      BY <2>2 DEF RowsRearranged
    <2> QED  BY <2>1, <2>2
  <1> QED  BY <1>1, OnlyTaken, PTL
===============================================================================
