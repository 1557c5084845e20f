------------------------------- MODULE Queries -------------------------------
(* Query of the two stores, on one table: MemoryStore sorts and cuts a slice, *)
(* SQLiteStore has its engine do so, over timestamps that are kept as text.   *)
EXTENDS Documents, Integers, SequencesExt

\* An instant: a second, and a fraction of it in hundredths.
Earlier(a, b) == a.sec < b.sec \/ (a.sec = b.sec /\ a.frac < b.frac)

\* formatTime: RFC3339Nano writes no trailing zeros of the fraction, nor an empty
\* one; in ASCII "." comes before the digits, and the final "Z" after them.
Text(time) ==
    LET dot == -1
        z   == 10
        fraction == IF time.frac = 0 THEN << >>
                    ELSE IF time.frac % 10 = 0 THEN <<dot, time.frac \div 10>>
                    ELSE <<dot, time.frac \div 10, time.frac % 10>>
    IN  <<time.sec>> \o fraction \o <<z>>

TextEarlier(a, b) ==
    LET s == Text(a)
        t == Text(b)
    IN  \E n \in DOMAIN s \cap DOMAIN t :
            s[n] < t[n] /\ \A k \in 1 .. n - 1 : s[k] = t[k]

\* QueryBuilder.Build: defaults, and what it refuses.
Build(input) ==
    [accepted |-> /\ input.order \in {"", "ASC", "DESC"}
                  /\ input.orderBy \in {"", "id", "created_at", "updated_at"},
     status   |-> input.status,
     identity |-> input.identity,
     order    |-> IF input.order = "" THEN "ASC" ELSE input.order,
     orderBy  |-> IF input.orderBy = "" THEN "id" ELSE input.orderBy,
     offset   |-> input.offset,
     limit    |-> IF input.limit = 0 THEN 10 ELSE input.limit]

\* The rows a query is about; hidden ones only when their status is asked for.
Selected(table, query) ==
    {id \in DOMAIN table :
        /\ IF query.status = "any" THEN Visible(table[id].status)
           ELSE table[id].status = query.status
        /\ query.identity \in {"any", table[id].identity}}

\* The order of two rows, whose instants are kept as times or as text.
Before(table, query, id, other, kept) ==
    LET earlier(a, b) == IF kept = "text" THEN TextEarlier(a, b) ELSE Earlier(a, b)
        first  == IF query.order = "DESC" THEN other ELSE id
        second == IF query.order = "DESC" THEN id ELSE other
    IN  IF query.orderBy = "id" THEN first < second
        ELSE earlier(table[first][query.orderBy], table[second][query.orderBy])

MemWindowOffByOne(rows, query) ==  \* mutant: an offset at the end of the list returns it all
    LET from == IF query.offset > 0 /\ query.offset < Len(rows) THEN query.offset ELSE 0
        size == IF query.offset > Len(rows) THEN 0 ELSE Len(rows) - from
    IN  SubSeq(rows, from + 1, from + (IF query.limit > 0 /\ size > query.limit
                                       THEN query.limit ELSE size))

\* Slicing by offset, then by limit; what is not positive does not cut.
MemWindow(rows, query) ==
    LET from == IF query.offset > 0 /\ query.offset < Len(rows) THEN query.offset ELSE 0
        size == IF query.offset >= Len(rows) THEN 0 ELSE Len(rows) - from
    IN  SubSeq(rows, from + 1, from + (IF query.limit > 0 /\ size > query.limit
                                       THEN query.limit ELSE size))

\* sort.SliceStable: rows that compare equal stay in the order of the table.
Precedes(table, query, id, other) ==
    \/ Before(table, query, id, other, "time")
    \/ ~Before(table, query, other, id, "time") /\ id < other

MemQuery(table, query) ==
    LET rows == CHOOSE s \in SetToSeqs(Selected(table, query)) :
                    \A m, n \in DOMAIN s : m < n => Precedes(table, query, s[m], s[n])
    IN  MemWindow(rows, query)

\* LIMIT -1 is none; OFFSET is only written when it is positive.
SqlWindow(rows, query) ==
    LET skipped == IF query.offset > 0 THEN query.offset ELSE 0
        last    == IF query.limit > 0 THEN skipped + query.limit ELSE Len(rows)
    IN  SubSeq(rows, skipped + 1, IF last < Len(rows) THEN last ELSE Len(rows))

\* ORDER BY one column: SQL leaves the order of equal rows open.
SqlQueries(table, query) ==
    {SqlWindow(rows, query) : rows \in
        {s \in SetToSeqs(Selected(table, query)) :
            \A m, n \in DOMAIN s :
                m < n => ~Before(table, query, s[n], s[m], "text")}}
===============================================================================
