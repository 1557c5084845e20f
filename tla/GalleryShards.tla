---------------------------- MODULE GalleryShards ----------------------------
(* hitomi's page addresses.  gg.js holds a function that sends the number of  *)
(* a page's hash to a shard; ParseGG does not run it, but reads a mapping off *)
(* its text with regular expressions.                                         *)
EXTENDS Integers, SequencesExt

\* Some numbers get a value, whatever they had before.
Mapped(mapping, numbers, value) ==
    [g \in numbers \cup DOMAIN mapping |-> IF g \in numbers THEN value ELSE mapping[g]]

\* The script as ParseGG finds it: the value in the declaration of o, the groups of the
\* switch (case labels, then o = value; break), the value in its default clause, and the
\* single ifs behind it.  A declaration may lack a value and a switch a default clause:
\* initial and default are sequences of one value or none.
PendingKept(state, group) ==  \* mutant: pendingKeys is not emptied
    LET pending == state.pending \cup ToSet(group.cases)
    IN  [pending |-> pending, mapping |-> Mapped(state.mapping, pending, group.value)]

\* The labels collected up to a label with an assignment get its value.
MapGroup(state, group) ==
    LET pending == state.pending \cup ToSet(group.cases)
    IN  [pending |-> {}, mapping |-> Mapped(state.mapping, pending, group.value)]

\* The loop over the labels, group by group.
MapGroups(groups) ==
    LET after[n \in 0 .. Len(groups)] ==
            IF n = 0 THEN [pending |-> {}, mapping |-> << >>]
            ELSE MapGroup(after[n - 1], groups[n])
    IN  after[Len(groups)].mapping

\* The loop over the ifs.
MapIfs(mapping, ifs) ==
    LET after[n \in 0 .. Len(ifs)] ==
            IF n = 0 THEN mapping ELSE Mapped(after[n - 1], {ifs[n].g}, ifs[n].value)
    IN  after[Len(ifs)]

\* The values for a number that no label names, in the order of the text.
Otherwise(script) == script.initial \o script.default

\* ParseGG: a later group or if replaces what an earlier one gave a number.  One
\* pattern finds declaration and default clause, and its first match counts.
ParseGG(script) ==
    [mapping |-> MapIfs(MapGroups(script.groups), script.ifs),
     default |-> IF Otherwise(script) = << >> THEN 0 ELSE Otherwise(script)[1]]

\* DownloadURL: the last digit of the hash before the two that precede it.
Inum(hash) ==
    LET n == Len(hash)
    IN  256 * hash[n] + 16 * hash[n - 2] + hash[n - 1]

Shard(gg, g) == IF g \in DOMAIN gg.mapping THEN gg.mapping[g] ELSE gg.default

-----------------------------------------------------------------------------
\* What the browser makes of the script: the switch goes to the first label that
\* matches, or else to the default clause, which assigns last; each if assigns again.
Undefined == -1
Switched(script, g) ==
    LET hit == {n \in DOMAIN script.groups : g \in ToSet(script.groups[n].cases)}
        otherwise == Otherwise(script)
    IN  IF hit = {} THEN IF otherwise = << >> THEN Undefined ELSE otherwise[Len(otherwise)]
        ELSE script.groups[CHOOSE n \in hit : \A k \in hit : n <= k].value

RunScript(script, g) ==
    LET o[n \in 0 .. Len(script.ifs)] ==
            IF n = 0 THEN Switched(script, g)
            ELSE IF script.ifs[n].g = g THEN script.ifs[n].value ELSE o[n - 1]
    IN  o[Len(script.ifs)]
===============================================================================
