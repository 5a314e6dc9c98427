----------------------------- MODULE Selectors -----------------------------
(***************************************************************************)
(* Metric references (k6-core/src/selector.rs) and the storage keys the    *)
(* registry builds from them (k6-core/src/metrics.rs).  A string is a      *)
(* sequence of tokens: words, blanks " " and the four reserved characters. *)
(* A tag value is any token sequence, so it may hold ":" , braces and, in  *)
(* a key built from script tags, the "," that parse cannot read back.      *)
(***************************************************************************)
EXTENDS Integers, FiniteSets, Sequences, SequencesExt

CONSTANTS
    Alphabet,  \* the tag keys, in alphabetical order
    Texts      \* the strings of a run: storage keys, metric names, selectors

Blank == " "
Reserved == {"{", "}", ":", ","}

At(s, t) == {i \in 1..Len(s) : s[i] = t}
First(s, t) == CHOOSE i \in At(s, t) : \A j \in At(s, t) : i <= j
Last1(s, t) == CHOOSE i \in At(s, t) : \A j \in At(s, t) : j <= i

Trim(s) ==
    LET between(text) == IF text = {} THEN << >>
                         ELSE SubSeq(s, CHOOSE i \in text : \A j \in text : i <= j,
                                        CHOOSE i \in text : \A j \in text : j <= i)
    IN  between({i \in 1..Len(s) : s[i] # Blank})

\* str::split: the pieces between the occurrences of a token.
Split(s, t) ==
    LET between(cuts) == [i \in 1..Len(cuts) - 1 |-> SubSeq(s, cuts[i] + 1, cuts[i + 1] - 1)]
    IN  between(SetToSortSeq(At(s, t) \cup {0, Len(s) + 1}, <))

Braced(s) == At(s, "{") # {}

contains_reserved(s) == \E i \in 1..Len(s) : s[i] \in Reserved
contains_reserved_value(s) == \E i \in 1..Len(s) : s[i] = ","

Err(kind) == [ok |-> FALSE, err |-> kind]
Selector(name, tags) == [ok |-> TRUE, name |-> name, tags |-> tags]

\* One `key:value` piece; only its first colon separates.
Pair(piece) ==
    LET checked(k, v) == [ok |-> k # << >> /\ ~contains_reserved(k) /\ ~contains_reserved_value(v),
                          k |-> k, v |-> v]
        cut(p) == IF At(p, ":") = {} THEN [ok |-> FALSE]
                  ELSE checked(Trim(SubSeq(p, 1, First(p, ":") - 1)),
                               Trim(SubSeq(p, First(p, ":") + 1, Len(p))))
    IN  cut(Trim(piece))

\* The tag list between the braces: empty, or pairs with distinct keys.
TagList(name, inner) ==
    LET pairs(pieces) == [i \in 1..Len(pieces) |-> Pair(pieces[i])]
        at(ps, k) == CHOOSE i \in DOMAIN ps : ps[i].k = k
        insert(ps) ==
            IF \/ \E i \in DOMAIN ps : ~ps[i].ok
               \/ \E i, j \in DOMAIN ps : i # j /\ ps[i].k = ps[j].k
            THEN Err("MalformedTagPair")
            ELSE Selector(name, [k \in {ps[i].k : i \in DOMAIN ps} |-> ps[at(ps, k)].v])
    IN  IF Trim(inner) = << >> THEN Selector(name, << >>) ELSE insert(pairs(Split(inner, ",")))

\* MetricSelector::parse: the list closes at the LAST brace.
parse(raw) ==
    LET bare(s) == IF At(s, "}") # {} THEN Err("UnbalancedBraces")
                   ELSE IF contains_reserved(s) THEN Err("InvalidName")
                   ELSE Selector(s, << >>)
        braced(s, open, name) ==
            IF name = << >> THEN Err("EmptyName")
            ELSE IF contains_reserved(name) THEN Err("InvalidName")
            ELSE IF At(s, "}") = {} \/ Last1(s, "}") < open THEN Err("UnbalancedBraces")
            ELSE IF Trim(SubSeq(s, Last1(s, "}") + 1, Len(s))) # << >> THEN Err("UnbalancedBraces")
            ELSE TagList(name, SubSeq(s, open + 1, Last1(s, "}") - 1))
        trimmed(s) == IF s = << >> THEN Err("EmptyName")
                      ELSE IF ~Braced(s) THEN bare(s)
                      ELSE braced(s, First(s, "{"), Trim(SubSeq(s, 1, First(s, "{") - 1)))
    IN  trimmed(Trim(raw))

\* parse, tabulated over the strings of the run.
Parsed == [s \in Texts |-> parse(s)]

KeyBefore(a, b) ==
    (CHOOSE i \in DOMAIN Alphabet : Alphabet[i] = a[1])
        < (CHOOSE i \in DOMAIN Alphabet : Alphabet[i] = b[1])

\* MetricSelector::canonical: `name{k1:v1,k2:v2}`, keys alphabetical.
canonical(sel) ==
    LET keys == SetToSortSeq(DOMAIN sel.tags, KeyBefore)
        one(i) == (IF i = 1 THEN << >> ELSE <<",">>) \o keys[i] \o <<":">> \o sel.tags[keys[i]]
    IN  IF DOMAIN sel.tags = {} THEN sel.name
        ELSE sel.name \o <<"{">> \o FlattenSeq([i \in 1..Len(keys) |-> one(i)]) \o <<"}">>

\* canonical_tag_suffix appended to a name: a stable sort of the pairs by key,
\* the last pair of each run of equal keys kept.
canonical_key(name, pairs) ==
    canonical(Selector(name, [k \in {pairs[i][1] : i \in DOMAIN pairs} |->
        pairs[CHOOSE i \in DOMAIN pairs : /\ pairs[i][1] = k
                                          /\ \A j \in DOMAIN pairs : pairs[j][1] = k => j <= i][2]]))

\* The stored key names the query's metric and carries all of its tags.
SupersetOf(stored, query) ==
    /\ stored.name = query.name
    /\ \A k \in DOMAIN query.tags : k \in DOMAIN stored.tags /\ stored.tags[k] = query.tags[k]

\* stored_matches_query of the live reads: literal equality when either side
\* does not parse.
stored_matches_query(stored, raw) ==
    LET matches(s, q) == IF s.ok /\ q.ok THEN SupersetOf(s, q) ELSE stored = raw
    IN  matches(Parsed[stored], Parsed[raw])

\* stored_is_subset_match of the thresholds: no match when either fails.
stored_is_subset_match(raw, stored) ==
    LET matches(s, q) == s.ok /\ q.ok /\ SupersetOf(s, q)
    IN  matches(Parsed[stored], Parsed[raw])

\* metric_names_match: equal, or equal once canonical.
metric_names_match(raw, stored) ==
    LET matches(q, s) == q.ok /\ s.ok /\ canonical(q) = canonical(s)
    IN  raw = stored \/ matches(Parsed[raw], Parsed[stored])

\* split_canonical_for_sink and the fallback of the outputs' parse_metric_name:
\* name and tags without the grammar's checks.
split_canonical_for_sink(key) ==
    IF ~Braced(key) THEN [name |-> key, tags |-> << >>]
    ELSE LET body  == SubSeq(key, First(key, "{") + 1, Len(key) - 1)
             parts == SelectSeq(Split(body, ","), LAMBDA p : At(p, ":") # {})
             cut(p) == First(p, ":")
             keyof(p) == SubSeq(p, 1, cut(p) - 1)
         IN  [name |-> SubSeq(key, 1, First(key, "{") - 1),
              tags |-> [k \in {keyof(parts[i]) : i \in DOMAIN parts} |->
                  LET i == CHOOSE i \in DOMAIN parts : /\ keyof(parts[i]) = k
                               /\ \A j \in DOMAIN parts : keyof(parts[j]) = k => j <= i
                  IN  SubSeq(parts[i], cut(parts[i]) + 1, Len(parts[i]))]]
=============================================================================
