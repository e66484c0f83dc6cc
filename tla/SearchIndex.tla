----------------------------- MODULE SearchIndex -----------------------------
(***************************************************************************)
(* The inverted index of work units (internal/search): the keys that are   *)
(* written for a unit, and the queries answered from them by the original  *)
(* service (search.go) and by the Badger backend (badger_backend.go).      *)
(*                                                                         *)
(* A key is the sequence of its segments, which the code joins with ":".   *)
(* A context ID may contain ":" and is then several segments; other names  *)
(* are one segment.  A payload is the set of words it splits into.         *)
(***************************************************************************)
EXTENDS Integers, SequencesExt

CONSTANTS
    Units,       \* bound: the work units that exist, as a sequence of records
    EmptyId,     \* the empty ID
    ShortWords,  \* the words of fewer than three letters
    System,      \* proto.WorkUnitType_SYSTEM
    Vegetable    \* the pair <<"category", "vegetable">>

IsPair(p) == p = <<p[1], p[2]>>

\* text: isTextPayload; meta: key-value pairs; rels: pairs of type and target.  An ID
\* names one unit, which may come more than once.
ASSUME UnitsAssumption ==
    /\ Units \in Seq(Range(Units))
    /\ \A i \in DOMAIN Units :
          /\ {"id", "context", "agent", "type", "ts", "text", "words", "meta", "rels"}
               = DOMAIN Units[i]
          /\ Units[i].context \in Seq(Range(Units[i].context)) \ {<<>>}
          /\ Units[i].ts \in Nat \ {0}
          /\ \A p \in Units[i].meta \cup Units[i].rels : IsPair(p)
          /\ IsFiniteSet(Units[i].rels)
    /\ \A i, j \in DOMAIN Units : Units[i].id = Units[j].id => Units[i] = Units[j]

----------------------------------------------------------------------------
\* Indexing

\* The words under which a unit is found: those of a text payload and those of
\* its metadata values, short ones left out.
Searchable(u) ==
    ((IF u.text THEN u.words ELSE {}) \cup {m[2] : m \in u.meta}) \ ShortWords

\* indexBatch, for one unit of the batch.
IndexKeys(u) ==
    IF u.id = EmptyId THEN {}
    ELSE {<<"wu", u.id>>, <<"ctx">> \o u.context \o <<u.id>>, <<"agent", u.agent, u.id>>,
          <<"type", u.type, u.id>>, <<"ts">> \o u.context \o <<u.ts, u.id>>}
         \cup {<<"text", w, u.id>> : w \in Searchable(u)}
         \cup {<<"meta", m[1], m[2], u.id>> : m \in u.meta}

\* BadgerBackend.IndexBatch writes the relationships too, in both directions.
BackendKeys(u) ==
    IF u.id = EmptyId THEN {}
    ELSE IndexKeys(u) \cup {<<"rel", r[1], r[2], u.id>> : r \in u.rels}
                      \cup {<<"rrel", r[1], u.id, r[2]>> : r \in u.rels}

----------------------------------------------------------------------------
\* Reading the index

\* The IDs at the end of the keys with a prefix.
Collect(index, prefix) == {Last(k) : k \in {k \in index : IsPrefix(prefix, k)}}

AllUnits(index) == Collect(index, <<"wu">>)

\* The timestamp is the third segment of the key: of a context that contains
\* ":" that is no number, and the unit counts as the oldest of all.
TimestampOf(index, id) ==
    LET keys == {k \in index : k[1] = "ts" /\ Last(k) = id /\ Len(k) = 4}
    IN  IF keys = {} THEN 0 ELSE Max({k[3] : k \in keys})

\* Results are sorted by descending timestamp from the order of a Go map: units
\* of the same instant may come in any order.
Orders(index, ids) ==
    {s \in SetToSeqs(ids) : \A i, j \in DOMAIN s :
        i < j => TimestampOf(index, s[i]) >= TimestampOf(index, s[j])}

\* Mutant: the end of the page is taken as its last element.
PageTooLong(s, offset, limit) == SubSeq(s, offset + 1, Min({offset + limit + 1, Len(s)}))

\* limit and offset; an offset at or past the end gives an empty page.
Page(s, offset, limit) == SubSeq(s, offset + 1, Min({offset + limit, Len(s)}))

\* The default limit.
EffectiveLimit(limit) == IF limit <= 0 THEN 10 ELSE limit

----------------------------------------------------------------------------
\* Queries.  words: the words of the query text, where text tells if there is
\* one; context: <<>> for none; agents, types, meta: sets, empty for none.

\* A word that occurs nowhere is left out of the intersection, as short words are.
TextMatches(index, words) ==
    LET found == {w \in words \ ShortWords : Collect(index, <<"text", w>>) # {}}
    IN  IF found = {} THEN {}
        ELSE {id \in UNION {Collect(index, <<"text", w>>) : w \in found} :
                \A w \in found : id \in Collect(index, <<"text", w>>)}

\* The filters are applied one after the other: the first one that is given
\* collects IDs from the index, each later one tests the IDs that remain.
ByText(index, q) == IF q.text THEN TextMatches(index, q.words) ELSE {}

ByContext(index, q) ==
    LET ids == ByText(index, q)
    IN  IF q.context = <<>> THEN ids
        ELSE IF ~q.text THEN Collect(index, <<"ctx">> \o q.context)
        ELSE {id \in ids : <<"ctx">> \o q.context \o <<id>> \in index}

\* Mutant: the agents are collected even when a filter came before.
ByAgentCollects(index, q) ==
    IF q.agents = {} THEN ByContext(index, q)
    ELSE UNION {Collect(index, <<"agent", a>>) : a \in q.agents}

ByAgent(index, q) ==
    LET ids == ByContext(index, q)
    IN  IF q.agents = {} THEN ids
        ELSE IF ~q.text /\ q.context = <<>>
             THEN UNION {Collect(index, <<"agent", a>>) : a \in q.agents}
        ELSE {id \in ids : \E a \in q.agents : <<"agent", a, id>> \in index}

ByType(index, q) ==
    LET ids == ByAgent(index, q)
    IN  IF q.types = {} THEN ids
        ELSE IF ~q.text /\ q.context = <<>> /\ q.agents = {}
             THEN UNION {Collect(index, <<"type", t>>) : t \in q.types}
        ELSE {id \in ids : \E t \in q.types : <<"type", t, id>> \in index}

\* No filter other than metadata is given.
MetaOnly(q) == ~q.text /\ q.context = <<>> /\ q.agents = {} /\ q.types = {}

\* All the pairs of meta, whichever of them a meta-only query begins with.
WithMeta(index, ids, meta) ==
    {id \in ids : \A m \in meta : <<"meta", m[1], m[2], id>> \in index}

ByMeta(index, q) ==
    IF q.meta = {} THEN ByType(index, q)
    ELSE WithMeta(index,
                  IF MetaOnly(q)
                  THEN UNION {Collect(index, <<"meta", m[1], m[2]>>) : m \in q.meta}
                  ELSE ByType(index, q),
                  q.meta)

----------------------------------------------------------------------------
\* Search.Search of search.go

\* The two answers that are written into the code for its tests.
FixedAnswer(q) ==
    IF q.types = {System} THEN {"test-unit-2"}
    ELSE IF q.meta = {Vegetable} THEN {"test-unit-3"}
    ELSE {}

\* A meta-only query removes the pair it began with from the caller's map; a
\* single pair is thereby gone when the code asks if there was any filter.
LooksUnfiltered(q) == MetaOnly(q) /\ Cardinality(q.meta) <= 1

\* The IDs found, before sorting and paging.
SearchIds(index, q) ==
    IF FixedAnswer(q) # {} THEN FixedAnswer(q)
    ELSE IF LooksUnfiltered(q) /\ ByMeta(index, q) = {} THEN AllUnits(index)
    ELSE ByMeta(index, q)

SearchTotal(index, q) ==
    IF FixedAnswer(q) = {} /\ LooksUnfiltered(q) /\ AllUnits(index) # {}
    THEN Cardinality(AllUnits(index))
    ELSE Cardinality(SearchIds(index, q))

\* The pages that Search may return.
SearchPages(index, q) ==
    {Page(s, q.offset, EffectiveLimit(q.limit)) : s \in Orders(index, SearchIds(index, q))}

----------------------------------------------------------------------------
\* Search and FindByRelationship of badger_backend.go

\* The filters are those of search.go without the fixed answers, and the
\* caller's map is left alone.
BackendIds(index, q) ==
    IF MetaOnly(q) /\ q.meta = {} THEN AllUnits(index) ELSE ByMeta(index, q)

BackendTotal(index, q) == Cardinality(BackendIds(index, q))

BackendPages(index, q) ==
    {Page(s, q.offset, EffectiveLimit(q.limit)) : s \in Orders(index, BackendIds(index, q))}

\* IncludeFull: the IDs of a page whose units come with it; one not indexed has none.
FullUnits(index, page) == ToSet(page) \cap AllUnits(index)

\* The units with a relationship of a type to the target, or to anything when
\* there is no target, and what the target itself refers to.
Related(index, relType, target) ==
    IF target = EmptyId THEN Collect(index, <<"rel", relType>>)
    ELSE Collect(index, <<"rel", relType, target>>)
         \cup Collect(index, <<"rrel", relType, target>>)

\* Each filter that is given tests the IDs that remain.
RelatedFiltered(index, ids, q) ==
    WithMeta(index,
             {id \in ids :
                /\ q.context = <<>> \/ <<"ctx">> \o q.context \o <<id>> \in index
                /\ q.agents = {} \/ \E a \in q.agents : <<"agent", a, id>> \in index
                /\ q.types = {} \/ \E t \in q.types : <<"type", t, id>> \in index},
             q.meta)

RelatedIds(index, relType, target, q) ==
    RelatedFiltered(index, Related(index, relType, target), q)

RelatedPages(index, relType, target, q) ==
    {Page(s, q.offset, EffectiveLimit(q.limit)) :
        s \in Orders(index, RelatedIds(index, relType, target, q))}

----------------------------------------------------------------------------
\* FindByRelationship of factory.go: a search for the metadata pair rel_<type>,
\* written here <<relType, target>>, which replaces a pair of that key.
AsMetaQuery(relType, target, q) ==
    [q EXCEPT !.meta = {m \in @ : m[1] # relType} \cup {<<relType, target>>}]
=============================================================================
