---------------------------- MODULE SearchEngine ----------------------------
(***************************************************************************)
(* Indexing in the background (internal/search): a goroutine receives the  *)
(* work units of a subscription and passes them to the index, over a queue *)
(* that a second goroutine empties in batches.  Three implementations of   *)
(* this exist, of which a process runs one:                                *)
(*   "service"  Search of search.go, with a queue and a loop of its own;   *)
(*   "wrapper"  BadgerBackend of factory.go, which writes each unit itself;*)
(*   "badger"   BadgerBackend of badger_backend.go, with queue and loop,   *)
(*              and a direct write when the queue is full.                 *)
(* The last two are driven by Engine of engine.go.                         *)
(*                                                                         *)
(* A batch is one transaction under the index's mutex.  Searches only read *)
(* and are the operators of SearchIndex.                                   *)
(***************************************************************************)
EXTENDS SearchIndex

CONSTANTS
    QueueSize,  \* the capacity of indexQueue
    BatchSize,  \* batchSize, config.BatchSize
    Queries,    \* bound: the queries that are compared with their meaning
    RelTypes,   \* bound: the relationship types that are asked for
    Targets     \* bound: the targets that are asked for

VARIABLES
    kind,        \* the implementation
    received,    \* how many units the receiving goroutine has taken
    queue,       \* indexQueue
    batch,       \* batch of processIndexQueue
    loop,        \* processIndexQueue has not returned
    index,       \* the keys in Badger
    cancelled,   \* the context of Start is done
    queueClosed, \* Shutdown has closed indexQueue
    dbOpen,      \* Shutdown has not closed Badger
    panic,       \* a send on the closed queue has ended the process
    dropped      \* history: units given up in the open, with a message in the log

pipe == <<received, queue, batch, loop, index, dropped>>
life == <<cancelled, queueClosed, dbOpen, panic>>
vars == <<kind, pipe, life>>

ASSUME PipeAssumption == {QueueSize, BatchSize} \subseteq Nat \ {0}

ASSUME QueryAssumption ==
    \A q \in Queries :
        /\ q \in [text : BOOLEAN, words : {q.words}, context : Seq(Range(q.context)),
                  agents : {q.agents}, types : {q.types}, meta : {q.meta},
                  limit : Int, offset : Nat]
        /\ \A m \in q.meta : IsPair(m)

Kinds == {"service", "wrapper", "badger"}

\* Type correctness.
TypeOK ==
    /\ kind \in Kinds
    /\ received \in 0..Len(Units)
    /\ queue \in Seq(1..Len(Units)) /\ Len(queue) <= QueueSize
    /\ batch \in Seq(1..Len(Units)) /\ Len(batch) < BatchSize
    /\ loop \in BOOLEAN
    /\ index \subseteq UNION {BackendKeys(Units[i]) : i \in DOMAIN Units}
    /\ {cancelled, queueClosed, dbOpen, panic} \subseteq BOOLEAN
    /\ dropped \subseteq 1..Len(Units)

\* NewEngine and Start, or NewSearch and Start.
Init ==
    /\ kind \in Kinds
    /\ received = 0
    /\ queue = <<>>
    /\ batch = <<>>
    /\ loop = (kind # "wrapper")
    /\ index = {}
    /\ cancelled = FALSE
    /\ queueClosed = FALSE
    /\ dbOpen = TRUE
    /\ panic = FALSE
    /\ dropped = {}

----------------------------------------------------------------------------
KeysOf(i) == IF kind = "badger" THEN BackendKeys(Units[i]) ELSE IndexKeys(Units[i])

\* indexBatch and IndexBatch: all units in one transaction, which a closed
\* database refuses; the error is logged and the units are given up.
Write(units) ==
    LET ids == {units[j] : j \in DOMAIN units}
    IN  IF dbOpen
        THEN /\ index' = index \cup UNION {KeysOf(i) : i \in ids}
             /\ UNCHANGED dropped
        ELSE /\ dropped' = dropped \cup ids
             /\ UNCHANGED index

\* The receiving goroutine takes the next unit.  That it ends, when the
\* subscription is closed or the context done, looks like units that stay away.
TakeUnit ==
    /\ received < Len(Units)
    /\ received' = received + 1

Enqueue ==
    /\ ~queueClosed
    /\ Len(queue) < QueueSize
    /\ queue' = Append(queue, received + 1)

\* search.go: a full queue drops the unit.
ReceiveService ==
    /\ kind = "service"
    /\ ~queueClosed
    /\ TakeUnit
    /\ \/ Enqueue /\ UNCHANGED dropped
       \/ /\ Len(queue) >= QueueSize
          /\ dropped' = dropped \cup {received + 1}
          /\ UNCHANGED queue
    /\ UNCHANGED <<kind, batch, loop, index, life>>

\* factory.go: every unit is a batch of its own.
ReceiveWrapper ==
    /\ kind = "wrapper"
    /\ TakeUnit
    /\ Write(<<received + 1>>)
    /\ UNCHANGED <<kind, queue, batch, loop, life>>

\* Mutant: a full queue drops the unit.
ReceiveBadgerDrops ==
    /\ kind = "badger"
    /\ ~queueClosed
    /\ TakeUnit
    /\ queue' = IF Len(queue) < QueueSize THEN Append(queue, received + 1) ELSE queue
    /\ UNCHANGED <<kind, batch, loop, index, dropped, life>>

\* badger_backend.go: Index queues the unit, or fails when the context is done,
\* or, when neither is possible, writes it directly.
ReceiveBadger ==
    /\ kind = "badger"
    /\ ~queueClosed
    /\ TakeUnit
    /\ \/ Enqueue /\ UNCHANGED <<index, dropped>>
       \/ /\ cancelled
          /\ dropped' = dropped \cup {received + 1}
          /\ UNCHANGED <<queue, index>>
       \/ /\ ~cancelled
          /\ Len(queue) >= QueueSize
          /\ Write(<<received + 1>>)
          /\ UNCHANGED queue
    /\ UNCHANGED <<kind, batch, loop, life>>

\* A send on the closed queue: also one that does not wait panics.
ReceivePanics ==
    /\ kind # "wrapper"
    /\ queueClosed
    /\ TakeUnit
    /\ panic' = TRUE
    /\ UNCHANGED <<kind, queue, batch, loop, index, dropped, cancelled, queueClosed, dbOpen>>

----------------------------------------------------------------------------
\* processIndexQueue, the same in search.go and badger_backend.go

\* Mutant: the batch is written one unit too late.
LoopTakeLate ==
    LET units == Append(batch, Head(queue))
    IN  /\ loop
        /\ queue # <<>>
        /\ queue' = Tail(queue)
        /\ IF Len(units) > BatchSize
           THEN batch' = <<>> /\ Write(units)
           ELSE batch' = units /\ UNCHANGED <<index, dropped>>
        /\ UNCHANGED <<kind, received, loop, life>>

\* A unit joins the batch, which is written as soon as it is full.
LoopTake ==
    LET units == Append(batch, Head(queue))
    IN  /\ loop
        /\ queue # <<>>
        /\ queue' = Tail(queue)
        /\ IF Len(units) >= BatchSize
           THEN batch' = <<>> /\ Write(units)
           ELSE batch' = units /\ UNCHANGED <<index, dropped>>
        /\ UNCHANGED <<kind, received, loop, life>>

\* Mutant: nothing is written between two full batches.
LoopTickNever ==
    /\ FALSE
    /\ UNCHANGED vars

\* The ticker: what has accumulated is written.
LoopTick ==
    /\ loop
    /\ batch # <<>>
    /\ batch' = <<>>
    /\ Write(batch)
    /\ UNCHANGED <<kind, received, queue, loop, life>>

\* The loop ends, on the closed and empty queue or on the end of the context,
\* with a last write; in the second case the queue keeps what it holds.
LoopEnd ==
    /\ loop
    /\ cancelled \/ (queueClosed /\ queue = <<>>)
    /\ loop' = FALSE
    /\ batch' = <<>>
    /\ IF batch = <<>> THEN UNCHANGED <<index, dropped>> ELSE Write(batch)
    /\ UNCHANGED <<kind, received, queue, life>>

LoopStep == LoopTake \/ LoopTick \/ LoopEnd

----------------------------------------------------------------------------
\* Stopping

Cancel ==
    /\ ~cancelled
    /\ cancelled' = TRUE
    /\ UNCHANGED <<kind, pipe, queueClosed, dbOpen, panic>>

\* Shutdown closes the queue and then the database; it waits for nobody.
ShutdownQueue ==
    /\ ~queueClosed
    /\ queueClosed' = TRUE
    /\ UNCHANGED <<kind, pipe, cancelled, dbOpen, panic>>

ShutdownDb ==
    /\ queueClosed
    /\ dbOpen
    /\ dbOpen' = FALSE
    /\ UNCHANGED <<kind, pipe, cancelled, queueClosed, panic>>

Step ==
    \/ ReceiveService \/ ReceiveWrapper \/ ReceiveBadger \/ ReceivePanics
    \/ LoopStep
    \/ Cancel \/ ShutdownQueue \/ ShutdownDb

Next == ~panic /\ Step

Spec == Init /\ [][Next]_vars

\* The loop is a goroutine with a ticker: it always gets to run again.
FairSpec == Spec /\ WF_vars(~panic /\ LoopStep)

----------------------------------------------------------------------------
\* Properties

Elements(s) == {s[j] : j \in DOMAIN s}

\* All the keys of the unit are in the index.
Indexed(i) == KeysOf(i) \subseteq index

\* Between queue, batches, direct writes and tickers no unit goes missing: as
\* long as the context is not done and Shutdown has not begun, a unit that was
\* received is in the queue, in the batch or, with all its keys, in the index;
\* only the service drops units, those that find the queue full.
NothingMissing ==
    ~cancelled /\ ~queueClosed =>
        /\ \A i \in 1..received :
             Indexed(i) \/ i \in Elements(queue) \cup Elements(batch) \cup dropped
        /\ dropped # {} => kind = "service"

\* What enters the queue is searchable in the end, unless the context ends or
\* the index is shut down before.
QueuedIsIndexed ==
    \A i \in 1..Len(Units) :
        i \in Elements(queue) ~> (Indexed(i) \/ cancelled \/ queueClosed)

\* What a query asks for, in terms of units: every filter that is given holds.
Matches(u, q) ==
    /\ q.text => /\ q.words \ ShortWords # {}
                 /\ q.words \ ShortWords \subseteq Searchable(u)
    /\ q.context # <<>> => u.context = q.context
    /\ q.agents # {} => u.agent \in q.agents
    /\ q.types # {} => u.type \in q.types
    /\ q.meta \subseteq u.meta

Meaning(q) ==
    {Units[i].id : i \in {j \in DOMAIN Units : /\ Units[j].id # EmptyId
                                               /\ <<"wu", Units[j].id>> \in index
                                               /\ Matches(Units[j], q)}}

\* The queries that are answered by their meaning: every word occurs in the
\* index, and a context that is collected by prefix is the prefix of no other.
Plain(q) ==
    /\ q.text => \A w \in q.words \ ShortWords : Collect(index, <<"text", w>>) # {}
    /\ ~q.text /\ q.context # <<>> =>
         \A k \in index : IsPrefix(<<"ctx">> \o q.context, k) => Len(k) = Len(q.context) + 2

\* search.go and factory.go: the chain of filters, of which the first collects
\* and the others test, finds exactly the indexed units that satisfy all of them
\* and counts them, and so does a relationship query, which is a query for
\* metadata; except for the two answers fixed for the tests and for a query
\* with a single metadata pair and nothing else.
SearchExact ==
    kind # "badger" =>
        \A q \in Queries \cup {AsMetaQuery(t, target, q) :
                               t \in RelTypes, target \in Targets, q \in Queries} :
            Plain(q) /\ FixedAnswer(q) = {} /\ (LooksUnfiltered(q) => q.meta = {}) =>
                /\ SearchIds(index, q) = Meaning(q)
                /\ SearchTotal(index, q) = Cardinality(Meaning(q))

\* What a relationship query means: u points to the target, or the target to u; or,
\* without a target, u points anywhere.
RelatedMeaning(t, target, q) ==
    LET found(id) == {Units[i] : i \in {j \in DOMAIN Units : /\ Units[j].id = id
                                                            /\ id # EmptyId /\ Indexed(j)}}
        named == {r[2] : r \in UNION {Units[i].rels : i \in DOMAIN Units}}
    IN  {id \in AllUnits(index) \cup named :
           /\ \/ \E u \in found(id) : \E r \in u.rels :
                    r[1] = t /\ (target = EmptyId \/ r[2] = target)
              \/ \E u \in found(target) : <<t, id>> \in u.rels
           /\ \/ q.context = <<>> /\ q.agents = {} /\ q.types = {} /\ q.meta = {}
              \/ \E u \in found(id) : Matches(u, [q EXCEPT !.text = FALSE])}

\* badger_backend.go: the same without exceptions; and a relationship query
\* finds the units that point to the target and the IDs that the target points
\* to, indexed or not, and applies the other filters to them.
BackendExact ==
    kind = "badger" =>
        \A q \in Queries :
            /\ Plain(q) => /\ BackendIds(index, q) = Meaning(q)
                           /\ BackendTotal(index, q) = Cardinality(Meaning(q))
            /\ \A t \in RelTypes, target \in Targets :
                 RelatedIds(index, t, target, q) = RelatedMeaning(t, target, q)

\* What the index answers is what the indexed units say, in each of the three
\* forms of the search engine (search.go, factory.go, badger_backend.go).
AnswersExact == SearchExact /\ BackendExact

\* The pages of one limit cut an answer into pieces, newest first.
Partition(ids, pages(_), limit) ==
    (\A a, b \in ids : a # b => TimestampOf(index, a) # TimestampOf(index, b)) =>
        \A n \in 0..Cardinality(ids) : \A page \in pages(n) :
            /\ Len(page) = Max({0, Min({limit, Cardinality(ids) - n * limit})})
            /\ \A i \in DOMAIN page :
                 n * limit + i - 1 =
                   Cardinality({id \in ids : TimestampOf(index, id) > TimestampOf(index, page[i])})

\* Paging through an answer with one limit gives every unit once, newest first,
\* as long as no two of the units have the same timestamp; and the backend can
\* supply the full unit for every ID on a page of a search.
PagesPartition ==
    \A q \in Queries :
        LET limit == EffectiveLimit(q.limit)
            at(n) == [q EXCEPT !.offset = n * limit]
        IN  IF kind # "badger"
            THEN Partition(SearchIds(index, q), LAMBDA n : SearchPages(index, at(n)), limit)
            ELSE /\ Partition(BackendIds(index, q), LAMBDA n : BackendPages(index, at(n)), limit)
                 /\ \A page \in BackendPages(index, q) : FullUnits(index, page) = ToSet(page)
                 /\ \A t \in RelTypes, target \in Targets :
                      Partition(RelatedIds(index, t, target, q),
                                LAMBDA n : RelatedPages(index, t, target, at(n)), limit)
=============================================================================
