---------------------------- MODULE ContextStore ----------------------------
(***************************************************************************)
(* Contexts in the Badger storage (internal/storage/badger/storage.go):    *)
(* GetContext and UpdateContext with the cache beside the database.        *)
(*                                                                         *)
(* The cache holds pointers, and GetContext hands them out: UpdateContext  *)
(* changes, without a lock, the very object that the cache and concurrent  *)
(* calls hold.  So objects have an identity here.  Locks are taken only    *)
(* around a single access of the cache, which is one action, as is a       *)
(* Badger transaction.  What sits in the write-ahead log is StorageWAL's.  *)
(***************************************************************************)
EXTENDS Naturals, FiniteSets, Functions

CONSTANTS
    Contexts,      \* context IDs
    Members,       \* what a context lists: agents, and pinned units likewise
    Callers,       \* bound: calls of GetContext and UpdateContext at once
    Requests,      \* the UpdateContextRequests that callers send
    CacheSize,     \* config.ContextCacheSize
    MaxCalls,      \* bound: calls in a behaviour
    CommitErrors   \* whether a Badger commit may fail

VARIABLES
    db,        \* the record Badger has of each context, or NoRecord
    cache,     \* the object cached for some of the contexts
    heap,      \* the content of the objects
    calls,     \* the calls in progress
    begun,     \* how many calls have begun
    intended,  \* history: what the updates so far make of each context
    disturbed  \* history: contexts with an update that failed or overlapped a call

vars == <<db, cache, heap, calls, begun, intended, disturbed>>

ASSUME ContextStoreSizes ==
    CacheSize \in Nat \ {0} /\ MaxCalls \in Nat /\ IsFiniteSet(Callers)
ASSUME ContextRequests ==
    Requests \subseteq [add : SUBSET Members, remove : SUBSET Members,
                        meta : {"nil", "empty", "some"}]
ASSUME ContextSwitch == CommitErrors \in BOOLEAN

----------------------------------------------------------------------------
\* members stands for AgentIds and PinnedUnits, meta for the map Meta, which
\* may be nil, empty, or have entries.
Record == [members : SUBSET Members, meta : {"nil", "empty", "some"}]

NoRecord == [members |-> {}, meta |-> "none"]

NoRequest == [add |-> {}, remove |-> {}, meta |-> "none"]

\* Enough objects for every caller and every place in the cache.
Objects == 1..(Cardinality(Callers) + CacheSize)

NoObject == 0

Call == [stage : {"lookup", "read", "fill", "have", "marshal", "commit", "store"},
         ctx : Contexts, req : Requests \cup {NoRequest},
         obj : Objects \cup {NoObject}, data : Record \cup {NoRecord}]

NoCall == [stage |-> "none"]

IsUpdate(x) == x.req # NoRequest

InProgress(c) == {p \in Callers : calls[p] # NoCall /\ calls[p].ctx = c}

\* json.Marshal and, on the way back, Unmarshal: omitempty drops an empty map.
Marshalled(v) == [v EXCEPT !.meta = IF v.meta = "empty" THEN "nil" ELSE v.meta]

\* An object that neither the cache nor a call refers to.
Fresh ==
    CHOOSE o \in Objects :
        /\ o \notin Range(cache)
        /\ \A p \in Callers : calls[p] = NoCall \/ calls[p].obj # o

Init ==
    /\ db = [c \in Contexts |-> NoRecord]
    /\ cache = << >>
    /\ heap = [o \in Objects |-> NoRecord]
    /\ calls = [p \in Callers |-> NoCall]
    /\ begun = 0
    /\ intended = [c \in Contexts |-> NoRecord]
    /\ disturbed = {}

\* Mutant: eviction comes one entry too late.
SetContextLate(c, o) ==
    LET full == [d \in DOMAIN cache \cup {c} |-> IF d = c THEN o ELSE cache[d]]
    IN IF Cardinality(DOMAIN full) <= CacheSize + 1 THEN {full}
       ELSE {Restrict(full, DOMAIN full \ {d}) : d \in DOMAIN full}

\* The caches Cache.SetContext may leave: the object is entered, and an arbitrary
\* entry, this one included, is evicted when there are too many.
SetContext(c, o) ==
    LET full == [d \in DOMAIN cache \cup {c} |-> IF d = c THEN o ELSE cache[d]]
    IN IF Cardinality(DOMAIN full) <= CacheSize THEN {full}
       ELSE {Restrict(full, DOMAIN full \ {d}) : d \in DOMAIN full}

----------------------------------------------------------------------------
\* A call begins; NoRequest is a GetContext.
Begin(p, c, req) ==
    /\ calls[p] = NoCall
    /\ begun < MaxCalls
    /\ begun' = begun + 1
    /\ calls' = [calls EXCEPT ![p] =
           [stage |-> "lookup", ctx |-> c, req |-> req, obj |-> NoObject,
            data |-> NoRecord]]
    /\ disturbed' =
           IF \E q \in InProgress(c) : req # NoRequest \/ IsUpdate(calls[q])
           THEN disturbed \cup {c} ELSE disturbed
    /\ UNCHANGED <<db, cache, heap, intended>>

\* GetContext looks in the cache.
Lookup(p) ==
    LET x == calls[p]
    IN /\ x.stage = "lookup"
       /\ calls' = [calls EXCEPT ![p] =
              IF x.ctx \in DOMAIN cache
              THEN [x EXCEPT !.stage = "have", !.obj = cache[x.ctx]]
              ELSE [x EXCEPT !.stage = "read"]]
       /\ UNCHANGED <<db, cache, heap, begun, intended, disturbed>>

\* GetContext finds the record in Badger and makes an object of it.
ReadFound(p) ==
    LET x == calls[p]
    IN /\ x.stage = "read"
       /\ db[x.ctx] # NoRecord
       /\ heap' = [heap EXCEPT ![Fresh] = db[x.ctx]]
       /\ calls' = [calls EXCEPT ![p] = [x EXCEPT !.stage = "fill", !.obj = Fresh]]
       /\ UNCHANGED <<db, cache, begun, intended, disturbed>>

\* A new context has what the request adds; what it removes is not looked at.
Created(req) == [members |-> req.add, meta |-> req.meta]

\* GetContext finds nothing: an error to its caller; UpdateContext goes on to
\* make a new context.
ReadNothing(p) ==
    LET x == calls[p]
    IN /\ x.stage = "read"
       /\ db[x.ctx] = NoRecord
       /\ \/ /\ ~IsUpdate(x)
             /\ calls' = [calls EXCEPT ![p] = NoCall]
             /\ UNCHANGED heap
          \/ /\ IsUpdate(x)
             /\ heap' = [heap EXCEPT ![Fresh] = Created(x.req)]
             /\ calls' = [calls EXCEPT ![p] =
                    [x EXCEPT !.stage = "marshal", !.obj = Fresh]]
       /\ UNCHANGED <<db, cache, begun, intended, disturbed>>

\* GetContext enters the object in the cache, over whatever is there by now.
Fill(p) ==
    LET x == calls[p]
    IN /\ x.stage = "fill"
       /\ cache' \in SetContext(x.ctx, x.obj)
       /\ calls' = [calls EXCEPT ![p] = [x EXCEPT !.stage = "have"]]
       /\ UNCHANGED <<db, heap, begun, intended, disturbed>>

\* GetContext returns the object.
GetReturns(p) ==
    /\ calls[p].stage = "have"
    /\ ~IsUpdate(calls[p])
    /\ calls' = [calls EXCEPT ![p] = NoCall]
    /\ UNCHANGED <<db, cache, heap, begun, intended, disturbed>>

\* Mutant: the list without the removed members is not assigned.
UpdatedAddsOnly(v, req) ==
    [members |-> v.members \cup req.add,
     meta |-> IF req.meta = "some" THEN "some" ELSE v.meta]

\* The changes UpdateContext makes: additions, then removals, then metadata.
Updated(v, req) ==
    [members |-> (v.members \cup req.add) \ req.remove,
     meta |-> IF req.meta = "some" THEN "some" ELSE v.meta]

\* UpdateContext changes the object in place.
Change(p) ==
    LET x == calls[p]
        v == heap[x.obj]
    IN /\ x.stage = "have"
       /\ IsUpdate(x)
       /\ ~(v.meta = "nil" /\ x.req.meta = "some")
       /\ heap' = [heap EXCEPT ![x.obj] = Updated(v, x.req)]
       /\ calls' = [calls EXCEPT ![p] = [x EXCEPT !.stage = "marshal"]]
       /\ UNCHANGED <<db, cache, begun, intended, disturbed>>

\* "assignment to entry in nil map": the members are changed, the handler of
\* the request panics, and the HTTP server recovers.
ChangePanics(p) ==
    LET x == calls[p]
        v == heap[x.obj]
    IN /\ x.stage = "have"
       /\ IsUpdate(x)
       /\ v.meta = "nil"
       /\ x.req.meta = "some"
       /\ heap' = [heap EXCEPT ![x.obj].members = Updated(v, x.req).members]
       /\ calls' = [calls EXCEPT ![p] = NoCall]
       /\ disturbed' = disturbed \cup {x.ctx}
       /\ UNCHANGED <<db, cache, begun, intended>>

\* Mutant: the record is built from what Badger has.
MarshalDB(p) ==
    LET x == calls[p]
    IN /\ x.stage = "marshal"
       /\ calls' = [calls EXCEPT ![p] =
              [x EXCEPT !.stage = "commit",
                        !.data = IF db[x.ctx] = NoRecord THEN Marshalled(heap[x.obj])
                                 ELSE db[x.ctx]]]
       /\ UNCHANGED <<db, cache, heap, begun, intended, disturbed>>

\* storeContextInternal serialises the object as it is now.
Marshal(p) ==
    LET x == calls[p]
    IN /\ x.stage = "marshal"
       /\ calls' = [calls EXCEPT ![p] =
              [x EXCEPT !.stage = "commit", !.data = Marshalled(heap[x.obj])]]
       /\ UNCHANGED <<db, cache, heap, begun, intended, disturbed>>

Commit(p) ==
    LET x == calls[p]
    IN /\ x.stage = "commit"
       /\ db' = [db EXCEPT ![x.ctx] = x.data]
       /\ calls' = [calls EXCEPT ![p] = [x EXCEPT !.stage = "store"]]
       /\ UNCHANGED <<cache, heap, begun, intended, disturbed>>

\* The transaction fails: the caller gets an error, the object stays changed.
CommitFails(p) ==
    LET x == calls[p]
    IN /\ CommitErrors
       /\ x.stage = "commit"
       /\ calls' = [calls EXCEPT ![p] = NoCall]
       /\ disturbed' = disturbed \cup {x.ctx}
       /\ UNCHANGED <<db, cache, heap, begun, intended>>

\* What a request is meant to make of a context.
Intended(v, req) ==
    IF v = NoRecord THEN Marshalled(Created(req))
    ELSE [members |-> {m \in Members : /\ m \in v.members \/ m \in req.add
                                       /\ m \notin req.remove},
          meta |-> IF req.meta = "some" THEN "some" ELSE v.meta]

\* The object is entered in the cache and the update returns.
UpdateReturns(p) ==
    LET x == calls[p]
    IN /\ x.stage = "store"
       /\ cache' \in SetContext(x.ctx, x.obj)
       /\ calls' = [calls EXCEPT ![p] = NoCall]
       /\ intended' = [intended EXCEPT ![x.ctx] = Intended(@, x.req)]
       /\ UNCHANGED <<db, heap, begun, disturbed>>

Next ==
    \/ \E p \in Callers, c \in Contexts, req \in Requests \cup {NoRequest} :
            Begin(p, c, req)
    \/ \E p \in Callers :
            \/ Lookup(p) \/ ReadFound(p) \/ ReadNothing(p) \/ Fill(p)
            \/ GetReturns(p) \/ Change(p) \/ ChangePanics(p) \/ Marshal(p)
            \/ Commit(p) \/ CommitFails(p) \/ UpdateReturns(p)

Spec == Init /\ [][Next]_vars

----------------------------------------------------------------------------
\* Properties

TypeOK ==
    /\ db \in [Contexts -> Record \cup {NoRecord}]
    /\ DOMAIN cache \subseteq Contexts
    /\ \A c \in DOMAIN cache : cache[c] \in Objects
    /\ Cardinality(DOMAIN cache) <= CacheSize
    /\ heap \in [Objects -> Record \cup {NoRecord}]
    /\ calls \in [Callers -> Call \cup {NoCall}]
    /\ begun \in 0..MaxCalls
    /\ intended \in [Contexts -> Record \cup {NoRecord}]
    /\ disturbed \subseteq Contexts

\* Updates of one context that do not overlap other calls behave like updates of
\* a plain map: between them Badger has what the successful updates add up to, and so
\* has the cached object, if there is one, however often calls on other
\* contexts evicted it.
SequentialCallsCohere ==
    \A c \in Contexts \ disturbed : InProgress(c) = {} =>
        /\ db[c] = intended[c]
        /\ c \in DOMAIN cache => Marshalled(heap[cache[c]]) = db[c]

\* An update that succeeds has written its own change, whoever else works on
\* the same object: a member it adds, and that no request removes, is in the
\* record it committed.
OwnChangeWritten ==
    \A p \in Callers : calls[p].stage = "store" =>
        \A m \in calls[p].req.add :
            (\A req \in Requests : m \notin req.remove) =>
                m \in calls[p].data.members

----------------------------------------------------------------------------
\* What the documents say, and the code does not do

\* README.md:118: "All operations are transaction-based for consistency".  A
\* member that a successful update added, and that no request removes, stays.
AckedChangesStay ==
    \A c \in Contexts : \A m \in intended[c].members :
        (\A req \in Requests : m \notin req.remove) => m \in db[c].members
=============================================================================
