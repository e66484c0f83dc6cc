------------------------- MODULE ContextStoreProofs -------------------------
(***************************************************************************)
(* Proofs about ContextStore, for every set of contexts and members, every *)
(* finite set of callers, all requests, every cache size and either kind   *)
(* of database.                                                            *)
(***************************************************************************)
EXTENDS ContextStore, FiniteSetTheorems, TLAPS

----------------------------------------------------------------------------
\* The invariants

\* The stages in which a call has an object, and those of an update that has
\* made its change.
Holding == {"fill", "have", "marshal", "commit", "store"}
Changed == {"marshal", "commit", "store"}

\* With the objects hp: a call refers to a proper object as soon as it has one; only
\* updates get to change anything; what was serialised is a record, without an
\* empty map.
CallInv(x, hp) ==
    /\ x.stage \in {"lookup", "read"} => x.obj = NoObject
    /\ x.stage \in Holding => x.obj \in Objects /\ hp[x.obj] \in Record
    /\ x.stage \in Changed => x.req \in Requests
    /\ x.stage \in {"commit", "store"} => x.data \in Record /\ x.data.meta # "empty"

\* Cached objects are proper ones, and Badger never has an empty map.
StoreInv ==
    /\ TypeOK
    /\ IsFiniteSet(DOMAIN cache)
    /\ \A c \in DOMAIN cache : heap[cache[c]] \in Record
    /\ \A c \in Contexts : db[c].meta # "empty"
    /\ \A p \in Callers : calls[p] # NoCall => CallInv(calls[p], heap)

\* What an update adds for good is in its object once it has changed it, and in
\* what it commits.
Kept(x) == {m \in x.req.add : \A req \in Requests : m \notin req.remove}

ChangeInv ==
    \A p \in Callers :
        /\ calls[p].stage = "marshal" => Kept(calls[p]) \subseteq heap[calls[p].obj].members
        /\ calls[p].stage \in {"commit", "store"} => Kept(calls[p]) \subseteq calls[p].data.members

\* With the cache k and the calls cs: object o is referred to for context c.
Refers(o, c, k, cs) ==
    \/ c \in DOMAIN k /\ k[c] = o
    \/ \E p \in Callers : cs[p].stage \in Holding /\ cs[p].obj = o /\ cs[p].ctx = c

\* An object belongs to one context, whoever refers to it.
OwnerInv ==
    \A o \in Objects : \A c, d \in Contexts :
        Refers(o, c, cache, calls) /\ Refers(o, d, cache, calls) => c = d

\* The state of a call on a context that nothing has disturbed, where Badger has
\* b, the updates so far make i of the context, k is the cache, hp the objects.
CallCoheres(x, b, i, k, hp) ==
    /\ x.stage \in {"fill", "have"} => Marshalled(hp[x.obj]) = b
    /\ IsUpdate(x) /\ x.stage \in {"read", "fill"} => x.ctx \notin DOMAIN k
    /\ IsUpdate(x) /\ x.stage \in {"have"} \cup Changed /\ x.ctx \in DOMAIN k =>
           k[x.ctx] = x.obj
    /\ x.stage \in Changed => Marshalled(hp[x.obj]) = Intended(i, x.req)
    /\ x.stage \in {"marshal", "commit"} => b = i
    /\ x.stage \in {"commit", "store"} => x.data = Intended(i, x.req)
    /\ x.stage = "store" => b = Intended(i, x.req)

\* Badger, history and cache agree.
Agrees(c, b, i, k, hp) ==
    /\ b = i
    /\ c \in DOMAIN k => Marshalled(hp[k[c]]) = b

\* The calls that work on a context.
On(c, cs) == {p \in Callers : cs[p] # NoCall /\ cs[p].ctx = c}

\* An undisturbed context: an update is alone on it; outside the last part of
\* an update Badger, history and cache agree.
Coheres(c, cs, b, i, k, hp) ==
    /\ \A p, q \in On(c, cs) : p # q => ~IsUpdate(cs[p])
    /\ (\A p \in On(c, cs) : cs[p].stage \notin Changed) => Agrees(c, b, i, k, hp)
    /\ \A p \in On(c, cs) : CallCoheres(cs[p], b, i, k, hp)

CoherenceInv ==
    \A c \in Contexts \ disturbed :
        Coheres(c, calls, db[c], intended[c], cache, heap)

----------------------------------------------------------------------------
\* Facts about the operators

\* The absent values are of no type of theirs.
LEMMA AbsentValues ==
  /\ NoRecord \notin Record
  /\ NoCall \notin Call
  /\ NoRequest \notin Requests
  /\ NoObject \notin Objects
  <1>1. NoRecord \notin Record
    BY DEF NoRecord, Record
  <1>2. NoCall \notin Call
    BY DEF NoCall, Call
  <1>3. NoRequest \notin Requests
    BY ContextRequests DEF NoRequest
  <1>4. NoObject \notin Objects
    BY DEF NoObject, Objects
  <1> QED BY <1>1, <1>2, <1>3, <1>4

\* A request's parts.
LEMMA RequestFields ==
  ASSUME NEW req \in Requests
  PROVE  /\ req.add \subseteq Members /\ req.remove \subseteq Members
         /\ req.meta \in {"nil", "empty", "some"}
  BY ContextRequests

\* Serialising a record gives a record without an empty map, and doing it again
\* changes nothing.
LEMMA MarshalledRecord ==
  ASSUME NEW v \in Record
  PROVE  /\ Marshalled(v) \in Record
         /\ Marshalled(v) # NoRecord
         /\ Marshalled(v).meta # "empty"
         /\ Marshalled(v).members = v.members
         /\ Marshalled(v).meta = IF v.meta = "empty" THEN "nil" ELSE v.meta
         /\ v.meta # "empty" => Marshalled(v) = v
  <1> DEFINE n == IF v.meta = "empty" THEN "nil" ELSE v.meta
             w == Marshalled(v)
  <1>1. w = [v EXCEPT !.meta = n]
    BY DEF Marshalled, Record
  <1>2. n \in {"nil", "some"}
    BY DEF Record
  <1>3. w \in Record /\ w.meta = n /\ w.members = v.members
    BY <1>1, <1>2 DEF Record
  <1>4. v.meta # "empty" => w = v
    BY <1>1 DEF Record
  <1> HIDE DEF w, n
  <1>5. w # NoRecord
    BY <1>3, AbsentValues
  <1> QED BY <1>2, <1>3, <1>4, <1>5 DEF w, n

\* Two records with the same parts are the same.
LEMMA SameRecord ==
  ASSUME NEW v \in Record, NEW w \in Record, v.members = w.members, v.meta = w.meta
  PROVE  v = w
  BY DEF Record

\* A new context and a changed one are records.
LEMMA ChangedRecord ==
  ASSUME NEW v \in Record, NEW req \in Requests
  PROVE  /\ Created(req) \in Record
         /\ Created(req).members = req.add /\ Created(req).meta = req.meta
         /\ Updated(v, req) \in Record
         /\ Updated(v, req).members = (v.members \cup req.add) \ req.remove
         /\ Updated(v, req).meta = IF req.meta = "some" THEN "some" ELSE v.meta
  <1>1. v.members \subseteq Members /\ v.meta \in {"nil", "empty", "some"}
    BY DEF Record
  <1> QED BY <1>1, RequestFields DEF Created, Updated, Record

\* What UpdateContext does in place, serialised, is what was intended.
LEMMA UpdatedAsIntended ==
  ASSUME NEW v \in Record, NEW req \in Requests
  PROVE  /\ Marshalled(Created(req)) = Intended(NoRecord, req)
         /\ Marshalled(Updated(v, req)) = Intended(Marshalled(v), req)
  <1>1. Marshalled(Created(req)) = Intended(NoRecord, req)
    BY DEF Intended
  <1> DEFINE w == Marshalled(v)
             u == Updated(v, req)
             i == Intended(w, req)
             ms == {m \in Members : (m \in w.members \/ m \in req.add)
                                      /\ m \notin req.remove}
             mt == IF req.meta = "some" THEN "some" ELSE w.meta
  <1>2. /\ w \in Record /\ w # NoRecord /\ w.members = v.members
        /\ w.meta = IF v.meta = "empty" THEN "nil" ELSE v.meta
    BY MarshalledRecord
  <1>3. /\ u \in Record /\ u.members = (v.members \cup req.add) \ req.remove
        /\ u.meta = IF req.meta = "some" THEN "some" ELSE v.meta
    BY ChangedRecord
  <1>4. /\ Marshalled(u) \in Record /\ Marshalled(u).members = u.members
        /\ Marshalled(u).meta = IF u.meta = "empty" THEN "nil" ELSE u.meta
    BY <1>3, MarshalledRecord
  <1>5. i = [members |-> ms, meta |-> mt]
    BY <1>2 DEF Intended
  <1>6. v.members \subseteq Members /\ req.add \subseteq Members
        /\ v.meta \in {"nil", "empty", "some"}
    BY RequestFields DEF Record
  <1> HIDE DEF w, u, i
  <1>7. ms = Marshalled(u).members
    BY <1>2, <1>3, <1>4, <1>6
  <1>8. mt = Marshalled(u).meta
    BY <1>2, <1>3, <1>4, <1>6
  <1>9. i \in Record /\ i.members = ms /\ i.meta = mt
    BY <1>4, <1>5, <1>7, <1>8 DEF Record
  <1>10. Marshalled(u) = i
    BY <1>4, <1>7, <1>8, <1>9, SameRecord
  <1> QED BY <1>1, <1>10 DEF w, u, i

\* What is intended is a record.
LEMMA IntendedRecord ==
  ASSUME NEW v \in Record \cup {NoRecord}, NEW req \in Requests
  PROVE  Intended(v, req) \in Record
  <1>1. CASE v = NoRecord
    <2>1. Created(req) \in Record
      BY RequestFields DEF Created, Record
    <2>2. Marshalled(Created(req)) \in Record
      BY <2>1, MarshalledRecord
    <2> QED BY <1>1, <2>2 DEF Intended
  <1>2. CASE v # NoRecord
    <2>1. v \in Record /\ v.meta \in {"nil", "empty", "some"}
      BY <1>2 DEF Record
    <2> QED BY <1>2, <2>1 DEF Intended, Record
  <1> QED BY <1>1, <1>2

\* The caches that SetContext may leave: the entry is there or evicted, another
\* may be evicted, and the limit is kept.
LEMMA SetContextCache ==
  ASSUME NEW c \in Contexts, NEW o \in Objects,
         IsFiniteSet(DOMAIN cache), Cardinality(DOMAIN cache) <= CacheSize,
         DOMAIN cache \subseteq Contexts,
         NEW k \in SetContext(c, o)
  PROVE  /\ DOMAIN k \subseteq DOMAIN cache \cup {c}
         /\ IsFiniteSet(DOMAIN k)
         /\ Cardinality(DOMAIN k) <= CacheSize
         /\ \A d \in DOMAIN k : k[d] = IF d = c THEN o ELSE cache[d]
  <1> DEFINE full == [d \in DOMAIN cache \cup {c} |-> IF d = c THEN o ELSE cache[d]]
             n == Cardinality(DOMAIN cache)
  <1>1. IsFiniteSet(DOMAIN full) /\ Cardinality(DOMAIN full) <= n + 1
        /\ n \in Nat /\ Cardinality(DOMAIN full) \in Nat
    <2>1. DOMAIN full = DOMAIN cache \cup {c}
      OBVIOUS
    <2>2. n \in Nat
      BY FS_CardinalityType
    <2> DEFINE S == DOMAIN cache
    <2>3. /\ IsFiniteSet(S \cup {c})
          /\ Cardinality(S \cup {c}) = IF c \in S THEN n ELSE n + 1
      BY FS_AddElement
    <2> HIDE DEF full, S, n
    <2> QED BY <2>1, <2>2, <2>3 DEF S
  <1>2. CASE Cardinality(DOMAIN full) <= CacheSize /\ k = full
    BY <1>1, <1>2
  <1>3. CASE /\ ~(Cardinality(DOMAIN full) <= CacheSize)
             /\ k \in {Restrict(full, DOMAIN full \ {d}) : d \in DOMAIN full}
    <2>1. PICK d \in DOMAIN full : k = Restrict(full, DOMAIN full \ {d})
      BY <1>3
    <2>2. DOMAIN k = DOMAIN full \ {d} /\ \A e \in DOMAIN k : k[e] = full[e]
      BY <2>1 DEF Restrict
    <2>3. IsFiniteSet(DOMAIN k) /\ Cardinality(DOMAIN k) = Cardinality(DOMAIN full) - 1
      <3> HIDE DEF full
      <3> QED BY <1>1, <2>1, <2>2, FS_RemoveElement
    <2>4. CacheSize \in Nat
      BY ContextStoreSizes
    <2>5. Cardinality(DOMAIN k) <= CacheSize
      <3> HIDE DEF full, n
      <3> QED BY <1>1, <2>3, <2>4 DEF n
    <2> QED BY <2>2, <2>3, <2>5
  <1> QED BY <1>2, <1>3 DEF SetContext

\* A call that has no object finds a free one: there are as many objects as
\* callers and places in the cache.
LEMMA FreshExists ==
  ASSUME StoreInv, NEW p \in Callers, calls[p].stage = "read"
  PROVE  /\ Fresh \in Objects
         /\ Fresh \notin Range(cache)
         /\ \A q \in Callers : calls[q] = NoCall \/ calls[q].obj # Fresh
  <1> DEFINE others == {q \in Callers \ {p} : calls[q] # NoCall}
             held == {calls[q].obj : q \in others}
             cached == Range(cache)
             N == Cardinality(Callers)
  <1>0. TypeOK /\ IsFiniteSet(DOMAIN cache) /\ Cardinality(DOMAIN cache) <= CacheSize
        /\ CacheSize \in Nat /\ IsFiniteSet(Callers)
    BY ContextStoreSizes DEF StoreInv, TypeOK
  <1>1. calls[p] # NoCall /\ calls[p].obj = NoObject
    BY DEF StoreInv, CallInv, NoCall
  <1>2. IsFiniteSet(cached) /\ Cardinality(cached) <= CacheSize /\ Cardinality(cached) \in Nat
    <2> DEFINE f == [c \in DOMAIN cache |-> cache[c]]
    <2>1. f \in Surjection(DOMAIN cache, cached)
      BY DEF Surjection, Range
    <2>2. IsFiniteSet(cached) /\ Cardinality(cached) <= Cardinality(DOMAIN cache)
      BY <1>0, <2>1, FS_Surjection
    <2>3. Cardinality(cached) \in Nat /\ Cardinality(DOMAIN cache) \in Nat
      BY <1>0, <2>2, FS_CardinalityType
    <2> HIDE DEF cached
    <2> QED BY <1>0, <2>2, <2>3
  <1>3. N \in Nat /\ IsFiniteSet(others) /\ Cardinality(others) <= N - 1
        /\ Cardinality(others) \in Nat
    <2>1. N \in Nat
      BY <1>0, FS_CardinalityType
    <2>2. IsFiniteSet(Callers \ {p}) /\ Cardinality(Callers \ {p}) = N - 1
      BY <1>0, FS_RemoveElement
    <2>3. others \in SUBSET (Callers \ {p})
      OBVIOUS
    <2> HIDE DEF others
    <2>4. IsFiniteSet(others) /\ Cardinality(others) <= Cardinality(Callers \ {p})
      BY <2>2, <2>3, FS_Subset
    <2>5. Cardinality(others) \in Nat
      BY <2>4, FS_CardinalityType
    <2> QED BY <2>1, <2>2, <2>4, <2>5
  <1>4. IsFiniteSet(held) /\ Cardinality(held) <= N - 1 /\ Cardinality(held) \in Nat
    <2> DEFINE f == [q \in others |-> calls[q].obj]
    <2> HIDE DEF others
    <2>1. f \in Surjection(others, held)
      BY DEF Surjection
    <2>2. IsFiniteSet(held) /\ Cardinality(held) <= Cardinality(others)
      BY <1>3, <2>1, FS_Surjection
    <2>3. Cardinality(held) \in Nat
      BY <2>2, FS_CardinalityType
    <2> HIDE DEF held
    <2> QED BY <1>3, <2>2, <2>3
  <1> HIDE DEF others, held, cached
  <1>5. IsFiniteSet(cached \cup held) /\ Cardinality(cached \cup held) < N + CacheSize
        /\ Cardinality(cached \cup held) \in Nat
    <2>1. IsFiniteSet(cached \cup held)
          /\ Cardinality(cached \cup held)
             = Cardinality(cached) + Cardinality(held) - Cardinality(cached \cap held)
      BY <1>2, <1>4, FS_Union
    <2>2. IsFiniteSet(cached \cap held)
      BY <1>2, FS_Subset
    <2>3. Cardinality(cached \cap held) \in Nat /\ Cardinality(cached \cup held) \in Nat
      BY <2>1, <2>2, FS_CardinalityType
    <2> QED BY <1>0, <1>2, <1>3, <1>4, <2>1, <2>3
  <1>6. Cardinality(Objects) = N + CacheSize /\ IsFiniteSet(Objects)
    <2> DEFINE b == N + CacheSize
    <2>1. b \in Nat
      BY <1>0, <1>3
    <2>2. Objects = 1..b
      BY DEF Objects
    <2> HIDE DEF b
    <2>3. IsFiniteSet(1..b) /\ Cardinality(1..b) = b
      BY <2>1, FS_Interval
    <2> QED BY <2>2, <2>3 DEF b
  <1>7. \E o \in Objects : o \notin cached \cup held
    <2> SUFFICES ASSUME Objects \subseteq cached \cup held
                 PROVE  FALSE
      OBVIOUS
    <2>1. Cardinality(Objects) <= Cardinality(cached \cup held)
      BY <1>5, FS_Subset
    <2> QED BY <1>0, <1>3, <1>5, <1>6, <2>1
  <1>8. PICK o \in Objects : o \notin cached \cup held
    BY <1>7
  <1>9. /\ o \notin Range(cache)
        /\ \A q \in Callers : calls[q] = NoCall \/ calls[q].obj # o
    BY <1>1, <1>8, AbsentValues DEF cached, held, others
  <1> QED BY <1>8, <1>9 DEF Fresh

----------------------------------------------------------------------------
\* Types, objects and records

\* The fields of a call in progress.
LEMMA CallFields ==
  ASSUME StoreInv, NEW p \in Callers, calls[p] # NoCall
  PROVE  /\ calls[p] \in Call /\ CallInv(calls[p], heap)
         /\ calls[p].ctx \in Contexts /\ calls[p].req \in Requests \cup {NoRequest}
         /\ calls[p].data \in Record \cup {NoRecord}
         /\ calls[p].obj \in Objects \cup {NoObject}
  <1>1. calls[p] \in Call /\ CallInv(calls[p], heap)
    BY DEF StoreInv, TypeOK
  <1> QED BY <1>1 DEF Call

\* One object gets another record, and one call another state.
LEMMA StoreStep ==
  ASSUME StoreInv, NEW p \in Callers, NEW y,
         calls' = [calls EXCEPT ![p] = y],
         \A o \in Objects : heap[o] \in Record => heap'[o] \in Record,
         heap' \in [Objects -> Record \cup {NoRecord}],
         y = NoCall \/ (y \in Call /\ CallInv(y, heap')),
         UNCHANGED <<db, cache, intended>>,
         begun' \in 0..MaxCalls, disturbed' \subseteq Contexts
  PROVE  StoreInv'
  <1>1. TypeOK
    BY DEF StoreInv
  <1>2. /\ calls' \in [Callers -> Call \cup {NoCall}]
        /\ calls'[p] = y /\ \A q \in Callers \ {p} : calls'[q] = calls[q]
    BY <1>1 DEF TypeOK
  <1>3. TypeOK'
    BY <1>1, <1>2 DEF TypeOK
  <1>4. \A c \in DOMAIN cache' : heap'[cache'[c]] \in Record
    BY <1>1 DEF StoreInv, TypeOK
  <1>5. ASSUME NEW q \in Callers, calls'[q] # NoCall
        PROVE  CallInv(calls'[q], heap')
    <2>1. CASE q = p
      BY <1>2, <1>5, <2>1 DEF CallInv
    <2>2. CASE q # p
      <3>1. calls'[q] = calls[q] /\ CallInv(calls[q], heap)
        BY <1>2, <1>5, <2>2 DEF StoreInv
      <3> QED BY <3>1 DEF CallInv
    <2> QED BY <2>1, <2>2
  <1> QED BY <1>3, <1>4, <1>5 DEF StoreInv

\* An empty store.
LEMMA InitStoreInv == Init => StoreInv
  <1> SUFFICES ASSUME Init PROVE StoreInv
    OBVIOUS
  <1>1. DOMAIN cache = {} /\ IsFiniteSet({}) /\ Cardinality({}) = 0
    BY FS_EmptySet DEF Init
  <1>2. TypeOK
    BY <1>1, ContextStoreSizes DEF Init, TypeOK
  <1> QED BY <1>1, <1>2 DEF Init, StoreInv, NoRecord

\* A call begins.
LEMMA BeginStoreInv ==
  ASSUME StoreInv, NEW p \in Callers, NEW c \in Contexts,
         NEW req \in Requests \cup {NoRequest}, Begin(p, c, req)
  PROVE  StoreInv'
  <1> DEFINE y == [stage |-> "lookup", ctx |-> c, req |-> req, obj |-> NoObject,
                   data |-> NoRecord]
  <1>1. y \in Call /\ y.stage = "lookup" /\ y.obj = NoObject
    BY DEF Call
  <1>2. calls' = [calls EXCEPT ![p] = y] /\ heap' = heap
        /\ UNCHANGED <<db, cache, intended>>
    BY DEF Begin
  <1> HIDE DEF y
  <1>3. CallInv(y, heap')
    BY <1>1 DEF CallInv, Holding, Changed
  <1>4. begun' \in 0..MaxCalls /\ disturbed' \subseteq Contexts
    BY ContextStoreSizes DEF Begin, StoreInv, TypeOK
  <1>5. heap \in [Objects -> Record \cup {NoRecord}]
    BY DEF StoreInv, TypeOK
  <1> QED BY <1>1, <1>2, <1>3, <1>4, <1>5, StoreStep

\* A call looks in the cache.
LEMMA LookupStoreInv ==
  ASSUME StoreInv, NEW p \in Callers, Lookup(p)
  PROVE  StoreInv'
  <1> DEFINE x == calls[p]
             y == IF x.ctx \in DOMAIN cache
                  THEN [x EXCEPT !.stage = "have", !.obj = cache[x.ctx]]
                  ELSE [x EXCEPT !.stage = "read"]
  <1>0. TypeOK /\ x.stage = "lookup" /\ x # NoCall
    BY DEF StoreInv, Lookup, NoCall
  <1>1. x \in Call /\ x.obj = NoObject
    BY <1>0, CallFields DEF CallInv
  <1>2. x.ctx \in DOMAIN cache => cache[x.ctx] \in Objects /\ heap[cache[x.ctx]] \in Record
    BY DEF StoreInv, TypeOK
  <1>3. y \in Call /\ CallInv(y, heap)
    <2>1. CASE x.ctx \in DOMAIN cache
      <3>1. y = [x EXCEPT !.stage = "have", !.obj = cache[x.ctx]]
        BY <2>1
      <3> HIDE DEF y
      <3>2. y \in Call /\ y.stage = "have" /\ y.obj = cache[x.ctx]
        BY <1>1, <1>2, <2>1, <3>1 DEF Call
      <3> QED BY <1>2, <2>1, <3>2 DEF CallInv, Holding, Changed
    <2>2. CASE x.ctx \notin DOMAIN cache
      <3>1. y = [x EXCEPT !.stage = "read"]
        BY <2>2
      <3> HIDE DEF y
      <3>2. y \in Call /\ y.stage = "read" /\ y.obj = NoObject
        BY <1>1, <3>1 DEF Call
      <3> QED BY <3>2 DEF CallInv, Holding, Changed
    <2> QED BY <2>1, <2>2
  <1>4. calls' = [calls EXCEPT ![p] = y] /\ heap' = heap
        /\ UNCHANGED <<db, cache, intended, begun, disturbed>>
    BY DEF Lookup
  <1> HIDE DEF y
  <1> QED BY <1>0, <1>3, <1>4, StoreStep DEF TypeOK

\* A call makes an object.
LEMMA ReadStoreInv ==
  ASSUME StoreInv, NEW p \in Callers, ReadFound(p) \/ ReadNothing(p)
  PROVE  StoreInv'
  <1> DEFINE x == calls[p]
  <1>0. TypeOK /\ x.stage = "read" /\ x # NoCall
    BY DEF StoreInv, ReadFound, ReadNothing, NoCall
  <1>1. x \in Call /\ x.ctx \in Contexts /\ x.req \in Requests \cup {NoRequest}
    BY <1>0, CallFields
  <1>2. Fresh \in Objects
    BY <1>0, FreshExists
  <1>3. UNCHANGED <<db, cache, intended, begun, disturbed>>
    BY DEF ReadFound, ReadNothing
  <1>4. CASE ReadFound(p)
    <2> DEFINE y == [x EXCEPT !.stage = "fill", !.obj = Fresh]
    <2>1. y \in Call /\ y.stage = "fill" /\ y.obj = Fresh
      BY <1>1, <1>2 DEF Call
    <2>2. db[x.ctx] \in Record
      BY <1>0, <1>1, <1>4 DEF TypeOK, ReadFound
    <2>3. /\ heap' \in [Objects -> Record \cup {NoRecord}] /\ heap'[Fresh] \in Record
          /\ \A o \in Objects : heap[o] \in Record => heap'[o] \in Record
      BY <1>0, <1>2, <1>4, <2>2 DEF TypeOK, ReadFound
    <2>4. calls' = [calls EXCEPT ![p] = y]
      BY <1>4 DEF ReadFound
    <2> HIDE DEF y
    <2>5. CallInv(y, heap')
      BY <1>2, <2>1, <2>3 DEF CallInv, Holding, Changed
    <2> QED BY <1>0, <1>3, <2>1, <2>3, <2>4, <2>5, StoreStep DEF TypeOK
  <1>5. CASE ReadNothing(p) /\ ~IsUpdate(x)
    <2>1. calls' = [calls EXCEPT ![p] = NoCall] /\ heap' = heap
      BY <1>5 DEF ReadNothing
    <2> QED BY <1>0, <1>3, <2>1, StoreStep DEF TypeOK
  <1>6. CASE ReadNothing(p) /\ IsUpdate(x)
    <2> DEFINE y == [x EXCEPT !.stage = "marshal", !.obj = Fresh]
    <2>1. y \in Call /\ y.stage = "marshal" /\ y.obj = Fresh /\ y.req = x.req
      BY <1>1, <1>2 DEF Call
    <2>2. x.req \in Requests
      BY <1>1, <1>6 DEF IsUpdate
    <2>3. Created(x.req) \in Record
      BY <2>2, RequestFields DEF Created, Record
    <2>4. /\ calls' = [calls EXCEPT ![p] = y]
          /\ heap' = [heap EXCEPT ![Fresh] = Created(x.req)]
      BY <1>6 DEF ReadNothing
    <2>5. /\ heap' \in [Objects -> Record \cup {NoRecord}] /\ heap'[Fresh] \in Record
          /\ \A o \in Objects : heap[o] \in Record => heap'[o] \in Record
      BY <1>0, <1>2, <2>3, <2>4 DEF TypeOK
    <2> HIDE DEF y
    <2>6. CallInv(y, heap')
      BY <1>2, <2>1, <2>2, <2>5 DEF CallInv, Holding, Changed
    <2> QED BY <1>0, <1>3, <2>1, <2>4, <2>5, <2>6, StoreStep DEF TypeOK
  <1> QED BY <1>4, <1>5, <1>6 DEF ReadNothing

\* The cache after SetContext.
LEMMA CachedStoreInv ==
  ASSUME StoreInv, NEW p \in Callers, calls[p] # NoCall, calls[p].stage \in Holding,
         cache' \in SetContext(calls[p].ctx, calls[p].obj), heap' = heap,
         NEW y, calls' = [calls EXCEPT ![p] = y],
         y = NoCall \/ (y \in Call /\ CallInv(y, heap)),
         UNCHANGED <<db, begun, disturbed>>,
         intended' \in [Contexts -> Record \cup {NoRecord}]
  PROVE  StoreInv'
  <1> DEFINE x == calls[p]
  <1>0. TypeOK /\ IsFiniteSet(DOMAIN cache)
    BY DEF StoreInv
  <1>1. x.ctx \in Contexts /\ x.obj \in Objects /\ heap[x.obj] \in Record
    BY CallFields DEF CallInv
  <1>2. /\ DOMAIN cache' \subseteq DOMAIN cache \cup {x.ctx}
        /\ IsFiniteSet(DOMAIN cache')
        /\ Cardinality(DOMAIN cache') <= CacheSize
        /\ \A d \in DOMAIN cache' : cache'[d] = IF d = x.ctx THEN x.obj ELSE cache[d]
    BY <1>0, <1>1, SetContextCache DEF TypeOK
  <1>3. \A d \in DOMAIN cache' : cache'[d] \in Objects /\ heap[cache'[d]] \in Record
    BY <1>0, <1>1, <1>2 DEF TypeOK, StoreInv
  <1>4. /\ calls' \in [Callers -> Call \cup {NoCall}]
        /\ calls'[p] = y /\ \A q \in Callers \ {p} : calls'[q] = calls[q]
    BY <1>0 DEF TypeOK
  <1>5. TypeOK'
    BY <1>0, <1>1, <1>2, <1>3, <1>4 DEF TypeOK
  <1>6. \A q \in Callers : calls'[q] # NoCall => CallInv(calls'[q], heap')
    BY <1>4 DEF StoreInv
  <1> QED BY <1>2, <1>3, <1>5, <1>6 DEF StoreInv

\* An object is entered in the cache.
LEMMA FillStoreInv ==
  ASSUME StoreInv, NEW p \in Callers, Fill(p) \/ UpdateReturns(p)
  PROVE  StoreInv'
  <1> DEFINE x == calls[p]
  <1>0. TypeOK /\ x.stage \in {"fill", "store"} /\ x # NoCall /\ x.stage \in Holding
    BY DEF StoreInv, Fill, UpdateReturns, NoCall, Holding
  <1>1. x \in Call /\ CallInv(x, heap) /\ x.ctx \in Contexts
    BY <1>0, CallFields
  <1>2. CASE Fill(p)
    <2> DEFINE y == [x EXCEPT !.stage = "have"]
    <2>1. y \in Call /\ y.stage = "have" /\ y.obj = x.obj
      BY <1>1 DEF Call
    <2>2. calls' = [calls EXCEPT ![p] = y] /\ cache' \in SetContext(x.ctx, x.obj)
          /\ UNCHANGED <<db, heap, begun, intended, disturbed>>
      BY <1>2 DEF Fill
    <2> HIDE DEF y
    <2>3. CallInv(y, heap)
      BY <1>0, <1>1, <2>1 DEF CallInv, Holding, Changed
    <2> QED BY <1>0, <2>1, <2>2, <2>3, CachedStoreInv DEF TypeOK
  <1>3. CASE UpdateReturns(p)
    <2>1. /\ calls' = [calls EXCEPT ![p] = NoCall] /\ cache' \in SetContext(x.ctx, x.obj)
          /\ intended' = [intended EXCEPT ![x.ctx] = Intended(@, x.req)]
          /\ UNCHANGED <<db, heap, begun, disturbed>>
      BY <1>3 DEF UpdateReturns
    <2>2. x.req \in Requests
      BY <1>1, <1>3 DEF CallInv, Changed, UpdateReturns
    <2>3. intended[x.ctx] \in Record \cup {NoRecord}
      BY <1>0, <1>1 DEF TypeOK
    <2>4. Intended(intended[x.ctx], x.req) \in Record
      BY <2>2, <2>3, IntendedRecord
    <2>5. intended' \in [Contexts -> Record \cup {NoRecord}]
      BY <1>0, <1>1, <2>1, <2>4 DEF TypeOK
    <2> QED BY <1>0, <2>1, <2>5, CachedStoreInv
  <1> QED BY <1>2, <1>3

\* A read returns, a transaction fails.
LEMMA EndStoreInv ==
  ASSUME StoreInv, NEW p \in Callers, GetReturns(p) \/ CommitFails(p)
  PROVE  StoreInv'
  <1>0. TypeOK /\ calls[p] # NoCall
    BY DEF StoreInv, GetReturns, CommitFails, NoCall
  <1>1. calls[p].ctx \in Contexts
    BY <1>0, CallFields
  <1>2. /\ calls' = [calls EXCEPT ![p] = NoCall] /\ heap' = heap
        /\ UNCHANGED <<db, cache, intended, begun>>
    BY DEF GetReturns, CommitFails
  <1>3. disturbed' \subseteq Contexts
    BY <1>0, <1>1 DEF GetReturns, CommitFails, TypeOK
  <1> QED BY <1>0, <1>2, <1>3, StoreStep DEF TypeOK

\* An update changes its object, completely or not.
LEMMA ChangeStoreInv ==
  ASSUME StoreInv, NEW p \in Callers, Change(p) \/ ChangePanics(p)
  PROVE  /\ StoreInv'
         /\ calls[p].obj \in Objects /\ heap[calls[p].obj] \in Record
         /\ calls[p].req \in Requests
         /\ Updated(heap[calls[p].obj], calls[p].req) \in Record
         /\ heap'[calls[p].obj] \in Record
         /\ heap'[calls[p].obj].members
               = Updated(heap[calls[p].obj], calls[p].req).members
         /\ \A o \in Objects \ {calls[p].obj} : heap'[o] = heap[o]
         /\ Change(p) => heap'[calls[p].obj] = Updated(heap[calls[p].obj], calls[p].req)
  <1> DEFINE x == calls[p]
             v == heap[x.obj]
             u == Updated(v, x.req)
  <1>0. TypeOK /\ x.stage = "have" /\ x # NoCall /\ IsUpdate(x)
    BY DEF StoreInv, Change, ChangePanics, NoCall
  <1>1. x \in Call /\ CallInv(x, heap) /\ x.ctx \in Contexts
        /\ x.req \in Requests \cup {NoRequest}
    BY <1>0, CallFields
  <1>2. x.obj \in Objects /\ v \in Record /\ x.req \in Requests
    BY <1>0, <1>1 DEF CallInv, IsUpdate, Holding
  <1>3. u \in Record
    BY <1>2, ChangedRecord
  <1>4. /\ heap' \in [Objects -> Record \cup {NoRecord}]
        /\ heap'[x.obj] \in Record /\ heap'[x.obj].members = u.members
        /\ \A o \in Objects \ {x.obj} : heap'[o] = heap[o]
        /\ Change(p) => heap'[x.obj] = u
    <2>1. CASE Change(p)
      BY <1>0, <1>2, <1>3, <2>1 DEF TypeOK, Change
    <2>2. CASE ChangePanics(p)
      <3> DEFINE w == [v EXCEPT !.members = u.members]
      <3>1. heap' = [heap EXCEPT ![x.obj] = w] /\ ~Change(p)
        BY <1>0, <2>2 DEF TypeOK, Change, ChangePanics
      <3>2. w \in Record /\ w.members = u.members
        BY <1>2, <1>3 DEF Record
      <3> HIDE DEF w, u
      <3> QED BY <1>0, <1>2, <3>1, <3>2 DEF TypeOK
    <2> QED BY <2>1, <2>2
  <1>5. \A o \in Objects : heap[o] \in Record => heap'[o] \in Record
    BY <1>2, <1>4
  <1>6. UNCHANGED <<db, cache, intended, begun>> /\ disturbed' \subseteq Contexts
    BY <1>0, <1>1 DEF Change, ChangePanics, TypeOK
  <1>7. StoreInv'
    <2>1. CASE Change(p)
      <3> DEFINE y == [x EXCEPT !.stage = "marshal"]
      <3>1. y \in Call /\ y.stage = "marshal" /\ y.obj = x.obj /\ y.req = x.req
        BY <1>1 DEF Call
      <3>2. calls' = [calls EXCEPT ![p] = y]
        BY <2>1 DEF Change
      <3> HIDE DEF y
      <3>3. CallInv(y, heap')
        BY <1>2, <1>4, <3>1 DEF CallInv, Holding, Changed
      <3> QED BY <1>0, <1>4, <1>5, <1>6, <3>1, <3>2, <3>3, StoreStep DEF TypeOK
    <2>2. CASE ChangePanics(p)
      <3>1. calls' = [calls EXCEPT ![p] = NoCall]
        BY <2>2 DEF ChangePanics
      <3> QED BY <1>0, <1>4, <1>5, <1>6, <3>1, StoreStep DEF TypeOK
    <2> QED BY <2>1, <2>2
  <1> QED BY <1>2, <1>3, <1>4, <1>7

\* The object is serialised.
LEMMA MarshalStoreInv ==
  ASSUME StoreInv, NEW p \in Callers, Marshal(p)
  PROVE  StoreInv'
  <1> DEFINE x == calls[p]
             d == Marshalled(heap[x.obj])
             y == [x EXCEPT !.stage = "commit", !.data = d]
  <1>0. TypeOK /\ x.stage = "marshal" /\ x # NoCall
    BY DEF StoreInv, Marshal, NoCall
  <1>1. x \in Call /\ CallInv(x, heap)
    BY <1>0, CallFields
  <1>2. x.obj \in Objects /\ heap[x.obj] \in Record /\ x.req \in Requests
    BY <1>0, <1>1 DEF CallInv, Holding, Changed
  <1>3. d \in Record /\ d.meta # "empty"
    BY <1>2, MarshalledRecord
  <1>4. calls' = [calls EXCEPT ![p] = y] /\ heap' = heap
        /\ UNCHANGED <<db, cache, intended, begun, disturbed>>
    BY DEF Marshal
  <1> HIDE DEF d
  <1>5. y \in Call /\ y.stage = "commit" /\ y.obj = x.obj /\ y.data = d /\ y.req = x.req
    BY <1>1, <1>3 DEF Call
  <1> HIDE DEF y
  <1>6. CallInv(y, heap)
    BY <1>2, <1>3, <1>5 DEF CallInv, Holding, Changed
  <1> QED BY <1>0, <1>4, <1>5, <1>6, StoreStep DEF TypeOK

\* The transaction commits.
LEMMA CommitStoreInv ==
  ASSUME StoreInv, NEW p \in Callers, Commit(p)
  PROVE  StoreInv'
  <1> DEFINE x == calls[p]
             y == [x EXCEPT !.stage = "store"]
  <1>0. TypeOK /\ x.stage = "commit" /\ x # NoCall
    BY DEF StoreInv, Commit, NoCall
  <1>1. x \in Call /\ CallInv(x, heap) /\ x.ctx \in Contexts
    BY <1>0, CallFields
  <1>2. x.data \in Record /\ x.data.meta # "empty"
    BY <1>0, <1>1 DEF CallInv
  <1>3. y \in Call /\ y.stage = "store" /\ y.obj = x.obj /\ y.data = x.data
        /\ y.req = x.req
    BY <1>1 DEF Call
  <1>4. calls' = [calls EXCEPT ![p] = y] /\ db' = [db EXCEPT ![x.ctx] = x.data]
        /\ UNCHANGED <<cache, heap, begun, intended, disturbed>>
    BY DEF Commit
  <1> HIDE DEF y
  <1>5. CallInv(y, heap)
    BY <1>0, <1>1, <1>3 DEF CallInv, Holding, Changed
  <1>6. /\ calls' \in [Callers -> Call \cup {NoCall}]
        /\ calls'[p] = y /\ \A q \in Callers \ {p} : calls'[q] = calls[q]
    BY <1>0, <1>3, <1>4 DEF TypeOK
  <1>7. /\ db' \in [Contexts -> Record \cup {NoRecord}]
        /\ \A c \in Contexts : db'[c].meta # "empty"
    BY <1>0, <1>1, <1>2, <1>4 DEF TypeOK, StoreInv
  <1>8. TypeOK'
    BY <1>0, <1>4, <1>6, <1>7 DEF TypeOK
  <1>9. \A q \in Callers : calls'[q] # NoCall => CallInv(calls'[q], heap')
    BY <1>4, <1>5, <1>6 DEF StoreInv
  <1> QED BY <1>4, <1>7, <1>8, <1>9 DEF StoreInv

\* The invariant about types, objects and records is inductive.
LEMMA NextStoreInv == StoreInv /\ [Next]_vars => StoreInv'
  <1> SUFFICES ASSUME StoreInv, [Next]_vars PROVE StoreInv'
    OBVIOUS
  <1>1. CASE UNCHANGED vars
    BY <1>1 DEF StoreInv, TypeOK, CallInv, vars
  <1>2. ASSUME NEW p \in Callers, NEW c \in Contexts,
               NEW req \in Requests \cup {NoRequest}, Begin(p, c, req)
        PROVE  StoreInv'
    BY <1>2, BeginStoreInv
  <1>3. ASSUME NEW p \in Callers,
               \/ Lookup(p) \/ ReadFound(p) \/ ReadNothing(p) \/ Fill(p)
               \/ GetReturns(p) \/ Change(p) \/ ChangePanics(p) \/ Marshal(p)
               \/ Commit(p) \/ CommitFails(p) \/ UpdateReturns(p)
        PROVE  StoreInv'
    BY <1>3, LookupStoreInv, ReadStoreInv, FillStoreInv, EndStoreInv, ChangeStoreInv,
       MarshalStoreInv, CommitStoreInv
  <1> QED BY <1>1, <1>2, <1>3 DEF Next

\* The invariant about types, objects and records holds.
LEMMA AlwaysStoreInv == Spec => []StoreInv
  BY InitStoreInv, NextStoreInv, PTL DEF Spec

\* The state of the context store stays well formed; in particular the cache
\* keeps its limit and what reaches Badger is a proper record.
THEOREM ContextTypeCorrect == Spec => []TypeOK
  BY AlwaysStoreInv, PTL DEF StoreInv

----------------------------------------------------------------------------
\* An update commits its own change

\* What no request removes.
Lasting == {m \in Members : \A req \in Requests : m \notin req.remove}

\* A step of one call that takes nothing lasting out of the others' objects.
LEMMA ChangeStep ==
  ASSUME StoreInv, ChangeInv, NEW p \in Callers, NEW y,
         calls' = [calls EXCEPT ![p] = y],
         \A q \in Callers \ {p} : calls[q].stage = "marshal" =>
             \A m \in Lasting : m \in heap[calls[q].obj].members =>
                                    m \in heap'[calls[q].obj].members,
         y.stage = "marshal" => Kept(y) \subseteq heap'[y.obj].members,
         y.stage \in {"commit", "store"} => Kept(y) \subseteq y.data.members
  PROVE  ChangeInv'
  <1>1. calls'[p] = y /\ \A q \in Callers \ {p} : calls'[q] = calls[q]
    BY DEF StoreInv, TypeOK
  <1>2. ASSUME NEW q \in Callers
        PROVE  /\ calls'[q].stage = "marshal" =>
                      Kept(calls'[q]) \subseteq heap'[calls'[q].obj].members
               /\ calls'[q].stage \in {"commit", "store"} =>
                      Kept(calls'[q]) \subseteq calls'[q].data.members
    <2>1. CASE q = p
      BY <1>1, <2>1
    <2>2. CASE q # p
      <3>1. calls'[q] = calls[q]
        BY <1>1, <2>2
      <3>2. /\ calls[q].stage = "marshal" =>
                   Kept(calls[q]) \subseteq heap[calls[q].obj].members
            /\ calls[q].stage \in {"commit", "store"} =>
                   Kept(calls[q]) \subseteq calls[q].data.members
        BY DEF ChangeInv
      <3>3. calls[q].stage = "marshal" => Kept(calls[q]) \subseteq Lasting
        <4>1. calls[q].stage = "marshal" => calls[q].req \in Requests
          BY DEF StoreInv, CallInv, Changed, NoCall
        <4> QED BY <4>1, RequestFields DEF Kept, Lasting
      <3> QED BY <2>2, <3>1, <3>2, <3>3
    <2> QED BY <2>1, <2>2
  <1> QED BY <1>2 DEF ChangeInv

\* Nobody has made a change.
LEMMA InitChangeInv == Init => ChangeInv
  BY DEF Init, ChangeInv, NoCall

\* Every step keeps lasting changes.
LEMMA NextChangeInv == StoreInv /\ ChangeInv /\ [Next]_vars => ChangeInv'
  <1> SUFFICES ASSUME StoreInv, ChangeInv, [Next]_vars PROVE ChangeInv'
    OBVIOUS
  <1>1. CASE UNCHANGED vars
    BY <1>1 DEF ChangeInv, vars
  <1>2. ASSUME NEW p \in Callers, NEW y, calls' = [calls EXCEPT ![p] = y], heap' = heap,
               y.stage \notin {"marshal", "commit", "store"}
        PROVE  ChangeInv'
    BY <1>2, ChangeStep
  <1>3. ASSUME NEW p \in Callers, NEW c \in Contexts,
               NEW req \in Requests \cup {NoRequest}, Begin(p, c, req)
        PROVE  ChangeInv'
    BY <1>2, <1>3 DEF Begin
  <1>4. ASSUME NEW p \in Callers, Lookup(p)
        PROVE  ChangeInv'
    <2> DEFINE x == calls[p]
               y == IF x.ctx \in DOMAIN cache
                    THEN [x EXCEPT !.stage = "have", !.obj = cache[x.ctx]]
                    ELSE [x EXCEPT !.stage = "read"]
    <2>1. x \in Call
      BY <1>4, CallFields DEF Lookup, NoCall
    <2>2. y.stage \in {"have", "read"}
      BY <2>1 DEF Call
    <2>3. calls' = [calls EXCEPT ![p] = y] /\ heap' = heap
      BY <1>4 DEF Lookup
    <2> HIDE DEF y
    <2> QED BY <1>2, <2>2, <2>3
  <1>5. ASSUME NEW p \in Callers, GetReturns(p) \/ CommitFails(p) \/ UpdateReturns(p)
        PROVE  ChangeInv'
    BY <1>2, <1>5 DEF GetReturns, CommitFails, UpdateReturns, NoCall
  <1>6. ASSUME NEW p \in Callers, Fill(p)
        PROVE  ChangeInv'
    <2> DEFINE y == [calls[p] EXCEPT !.stage = "have"]
    <2>1. calls[p] \in Call
      BY <1>6, CallFields DEF Fill, NoCall
    <2>2. y.stage = "have"
      BY <2>1 DEF Call
    <2>3. calls' = [calls EXCEPT ![p] = y] /\ heap' = heap
      BY <1>6 DEF Fill
    <2> HIDE DEF y
    <2> QED BY <1>2, <2>2, <2>3
  \* A new object is nobody else's.
  <1>7. ASSUME NEW p \in Callers, NEW v, calls[p].stage = "read",
               heap' = [heap EXCEPT ![Fresh] = v]
        PROVE  \A q \in Callers : calls[q].stage = "marshal" =>
                   heap'[calls[q].obj] = heap[calls[q].obj]
    <2>1. \A q \in Callers : calls[q] = NoCall \/ calls[q].obj # Fresh
      BY <1>7, FreshExists
    <2>2. \A q \in Callers : calls[q].stage = "marshal" => calls[q].obj \in Objects
      BY DEF StoreInv, CallInv, Holding, NoCall
    <2> QED BY <1>7, <2>1, <2>2 DEF StoreInv, TypeOK, NoCall
  <1>8. ASSUME NEW p \in Callers, ReadFound(p)
        PROVE  ChangeInv'
    <2> DEFINE y == [calls[p] EXCEPT !.stage = "fill", !.obj = Fresh]
    <2>1. calls[p] \in Call
      BY <1>8, CallFields DEF ReadFound, NoCall
    <2>2. y.stage = "fill"
      BY <2>1 DEF Call
    <2>3. calls' = [calls EXCEPT ![p] = y]
          /\ heap' = [heap EXCEPT ![Fresh] = db[calls[p].ctx]]
          /\ calls[p].stage = "read"
      BY <1>8 DEF ReadFound
    <2> HIDE DEF y
    <2> QED BY <1>7, <2>2, <2>3, ChangeStep
  <1>9. ASSUME NEW p \in Callers, ReadNothing(p)
        PROVE  ChangeInv'
    <2> DEFINE x == calls[p]
               y == [x EXCEPT !.stage = "marshal", !.obj = Fresh]
    <2>1. CASE ~IsUpdate(x)
      BY <1>2, <1>9, <2>1 DEF ReadNothing, NoCall
    <2>2. CASE IsUpdate(x)
      <3>1. x \in Call /\ x.req \in Requests /\ x.stage = "read" /\ Fresh \in Objects
        BY <1>9, <2>2, CallFields, FreshExists DEF ReadNothing, NoCall, IsUpdate
      <3>2. y.stage = "marshal" /\ y.obj = Fresh /\ y.req = x.req
        BY <3>1 DEF Call
      <3>3. calls' = [calls EXCEPT ![p] = y]
            /\ heap' = [heap EXCEPT ![Fresh] = Created(x.req)]
        BY <1>9, <2>2 DEF ReadNothing
      <3> HIDE DEF y
      <3>4. heap'[Fresh] = Created(x.req)
        BY <3>1, <3>3 DEF StoreInv, TypeOK
      <3>5. Kept(y) \subseteq heap'[y.obj].members
        BY <3>2, <3>4 DEF Kept, Created
      <3> QED BY <1>7, <3>1, <3>2, <3>3, <3>5, ChangeStep
    <2> QED BY <2>1, <2>2
  <1>10. ASSUME NEW p \in Callers, Change(p) \/ ChangePanics(p)
         PROVE  ChangeInv'
    <2> DEFINE x == calls[p]
               v == heap[x.obj]
    <2>0. x \in Call /\ IsUpdate(x)
      BY <1>10, CallFields DEF Change, ChangePanics, NoCall
    <2>1. /\ x.obj \in Objects /\ v \in Record /\ x.req \in Requests
          /\ heap'[x.obj].members = Updated(v, x.req).members
          /\ \A o \in Objects \ {x.obj} : heap'[o] = heap[o]
      BY <1>10, ChangeStoreInv
    <2>2. heap'[x.obj].members = (v.members \cup x.req.add) \ x.req.remove
      BY <2>1, ChangedRecord
    <2>3. \A o \in Objects : \A m \in Lasting :
              m \in heap[o].members => m \in heap'[o].members
      BY <2>1, <2>2 DEF Lasting
    <2>4. \A q \in Callers : calls[q].stage = "marshal" => calls[q].obj \in Objects
      BY DEF StoreInv, CallInv, Holding, NoCall
    <2>5. CASE ChangePanics(p)
      <3>1. calls' = [calls EXCEPT ![p] = NoCall]
        BY <2>5 DEF ChangePanics
      <3> QED BY <2>3, <2>4, <3>1, ChangeStep DEF NoCall
    <2>6. CASE Change(p)
      <3> DEFINE y == [x EXCEPT !.stage = "marshal"]
      <3>1. y.stage = "marshal" /\ y.obj = x.obj /\ y.req = x.req
        BY <2>0 DEF Call
      <3>2. calls' = [calls EXCEPT ![p] = y]
        BY <2>6 DEF Change
      <3> HIDE DEF y
      <3>3. Kept(y) \subseteq heap'[y.obj].members
        BY <2>1, <2>2, <3>1 DEF Kept
      <3> QED BY <2>3, <2>4, <3>1, <3>2, <3>3, ChangeStep
    <2> QED BY <1>10, <2>5, <2>6
  <1>11. ASSUME NEW p \in Callers, Marshal(p)
         PROVE  ChangeInv'
    <2> DEFINE x == calls[p]
               d == Marshalled(heap[x.obj])
               y == [x EXCEPT !.stage = "commit", !.data = d]
    <2>1. x \in Call /\ x.stage = "marshal" /\ heap[x.obj] \in Record
      BY <1>11, CallFields DEF Marshal, NoCall, CallInv, Holding
    <2>2. d.members = heap[x.obj].members
      BY <2>1, MarshalledRecord
    <2>3. calls' = [calls EXCEPT ![p] = y] /\ heap' = heap
      BY <1>11 DEF Marshal
    <2> HIDE DEF d
    <2>4. y.stage = "commit" /\ y.data = d /\ y.req = x.req
      BY <2>1 DEF Call
    <2> HIDE DEF y
    <2>5. Kept(y) \subseteq y.data.members
      BY <2>1, <2>2, <2>4 DEF ChangeInv, Kept
    <2> QED BY <2>3, <2>4, <2>5, ChangeStep
  <1>12. ASSUME NEW p \in Callers, Commit(p)
         PROVE  ChangeInv'
    <2> DEFINE x == calls[p]
               y == [x EXCEPT !.stage = "store"]
    <2>1. x \in Call /\ x.stage = "commit"
      BY <1>12, CallFields DEF Commit, NoCall
    <2>2. calls' = [calls EXCEPT ![p] = y] /\ heap' = heap
      BY <1>12 DEF Commit
    <2>3. y.stage = "store" /\ y.data = x.data /\ y.req = x.req
      BY <2>1 DEF Call
    <2> HIDE DEF y
    <2>4. Kept(y) \subseteq y.data.members
      BY <2>1, <2>3 DEF ChangeInv, Kept
    <2> QED BY <2>2, <2>3, <2>4, ChangeStep
  <1> QED BY <1>1, <1>3, <1>4, <1>5, <1>6, <1>8, <1>9, <1>10, <1>11, <1>12 DEF Next

\* A successful update has committed what it adds and no request removes, even
\* though other calls change the same object, without a lock, at any moment.
THEOREM OwnChangeIsCommitted == Spec => []OwnChangeWritten
  <1>1. StoreInv /\ ChangeInv => OwnChangeWritten
    BY DEF ChangeInv, OwnChangeWritten, Kept
  <1> QED BY <1>1, InitChangeInv, NextChangeInv, AlwaysStoreInv, PTL DEF Spec

----------------------------------------------------------------------------
\* A step leaves the other contexts alone

\* A step on behalf of context c: the records of other contexts stay, their cache
\* entries stay or are evicted, their objects and calls stay, and c comes to refer
\* only to what was its own or nobody's.
Local(c) ==
    /\ \A d \in Contexts \ {c} : db'[d] = db[d] /\ intended'[d] = intended[d]
    /\ \A d \in Contexts \ {c} :
           d \in DOMAIN cache' => d \in DOMAIN cache /\ cache'[d] = cache[d]
    /\ \A q \in Callers : calls'[q] # calls[q] =>
           /\ calls[q] = NoCall \/ calls[q].ctx = c
           /\ calls'[q] = NoCall \/ calls'[q].ctx = c
    /\ \A o \in Objects : \A d \in Contexts \ {c} :
           Refers(o, d, cache, calls) => heap'[o] = heap[o]
    /\ \A o \in Objects : Refers(o, c, cache', calls') =>
           \/ Refers(o, c, cache, calls)
           \/ \A d \in Contexts : ~Refers(o, d, cache, calls)
    /\ disturbed \subseteq disturbed'

\* A step on behalf of one context keeps objects apart.
LEMMA LocalOwner ==
  ASSUME OwnerInv, NEW c \in Contexts, Local(c)
  PROVE  OwnerInv'
  <1>1. ASSUME NEW o \in Objects, NEW d \in Contexts \ {c}, Refers(o, d, cache', calls')
        PROVE  Refers(o, d, cache, calls)
    <2>1. CASE d \in DOMAIN cache' /\ cache'[d] = o
      BY <2>1 DEF Local, Refers
    <2>2. ASSUME NEW p \in Callers, calls'[p].stage \in Holding, calls'[p].obj = o,
                 calls'[p].ctx = d
          PROVE  Refers(o, d, cache, calls)
      <3>1. calls'[p] = calls[p]
        BY <2>2 DEF Local, NoCall, Holding
      <3> QED BY <2>2, <3>1 DEF Refers
    <2> QED BY <1>1, <2>1, <2>2 DEF Refers
  <1>2. ASSUME NEW o \in Objects, Refers(o, c, cache', calls')
        PROVE  \/ Refers(o, c, cache, calls)
               \/ \A d \in Contexts : ~Refers(o, d, cache, calls)
    BY <1>2 DEF Local
  <1>3. ASSUME NEW o \in Objects, NEW a \in Contexts, NEW b \in Contexts,
               Refers(o, a, cache', calls'), Refers(o, b, cache', calls')
        PROVE  a = b
    <2>1. CASE a # c /\ b # c
      BY <1>1, <1>3, <2>1 DEF OwnerInv
    <2>2. CASE a = c /\ b # c
      BY <1>1, <1>2, <1>3, <2>2 DEF OwnerInv
    <2>3. CASE a # c /\ b = c
      BY <1>1, <1>2, <1>3, <2>3 DEF OwnerInv
    <2> QED BY <2>1, <2>2, <2>3
  <1> QED BY <1>3 DEF OwnerInv

\* A step on behalf of another context leaves a coherent context coherent.
LEMMA LocalCoheres ==
  ASSUME StoreInv, NEW c \in Contexts, Local(c), NEW d \in Contexts \ {c},
         Coheres(d, calls, db[d], intended[d], cache, heap)
  PROVE  Coheres(d, calls', db'[d], intended'[d], cache', heap')
  <1>1. db'[d] = db[d] /\ intended'[d] = intended[d]
    BY DEF Local
  <1>2. d \in DOMAIN cache' => d \in DOMAIN cache /\ cache'[d] = cache[d]
    BY DEF Local
  <1>3. On(d, calls') = On(d, calls) /\ \A p \in On(d, calls) : calls'[p] = calls[p]
    BY DEF Local, On
  <1>4. d \in DOMAIN cache => heap'[cache[d]] = heap[cache[d]]
    <2>1. d \in DOMAIN cache => cache[d] \in Objects /\ Refers(cache[d], d, cache, calls)
      BY DEF StoreInv, TypeOK, Refers
    <2> QED BY <2>1 DEF Local
  <1>5. ASSUME NEW p \in On(d, calls), calls[p].stage \in Holding
        PROVE  heap'[calls[p].obj] = heap[calls[p].obj]
    <2>1. p \in Callers /\ calls[p].ctx = d /\ calls[p] # NoCall
      BY DEF On
    <2>2. calls[p].obj \in Objects /\ Refers(calls[p].obj, d, cache, calls)
      BY <1>5, <2>1, CallFields DEF CallInv, Refers
    <2> QED BY <2>2 DEF Local
  <1>6. \A p, q \in On(d, calls) : p # q => ~IsUpdate(calls[p])
    BY DEF Coheres
  <1>7. (\A p \in On(d, calls) : calls[p].stage \notin Changed) =>
            Agrees(d, db'[d], intended'[d], cache', heap')
    BY <1>1, <1>2, <1>4 DEF Coheres, Agrees
  <1>8. ASSUME NEW p \in On(d, calls)
        PROVE  CallCoheres(calls[p], db'[d], intended'[d], cache', heap')
    <2>1. CallCoheres(calls[p], db[d], intended[d], cache, heap) /\ calls[p].ctx = d
      BY DEF Coheres, On
    <2>2. Changed \subseteq Holding /\ {"fill", "have"} \subseteq Holding
      BY DEF Changed, Holding
    <2> QED BY <1>1, <1>2, <1>5, <2>1, <2>2 DEF CallCoheres
  <1> QED BY <1>3, <1>6, <1>7, <1>8 DEF Coheres

\* A call begins.
LEMMA BeginLocal ==
  ASSUME StoreInv, NEW p \in Callers, NEW c \in Contexts,
         NEW req \in Requests \cup {NoRequest}, Begin(p, c, req)
  PROVE  Local(c)
  <1> DEFINE y == [stage |-> "lookup", ctx |-> c, req |-> req, obj |-> NoObject,
                   data |-> NoRecord]
  <1>1. calls[p] = NoCall /\ calls' = [calls EXCEPT ![p] = y]
        /\ UNCHANGED <<db, cache, heap, intended>>
    BY DEF Begin
  <1>2. y.ctx = c /\ y.stage \notin Holding
    BY DEF Holding
  <1> HIDE DEF y
  <1>3. calls'[p] = y /\ \A q \in Callers \ {p} : calls'[q] = calls[q]
    BY <1>1 DEF StoreInv, TypeOK
  <1>4. ASSUME NEW o \in Objects, Refers(o, c, cache', calls')
        PROVE  Refers(o, c, cache, calls)
    BY <1>1, <1>2, <1>3, <1>4 DEF Refers
  <1>5. disturbed \subseteq disturbed'
    BY DEF Begin
  <1>6. \A q \in Callers : calls'[q] # calls[q] =>
           /\ calls[q] = NoCall \/ calls[q].ctx = c
           /\ calls'[q] = NoCall \/ calls'[q].ctx = c
    BY <1>1, <1>2, <1>3
  <1> QED BY <1>1, <1>4, <1>5, <1>6 DEF Local

\* A call goes on without another object, and only its context is written to.
LEMMA SameObjectLocal ==
  ASSUME StoreInv, NEW p \in Callers, calls[p] # NoCall,
         NEW y, calls' = [calls EXCEPT ![p] = y],
         y = NoCall \/ (y.ctx = calls[p].ctx /\
             (y.stage \in Holding => Refers(y.obj, y.ctx, cache, calls))),
         \A d \in Contexts \ {calls[p].ctx} : db'[d] = db[d] /\ intended'[d] = intended[d],
         \A d \in DOMAIN cache' :
             \/ d = calls[p].ctx /\ Refers(cache'[d], d, cache, calls)
             \/ d \in DOMAIN cache /\ cache'[d] = cache[d],
         \A o \in Objects : \A d \in Contexts \ {calls[p].ctx} :
             Refers(o, d, cache, calls) => heap'[o] = heap[o],
         disturbed \subseteq disturbed'
  PROVE  Local(calls[p].ctx)
  <1> DEFINE c == calls[p].ctx
  <1>1. calls'[p] = y /\ \A q \in Callers \ {p} : calls'[q] = calls[q]
    BY DEF StoreInv, TypeOK
  <1>2. \A d \in Contexts \ {c} :
           d \in DOMAIN cache' => d \in DOMAIN cache /\ cache'[d] = cache[d]
    OBVIOUS
  <1>3. \A q \in Callers : calls'[q] # calls[q] =>
           /\ calls[q] = NoCall \/ calls[q].ctx = c
           /\ calls'[q] = NoCall \/ calls'[q].ctx = c
    BY <1>1
  <1>4. ASSUME NEW o \in Objects, Refers(o, c, cache', calls')
        PROVE  Refers(o, c, cache, calls)
    <2>1. CASE c \in DOMAIN cache' /\ cache'[c] = o
      BY <2>1 DEF Refers
    <2>2. ASSUME NEW q \in Callers, calls'[q].stage \in Holding, calls'[q].obj = o,
                 calls'[q].ctx = c
          PROVE  Refers(o, c, cache, calls)
      <3>1. CASE q = p
        <4>1. y # NoCall
          BY <1>1, <2>2, <3>1 DEF NoCall, Holding
        <4> QED BY <1>1, <2>2, <3>1, <4>1
      <3>2. CASE q # p
        BY <1>1, <2>2, <3>2 DEF Refers
      <3> QED BY <3>1, <3>2
    <2> QED BY <1>4, <2>1, <2>2 DEF Refers
  <1> QED BY <1>2, <1>3, <1>4 DEF Local

\* A call makes a new object.
LEMMA NewObjectLocal ==
  ASSUME StoreInv, NEW p \in Callers, calls[p].stage = "read",
         NEW y, calls' = [calls EXCEPT ![p] = y],
         y.ctx = calls[p].ctx, y.obj = Fresh,
         NEW v, heap' = [heap EXCEPT ![Fresh] = v],
         UNCHANGED <<db, cache, intended, disturbed>>
  PROVE  /\ Local(calls[p].ctx)
         /\ \A o \in Objects : \A d \in Contexts :
                Refers(o, d, cache, calls) => heap'[o] = heap[o]
         /\ Fresh \in Objects /\ heap'[Fresh] = v
  <1> DEFINE c == calls[p].ctx
  <1>1. calls'[p] = y /\ \A q \in Callers \ {p} : calls'[q] = calls[q]
    BY DEF StoreInv, TypeOK
  <1>2. /\ Fresh \in Objects /\ Fresh \notin Range(cache)
        /\ \A q \in Callers : calls[q] = NoCall \/ calls[q].obj # Fresh
    BY FreshExists
  <1>3. \A d \in Contexts : ~Refers(Fresh, d, cache, calls)
    BY <1>2 DEF Refers, Range, NoCall, Holding
  <1>4. \A o \in Objects : \A d \in Contexts :
            Refers(o, d, cache, calls) => heap'[o] = heap[o]
    <2>1. \A o \in Objects \ {Fresh} : heap'[o] = heap[o]
      BY DEF StoreInv, TypeOK
    <2> QED BY <1>3, <2>1
  <1>5. heap'[Fresh] = v
    BY <1>2 DEF StoreInv, TypeOK
  <1>6. ASSUME NEW o \in Objects, Refers(o, c, cache', calls')
        PROVE  \/ Refers(o, c, cache, calls)
               \/ \A d \in Contexts : ~Refers(o, d, cache, calls)
    <2>1. CASE c \in DOMAIN cache' /\ cache'[c] = o
      BY <2>1 DEF Refers
    <2>2. ASSUME NEW q \in Callers, calls'[q].stage \in Holding, calls'[q].obj = o,
                 calls'[q].ctx = c
          PROVE  Refers(o, c, cache, calls) \/ o = Fresh
      BY <1>1, <2>2 DEF Refers
    <2> QED BY <1>3, <1>6, <2>1, <2>2 DEF Refers
  <1>7. \A q \in Callers : calls'[q] # calls[q] =>
           /\ calls[q] = NoCall \/ calls[q].ctx = c
           /\ calls'[q] = NoCall \/ calls'[q].ctx = c
    BY <1>1
  <1> QED BY <1>2, <1>4, <1>5, <1>6, <1>7 DEF Local

\* Every step of a call is on behalf of its context.
LEMMA StepLocal ==
  ASSUME StoreInv, OwnerInv, NEW p \in Callers,
         \/ Lookup(p) \/ ReadFound(p) \/ ReadNothing(p) \/ Fill(p)
         \/ GetReturns(p) \/ Change(p) \/ ChangePanics(p) \/ Marshal(p)
         \/ Commit(p) \/ CommitFails(p) \/ UpdateReturns(p)
  PROVE  Local(calls[p].ctx)
  <1> DEFINE x == calls[p]
             c == x.ctx
  <1>0. x # NoCall
    BY DEF Lookup, ReadFound, ReadNothing, Fill, GetReturns, Change, ChangePanics,
           Marshal, Commit, CommitFails, UpdateReturns, NoCall
  <1>1. x \in Call /\ c \in Contexts /\ CallInv(x, heap)
    BY <1>0, CallFields
  <1>2. x.stage \in Holding => Refers(x.obj, c, cache, calls) /\ x.obj \in Objects
    BY <1>1 DEF Refers, CallInv
  \* A step that writes nothing but its own call.
  <1>3. ASSUME NEW y, calls' = [calls EXCEPT ![p] = y],
               y = NoCall \/ (y.ctx = c /\
                   (y.stage \in Holding => Refers(y.obj, c, cache, calls))),
               UNCHANGED <<db, cache, heap, intended>>, disturbed \subseteq disturbed'
        PROVE  Local(c)
    BY <1>0, <1>3, SameObjectLocal
  <1>4. ASSUME Lookup(p)
        PROVE  Local(c)
    <2> DEFINE y == IF c \in DOMAIN cache
                    THEN [x EXCEPT !.stage = "have", !.obj = cache[c]]
                    ELSE [x EXCEPT !.stage = "read"]
    <2>1. calls' = [calls EXCEPT ![p] = y]
          /\ UNCHANGED <<db, cache, heap, intended, disturbed>>
      BY <1>4 DEF Lookup
    <2>2. y.ctx = c /\ (c \in DOMAIN cache => y.obj = cache[c])
          /\ (c \notin DOMAIN cache => y.stage = "read")
      BY <1>1 DEF Call
    <2> HIDE DEF y
    <2>3. y.stage \in Holding => Refers(y.obj, c, cache, calls)
      BY <2>2 DEF Refers, Holding
    <2> QED BY <1>3, <2>1, <2>2, <2>3
  <1>5. ASSUME ReadFound(p)
        PROVE  Local(c)
    <2> DEFINE y == [x EXCEPT !.stage = "fill", !.obj = Fresh]
    <2>1. calls' = [calls EXCEPT ![p] = y] /\ heap' = [heap EXCEPT ![Fresh] = db[c]]
          /\ UNCHANGED <<db, cache, intended, disturbed>> /\ x.stage = "read"
      BY <1>5 DEF ReadFound
    <2>2. y.ctx = c /\ y.obj = Fresh
      BY <1>1 DEF Call
    <2> HIDE DEF y
    <2> QED BY <2>1, <2>2, NewObjectLocal
  <1>6. ASSUME ReadNothing(p)
        PROVE  Local(c)
    <2> DEFINE y == [x EXCEPT !.stage = "marshal", !.obj = Fresh]
    <2>1. CASE ~IsUpdate(x)
      <3>1. calls' = [calls EXCEPT ![p] = NoCall]
            /\ UNCHANGED <<db, cache, heap, intended, disturbed>>
        BY <1>6, <2>1 DEF ReadNothing
      <3> QED BY <1>3, <3>1
    <2>2. CASE IsUpdate(x)
      <3>1. calls' = [calls EXCEPT ![p] = y]
            /\ heap' = [heap EXCEPT ![Fresh] = Created(x.req)]
            /\ UNCHANGED <<db, cache, intended, disturbed>> /\ x.stage = "read"
        BY <1>6, <2>2 DEF ReadNothing
      <3>2. y.ctx = c /\ y.obj = Fresh
        BY <1>1 DEF Call
      <3> HIDE DEF y
      <3> QED BY <3>1, <3>2, NewObjectLocal
    <2> QED BY <2>1, <2>2
  <1>7. ASSUME NEW y, calls' = [calls EXCEPT ![p] = y],
               y = NoCall \/ (y.ctx = c /\ y.obj = x.obj), x.stage \in Holding,
               cache' \in SetContext(c, x.obj),
               \A d \in Contexts \ {c} : intended'[d] = intended[d],
               UNCHANGED <<db, heap, disturbed>>
        PROVE  Local(c)
    <2>1. \A d \in DOMAIN cache' : d \in DOMAIN cache \cup {c}
                                   /\ cache'[d] = IF d = c THEN x.obj ELSE cache[d]
      BY <1>1, <1>2, <1>7, SetContextCache DEF StoreInv, TypeOK
    <2>2. \A d \in DOMAIN cache' :
             \/ d = c /\ Refers(cache'[d], d, cache, calls)
             \/ d \in DOMAIN cache /\ cache'[d] = cache[d]
      BY <1>2, <1>7, <2>1
    <2>3. y = NoCall \/ (y.ctx = c /\ (y.stage \in Holding => Refers(y.obj, c, cache, calls)))
      BY <1>2, <1>7
    <2> QED BY <1>0, <1>7, <2>2, <2>3, SameObjectLocal
  <1>8. ASSUME Fill(p)
        PROVE  Local(c)
    <2> DEFINE y == [x EXCEPT !.stage = "have"]
    <2>1. calls' = [calls EXCEPT ![p] = y] /\ cache' \in SetContext(c, x.obj)
          /\ UNCHANGED <<db, heap, intended, disturbed>> /\ x.stage \in Holding
      BY <1>8 DEF Fill, Holding
    <2>2. y.ctx = c /\ y.obj = x.obj
      BY <1>1 DEF Call
    <2> HIDE DEF y
    <2> QED BY <1>7, <2>1, <2>2
  <1>9. ASSUME UpdateReturns(p)
        PROVE  Local(c)
    <2>1. calls' = [calls EXCEPT ![p] = NoCall] /\ cache' \in SetContext(c, x.obj)
          /\ UNCHANGED <<db, heap, disturbed>> /\ x.stage \in Holding
      BY <1>9 DEF UpdateReturns, Holding
    <2>2. \A d \in Contexts \ {c} : intended'[d] = intended[d]
      BY <1>9 DEF UpdateReturns, StoreInv, TypeOK
    <2> QED BY <1>7, <2>1, <2>2
  <1>10. ASSUME GetReturns(p) \/ CommitFails(p)
         PROVE  Local(c)
    <2>1. calls' = [calls EXCEPT ![p] = NoCall] /\ disturbed \subseteq disturbed'
          /\ UNCHANGED <<db, cache, heap, intended>>
      BY <1>10 DEF GetReturns, CommitFails
    <2> QED BY <1>3, <2>1
  <1>11. ASSUME Change(p) \/ ChangePanics(p)
         PROVE  Local(c)
    <2>1. x.stage \in Holding /\ disturbed \subseteq disturbed'
          /\ UNCHANGED <<db, cache, intended>>
      BY <1>11 DEF Change, ChangePanics, Holding
    <2>2. \A o \in Objects \ {x.obj} : heap'[o] = heap[o]
      BY <1>11, ChangeStoreInv
    <2>3. \A o \in Objects : \A d \in Contexts \ {c} :
              Refers(o, d, cache, calls) => heap'[o] = heap[o]
      BY <1>1, <1>2, <2>1, <2>2 DEF OwnerInv
    <2>4. CASE ChangePanics(p)
      <3>1. calls' = [calls EXCEPT ![p] = NoCall]
        BY <2>4 DEF ChangePanics
      <3> QED BY <1>0, <2>1, <2>3, <3>1, SameObjectLocal
    <2>5. CASE Change(p)
      <3> DEFINE y == [x EXCEPT !.stage = "marshal"]
      <3>1. calls' = [calls EXCEPT ![p] = y]
        BY <2>5 DEF Change
      <3>2. y.ctx = c /\ y.obj = x.obj
        BY <1>1 DEF Call
      <3> HIDE DEF y
      <3> QED BY <1>0, <1>2, <2>1, <2>3, <3>1, <3>2, SameObjectLocal
    <2> QED BY <1>11, <2>4, <2>5
  <1>12. ASSUME Marshal(p)
         PROVE  Local(c)
    <2> DEFINE y == [x EXCEPT !.stage = "commit", !.data = Marshalled(heap[x.obj])]
    <2>1. calls' = [calls EXCEPT ![p] = y] /\ x.stage \in Holding
          /\ UNCHANGED <<db, cache, heap, intended, disturbed>>
      BY <1>12 DEF Marshal, Holding
    <2>2. y.ctx = c /\ y.obj = x.obj
      BY <1>1 DEF Call
    <2> HIDE DEF y
    <2> QED BY <1>2, <1>3, <2>1, <2>2
  <1>13. ASSUME Commit(p)
         PROVE  Local(c)
    <2> DEFINE y == [x EXCEPT !.stage = "store"]
    <2>1. calls' = [calls EXCEPT ![p] = y] /\ x.stage \in Holding
          /\ UNCHANGED <<cache, heap, intended, disturbed>>
      BY <1>13 DEF Commit, Holding
    <2>2. y.ctx = c /\ y.obj = x.obj
      BY <1>1 DEF Call
    <2>3. \A d \in Contexts \ {c} : db'[d] = db[d]
      BY <1>13 DEF Commit, StoreInv, TypeOK
    <2> HIDE DEF y
    <2> QED BY <1>0, <1>2, <2>1, <2>2, <2>3, SameObjectLocal
  <1> QED BY <1>4, <1>5, <1>6, <1>8, <1>9, <1>10, <1>11, <1>12, <1>13

\* Objects stay apart.
LEMMA NextOwnerInv == StoreInv /\ OwnerInv /\ [Next]_vars => OwnerInv'
  <1> SUFFICES ASSUME StoreInv, OwnerInv, [Next]_vars PROVE OwnerInv'
    OBVIOUS
  <1>1. CASE UNCHANGED vars
    BY <1>1 DEF OwnerInv, vars
  <1>2. ASSUME NEW p \in Callers, NEW c \in Contexts,
               NEW req \in Requests \cup {NoRequest}, Begin(p, c, req)
        PROVE  OwnerInv'
    BY <1>2, BeginLocal, LocalOwner
  <1>3. ASSUME NEW p \in Callers,
               \/ Lookup(p) \/ ReadFound(p) \/ ReadNothing(p) \/ Fill(p)
               \/ GetReturns(p) \/ Change(p) \/ ChangePanics(p) \/ Marshal(p)
               \/ Commit(p) \/ CommitFails(p) \/ UpdateReturns(p)
        PROVE  OwnerInv'
    <2>1. calls[p] # NoCall
      BY <1>3 DEF Lookup, ReadFound, ReadNothing, Fill, GetReturns, Change, ChangePanics,
                  Marshal, Commit, CommitFails, UpdateReturns, NoCall
    <2> QED BY <1>3, <2>1, CallFields, StepLocal, LocalOwner
  <1> QED BY <1>1, <1>2, <1>3 DEF Next

----------------------------------------------------------------------------
\* A step on a coherent context

\* What is known of an update on a coherent context: it is alone.
LEMMA AloneOn ==
  ASSUME StoreInv, NEW p \in Callers, calls[p] # NoCall, IsUpdate(calls[p]),
         NEW b, NEW i, Coheres(calls[p].ctx, calls, b, i, cache, heap)
  PROVE  /\ On(calls[p].ctx, calls) = {p}
         /\ CallCoheres(calls[p], b, i, cache, heap)
         /\ calls[p].stage \notin Changed => Agrees(calls[p].ctx, b, i, cache, heap)
  <1> DEFINE c == calls[p].ctx
  <1>1. p \in On(c, calls)
    BY DEF On
  <1>2. On(c, calls) = {p}
    BY <1>1 DEF Coheres
  <1> QED BY <1>1, <1>2 DEF Coheres

\* What is known of a read on a coherent context: there are only reads on it, and
\* Badger, history and cache agree.
LEMMA ReadersOn ==
  ASSUME StoreInv, NEW p \in Callers, calls[p] # NoCall, ~IsUpdate(calls[p]),
         NEW b, NEW i, Coheres(calls[p].ctx, calls, b, i, cache, heap)
  PROVE  /\ \A q \in On(calls[p].ctx, calls) :
                ~IsUpdate(calls[q]) /\ calls[q].stage \notin Changed
         /\ CallCoheres(calls[p], b, i, cache, heap)
         /\ Agrees(calls[p].ctx, b, i, cache, heap)
  <1> DEFINE c == calls[p].ctx
  <1>1. p \in On(c, calls)
    BY DEF On
  <1>2. \A q \in On(c, calls) : ~IsUpdate(calls[q])
    BY <1>1 DEF Coheres
  <1>3. ASSUME NEW q \in On(c, calls)
        PROVE  calls[q].stage \notin Changed
    <2>1. q \in Callers /\ calls[q] # NoCall
      BY DEF On
    <2>2. CallInv(calls[q], heap)
      BY <2>1, CallFields
    <2> QED BY <1>2, <2>2, AbsentValues DEF CallInv, IsUpdate
  <1> QED BY <1>1, <1>2, <1>3 DEF Coheres

\* An update goes on or ends.
LEMMA UpdateCoheres ==
  ASSUME StoreInv, NEW p \in Callers, calls[p] # NoCall, IsUpdate(calls[p]),
         On(calls[p].ctx, calls) = {p},
         NEW y, calls' = [calls EXCEPT ![p] = y],
         NEW b, NEW i,
         \/ y = NoCall
         \/ y # NoCall /\ y.ctx = calls[p].ctx /\ CallCoheres(y, b, i, cache', heap'),
         y = NoCall \/ y.stage \notin Changed => Agrees(calls[p].ctx, b, i, cache', heap')
  PROVE  Coheres(calls[p].ctx, calls', b, i, cache', heap')
  <1> DEFINE c == calls[p].ctx
  <1>1. calls'[p] = y /\ \A q \in Callers \ {p} : calls'[q] = calls[q]
    BY DEF StoreInv, TypeOK
  <1>2. On(c, calls') = IF y = NoCall THEN {} ELSE {p}
    <2>1. ASSUME NEW q \in Callers \ {p}
          PROVE  q \notin On(c, calls')
      BY <1>1 DEF On
    <2>2. p \in On(c, calls') <=> y # NoCall
      BY <1>1 DEF On
    <2>3. On(c, calls') \subseteq Callers
      BY DEF On
    <2> QED BY <2>1, <2>2, <2>3
  <1>3. \A q, r \in On(c, calls') : q # r => ~IsUpdate(calls'[q])
    BY <1>2
  <1>4. (\A q \in On(c, calls') : calls'[q].stage \notin Changed) =>
            Agrees(c, b, i, cache', heap')
    BY <1>1, <1>2
  <1>5. \A q \in On(c, calls') : CallCoheres(calls'[q], b, i, cache', heap')
    BY <1>1, <1>2
  <1> QED BY <1>3, <1>4, <1>5 DEF Coheres

\* A read goes on or ends.
LEMMA ReadCoheres ==
  ASSUME StoreInv, NEW p \in Callers, calls[p] # NoCall, ~IsUpdate(calls[p]),
         NEW b, NEW i, Coheres(calls[p].ctx, calls, b, i, cache, heap),
         NEW y, calls' = [calls EXCEPT ![p] = y],
         \/ y = NoCall
         \/ /\ y # NoCall /\ y.ctx = calls[p].ctx /\ ~IsUpdate(y) /\ y.stage \notin Changed
            /\ y.stage \in {"fill", "have"} => Marshalled(heap'[y.obj]) = b,
         \A o \in Objects : Refers(o, calls[p].ctx, cache, calls) => heap'[o] = heap[o],
         calls[p].ctx \in DOMAIN cache' => Marshalled(heap'[cache'[calls[p].ctx]]) = b
  PROVE  Coheres(calls[p].ctx, calls', b, i, cache', heap')
  <1> DEFINE c == calls[p].ctx
  <1>1. calls'[p] = y /\ \A q \in Callers \ {p} : calls'[q] = calls[q]
    BY DEF StoreInv, TypeOK
  <1>2. /\ \A q \in On(c, calls) : ~IsUpdate(calls[q]) /\ calls[q].stage \notin Changed
        /\ Agrees(c, b, i, cache, heap)
    BY ReadersOn
  <1>3. Agrees(c, b, i, cache', heap')
    BY <1>2 DEF Agrees
  <1>4. ASSUME NEW q \in On(c, calls'), q # p
        PROVE  /\ q \in On(c, calls) /\ calls'[q] = calls[q]
               /\ calls[q].stage \in {"fill", "have"} =>
                      Marshalled(heap'[calls[q].obj]) = b
    <2>1. q \in Callers /\ calls'[q] = calls[q] /\ q \in On(c, calls)
      BY <1>1, <1>4 DEF On
    <2>2. calls[q] # NoCall /\ calls[q].ctx = c
      BY <2>1 DEF On
    <2>3. ASSUME calls[q].stage \in {"fill", "have"}
          PROVE  heap'[calls[q].obj] = heap[calls[q].obj]
      <3>1. calls[q].stage \in Holding
        BY <2>3 DEF Holding
      <3>2. calls[q].obj \in Objects
        BY <2>1, <2>2, <3>1, CallFields DEF CallInv
      <3>3. Refers(calls[q].obj, c, cache, calls)
        BY <2>1, <2>2, <3>1 DEF Refers
      <3> QED BY <3>2, <3>3
    <2>4. calls[q].stage \in {"fill", "have"} => Marshalled(heap[calls[q].obj]) = b
      BY <2>1 DEF Coheres, CallCoheres
    <2> QED BY <2>1, <2>3, <2>4
  <1>5. ASSUME NEW q \in On(c, calls')
        PROVE  /\ ~IsUpdate(calls'[q]) /\ calls'[q].stage \notin Changed
               /\ calls'[q].stage \in {"fill", "have"} =>
                      Marshalled(heap'[calls'[q].obj]) = b
    <2>1. CASE q = p
      BY <1>1, <2>1 DEF On
    <2>2. CASE q # p
      BY <1>2, <1>4, <2>2
    <2> QED BY <2>1, <2>2
  <1>6. \A q \in On(c, calls') : CallCoheres(calls'[q], b, i, cache', heap')
    BY <1>5 DEF CallCoheres, Changed
  <1> QED BY <1>3, <1>5, <1>6 DEF Coheres

\* A call begins on a coherent context without disturbing it.
LEMMA BeginCoheres ==
  ASSUME StoreInv, NEW p \in Callers, NEW c \in Contexts,
         NEW req \in Requests \cup {NoRequest}, Begin(p, c, req), c \notin disturbed',
         NEW b, NEW i, Coheres(c, calls, b, i, cache, heap)
  PROVE  Coheres(c, calls', b, i, cache', heap')
  <1> DEFINE y == [stage |-> "lookup", ctx |-> c, req |-> req, obj |-> NoObject,
                   data |-> NoRecord]
  <1>1. calls[p] = NoCall /\ calls' = [calls EXCEPT ![p] = y] /\ cache' = cache /\ heap' = heap
    BY DEF Begin
  <1>2. y.ctx = c /\ y.stage = "lookup" /\ y.req = req
    OBVIOUS
  <1>3. \A q \in On(c, calls) : req = NoRequest /\ ~IsUpdate(calls[q])
    <2>1. On(c, calls) = InProgress(c)
      BY DEF On, InProgress
    <2> QED BY <2>1 DEF Begin
  <1> HIDE DEF y
  <1>4. calls'[p] = y /\ \A q \in Callers \ {p} : calls'[q] = calls[q]
    BY <1>1 DEF StoreInv, TypeOK
  <1>5. /\ \A q \in On(c, calls) : q # p /\ q \in On(c, calls') /\ calls'[q] = calls[q]
        /\ \A q \in On(c, calls') : q = p \/ q \in On(c, calls)
    BY <1>1, <1>4 DEF On
  <1>6. \A q, r \in On(c, calls') : q # r => ~IsUpdate(calls'[q])
    <2> SUFFICES ASSUME NEW q \in On(c, calls'), NEW r \in On(c, calls'), q # r
                 PROVE  ~IsUpdate(calls'[q])
      OBVIOUS
    <2>1. CASE q = p
      <3>1. r \in On(c, calls)
        BY <1>5, <2>1
      <3> QED BY <1>2, <1>3, <1>4, <2>1, <3>1 DEF IsUpdate
    <2>2. CASE q # p
      BY <1>3, <1>5, <2>2
    <2> QED BY <2>1, <2>2
  <1>7. (\A q \in On(c, calls') : calls'[q].stage \notin Changed) =>
            Agrees(c, b, i, cache, heap)
    BY <1>5 DEF Coheres
  <1>8. CallCoheres(y, b, i, cache, heap)
    BY <1>2 DEF CallCoheres, Changed
  <1>9. \A q \in On(c, calls') : CallCoheres(calls'[q], b, i, cache, heap)
    BY <1>4, <1>5, <1>8 DEF Coheres
  <1> QED BY <1>1, <1>6, <1>7, <1>9 DEF Coheres

\* What Badger has is serialised already.
LEMMA SerialisedInBadger ==
  ASSUME StoreInv, NEW c \in Contexts, db[c] # NoRecord
  PROVE  db[c] \in Record /\ Marshalled(db[c]) = db[c]
  <1>1. db[c] \in Record /\ db[c].meta # "empty"
    BY DEF StoreInv, TypeOK
  <1> QED BY <1>1, MarshalledRecord

\* A read's step on its coherent context.
LEMMA ReadStepCoheres ==
  ASSUME StoreInv, OwnerInv, NEW p \in Callers, calls[p] # NoCall, ~IsUpdate(calls[p]),
         Coheres(calls[p].ctx, calls, db[calls[p].ctx], intended[calls[p].ctx], cache, heap),
         Lookup(p) \/ ReadFound(p) \/ ReadNothing(p) \/ Fill(p) \/ GetReturns(p)
  PROVE  Coheres(calls[p].ctx, calls', db'[calls[p].ctx], intended'[calls[p].ctx],
                 cache', heap')
  <1> DEFINE x == calls[p]
             c == x.ctx
             b == db[c]
             i == intended[c]
  <1>1. x \in Call /\ c \in Contexts /\ CallInv(x, heap)
    BY CallFields
  <1>2. CallCoheres(x, b, i, cache, heap) /\ Agrees(c, b, i, cache, heap)
    BY ReadersOn
  <1>3. UNCHANGED <<db, intended>>
    BY DEF Lookup, ReadFound, ReadNothing, Fill, GetReturns
  <1>4. c \in DOMAIN cache => Marshalled(heap[cache[c]]) = b
    BY <1>2 DEF Agrees
  <1>5. ASSUME Lookup(p)
        PROVE  Coheres(c, calls', b, i, cache', heap')
    <2> DEFINE y == IF c \in DOMAIN cache
                    THEN [x EXCEPT !.stage = "have", !.obj = cache[c]]
                    ELSE [x EXCEPT !.stage = "read"]
    <2>1. calls' = [calls EXCEPT ![p] = y] /\ cache' = cache /\ heap' = heap
      BY <1>5 DEF Lookup
    <2>2. /\ y.ctx = c /\ y.req = x.req /\ y.stage \in {"have", "read"}
          /\ y.stage = "have" => c \in DOMAIN cache /\ y.obj = cache[c]
      BY <1>1 DEF Call
    <2> HIDE DEF y
    <2>3. y # NoCall /\ ~IsUpdate(y) /\ y.stage \notin Changed
      BY <2>2 DEF NoCall, IsUpdate, Changed
    <2>4. y.stage \in {"fill", "have"} => Marshalled(heap'[y.obj]) = b
      BY <1>4, <2>1, <2>2
    <2> QED BY <1>4, <2>1, <2>2, <2>3, <2>4, ReadCoheres
  <1>6. ASSUME ReadFound(p)
        PROVE  Coheres(c, calls', b, i, cache', heap')
    <2> DEFINE y == [x EXCEPT !.stage = "fill", !.obj = Fresh]
    <2>1. calls' = [calls EXCEPT ![p] = y] /\ heap' = [heap EXCEPT ![Fresh] = b]
          /\ UNCHANGED <<db, cache, intended, disturbed>> /\ x.stage = "read" /\ b # NoRecord
      BY <1>6 DEF ReadFound
    <2>2. y.ctx = c /\ y.obj = Fresh /\ y.stage = "fill" /\ y.req = x.req
      BY <1>1 DEF Call
    <2> HIDE DEF y
    <2>3. /\ \A o \in Objects : Refers(o, c, cache, calls) => heap'[o] = heap[o]
          /\ heap'[Fresh] = b
      BY <1>1, <2>1, <2>2, NewObjectLocal
    <2>4. Marshalled(b) = b
      BY <1>1, <2>1, SerialisedInBadger
    <2>5. y # NoCall /\ ~IsUpdate(y) /\ y.stage \notin Changed
      BY <2>2 DEF NoCall, IsUpdate, Changed
    <2>6. c \in DOMAIN cache' => Marshalled(heap'[cache'[c]]) = b
      <3>1. c \in DOMAIN cache => cache[c] \in Objects /\ Refers(cache[c], c, cache, calls)
        BY DEF StoreInv, TypeOK, Refers
      <3> QED BY <1>4, <2>1, <2>3, <3>1
    <2> QED BY <2>1, <2>2, <2>3, <2>4, <2>5, <2>6, ReadCoheres
  <1>7. ASSUME ReadNothing(p) \/ GetReturns(p)
        PROVE  Coheres(c, calls', b, i, cache', heap')
    <2>1. calls' = [calls EXCEPT ![p] = NoCall] /\ cache' = cache /\ heap' = heap
      BY <1>7 DEF ReadNothing, GetReturns
    <2> QED BY <1>4, <2>1, ReadCoheres
  <1>8. ASSUME Fill(p)
        PROVE  Coheres(c, calls', b, i, cache', heap')
    <2> DEFINE y == [x EXCEPT !.stage = "have"]
    <2>1. calls' = [calls EXCEPT ![p] = y] /\ cache' \in SetContext(c, x.obj)
          /\ heap' = heap /\ x.stage = "fill"
      BY <1>8 DEF Fill
    <2>2. y.ctx = c /\ y.obj = x.obj /\ y.stage = "have" /\ y.req = x.req
      BY <1>1 DEF Call
    <2> HIDE DEF y
    <2>3. x.obj \in Objects
      BY <1>1, <2>1 DEF CallInv, Holding
    <2>4. c \in DOMAIN cache' => cache'[c] = x.obj
      BY <1>1, <2>1, <2>3, SetContextCache DEF StoreInv, TypeOK
    <2>5. Marshalled(heap[x.obj]) = b
      BY <1>2, <2>1 DEF CallCoheres
    <2>6. y # NoCall /\ ~IsUpdate(y) /\ y.stage \notin Changed
      BY <2>2 DEF NoCall, IsUpdate, Changed
    <2> QED BY <2>1, <2>2, <2>4, <2>5, <2>6, ReadCoheres
  <1> HIDE DEF c
  <1> QED BY <1>3, <1>5, <1>6, <1>7, <1>8 DEF c

\* An update finds its object, on its coherent context.
LEMMA FindStepCoheres ==
  ASSUME StoreInv, OwnerInv, NEW p \in Callers, calls[p] # NoCall, IsUpdate(calls[p]),
         Coheres(calls[p].ctx, calls, db[calls[p].ctx], intended[calls[p].ctx], cache, heap),
         Lookup(p) \/ ReadFound(p) \/ ReadNothing(p) \/ Fill(p)
  PROVE  Coheres(calls[p].ctx, calls', db'[calls[p].ctx], intended'[calls[p].ctx],
                 cache', heap')
  <1> DEFINE x == calls[p]
             c == x.ctx
             b == db[c]
             i == intended[c]
  <1>1. x \in Call /\ c \in Contexts /\ CallInv(x, heap) /\ x.req \in Requests
    BY CallFields DEF IsUpdate
  <1>2. On(c, calls) = {p} /\ CallCoheres(x, b, i, cache, heap)
    BY AloneOn
  <1>3. UNCHANGED <<db, intended>> /\ x.stage \in {"lookup", "read", "fill"}
    BY DEF Lookup, ReadFound, ReadNothing, Fill
  <1>4. Agrees(c, b, i, cache, heap)
    BY <1>3, AloneOn DEF Changed
  <1>5. ASSUME Lookup(p)
        PROVE  Coheres(c, calls', b, i, cache', heap')
    <2> DEFINE y == IF c \in DOMAIN cache
                    THEN [x EXCEPT !.stage = "have", !.obj = cache[c]]
                    ELSE [x EXCEPT !.stage = "read"]
    <2>1. calls' = [calls EXCEPT ![p] = y] /\ cache' = cache /\ heap' = heap
      BY <1>5 DEF Lookup
    <2>2. /\ y.ctx = c /\ y.stage \in {"have", "read"}
          /\ y.stage = "have" => c \in DOMAIN cache /\ y.obj = cache[c]
          /\ y.stage = "read" => c \notin DOMAIN cache
      BY <1>1 DEF Call
    <2> HIDE DEF y
    <2>3. y # NoCall /\ y.stage \notin Changed
      BY <2>2 DEF NoCall, Changed
    <2>4. CallCoheres(y, b, i, cache', heap')
      BY <1>4, <2>1, <2>2, <2>3 DEF CallCoheres, Agrees, Changed
    <2> QED BY <1>2, <1>4, <2>1, <2>2, <2>3, <2>4, UpdateCoheres
  <1>6. ASSUME ReadFound(p)
        PROVE  Coheres(c, calls', b, i, cache', heap')
    <2> DEFINE y == [x EXCEPT !.stage = "fill", !.obj = Fresh]
    <2>1. calls' = [calls EXCEPT ![p] = y] /\ heap' = [heap EXCEPT ![Fresh] = b]
          /\ UNCHANGED <<db, cache, intended, disturbed>> /\ x.stage = "read" /\ b # NoRecord
      BY <1>6 DEF ReadFound
    <2>2. y.ctx = c /\ y.obj = Fresh /\ y.stage = "fill"
      BY <1>1 DEF Call
    <2> HIDE DEF y
    <2>3. heap'[Fresh] = b
      BY <1>1, <2>1, <2>2, NewObjectLocal
    <2>4. Marshalled(b) = b
      BY <1>1, <2>1, SerialisedInBadger
    <2>5. y # NoCall /\ y.stage \notin Changed
      BY <2>2 DEF NoCall, Changed
    <2>6. c \notin DOMAIN cache
      BY <1>2, <2>1 DEF CallCoheres
    <2>7. CallCoheres(y, b, i, cache', heap')
      BY <2>1, <2>2, <2>3, <2>4, <2>5, <2>6 DEF CallCoheres, Changed
    <2>8. Agrees(c, b, i, cache', heap')
      BY <1>4, <2>1, <2>6 DEF Agrees
    <2> QED BY <1>2, <2>1, <2>2, <2>5, <2>7, <2>8, UpdateCoheres
  <1>7. ASSUME ReadNothing(p)
        PROVE  Coheres(c, calls', b, i, cache', heap')
    <2> DEFINE y == [x EXCEPT !.stage = "marshal", !.obj = Fresh]
    <2>1. calls' = [calls EXCEPT ![p] = y]
          /\ heap' = [heap EXCEPT ![Fresh] = Created(x.req)]
          /\ UNCHANGED <<db, cache, intended, disturbed>> /\ x.stage = "read" /\ b = NoRecord
      BY <1>7 DEF ReadNothing
    <2>2. y.ctx = c /\ y.obj = Fresh /\ y.stage = "marshal" /\ y.req = x.req
      BY <1>1 DEF Call
    <2> HIDE DEF y
    <2>3. heap'[Fresh] = Created(x.req)
      BY <1>1, <2>1, <2>2, NewObjectLocal
    <2>4. b = i /\ c \notin DOMAIN cache
      BY <1>2, <1>4, <2>1 DEF Agrees, CallCoheres
    <2>5. Marshalled(heap'[y.obj]) = Intended(i, y.req)
      BY <2>1, <2>2, <2>3, <2>4 DEF Intended
    <2>6. y # NoCall /\ y.stage \in Changed
      BY <2>2 DEF NoCall, Changed
    <2>7. CallCoheres(y, b, i, cache', heap')
      BY <2>1, <2>2, <2>4, <2>5 DEF CallCoheres, Changed
    <2> QED BY <1>2, <2>1, <2>2, <2>6, <2>7, UpdateCoheres
  <1>8. ASSUME Fill(p)
        PROVE  Coheres(c, calls', b, i, cache', heap')
    <2> DEFINE y == [x EXCEPT !.stage = "have"]
    <2>1. calls' = [calls EXCEPT ![p] = y] /\ cache' \in SetContext(c, x.obj)
          /\ heap' = heap /\ x.stage = "fill"
      BY <1>8 DEF Fill
    <2>2. y.ctx = c /\ y.obj = x.obj /\ y.stage = "have"
      BY <1>1 DEF Call
    <2> HIDE DEF y
    <2>3. x.obj \in Objects
      BY <1>1, <2>1 DEF CallInv, Holding
    <2>4. c \in DOMAIN cache' => cache'[c] = x.obj
      BY <1>1, <2>1, <2>3, SetContextCache DEF StoreInv, TypeOK
    <2>5. Marshalled(heap[x.obj]) = b
      BY <1>2, <2>1 DEF CallCoheres
    <2>6. y # NoCall /\ y.stage \notin Changed
      BY <2>2 DEF NoCall, Changed
    <2>7. CallCoheres(y, b, i, cache', heap')
      BY <2>1, <2>2, <2>4, <2>5, <2>6 DEF CallCoheres, Changed
    <2>8. Agrees(c, b, i, cache', heap')
      BY <1>4, <2>1, <2>4, <2>5 DEF Agrees
    <2> QED BY <1>2, <2>1, <2>2, <2>6, <2>7, <2>8, UpdateCoheres
  <1> HIDE DEF c
  <1> QED BY <1>3, <1>5, <1>6, <1>7, <1>8 DEF c

\* An update changes its object and writes it, on its coherent context.
LEMMA WriteStepCoheres ==
  ASSUME StoreInv, OwnerInv, NEW p \in Callers, calls[p] # NoCall, IsUpdate(calls[p]),
         Coheres(calls[p].ctx, calls, db[calls[p].ctx], intended[calls[p].ctx], cache, heap),
         Change(p) \/ Marshal(p) \/ Commit(p) \/ UpdateReturns(p)
  PROVE  Coheres(calls[p].ctx, calls', db'[calls[p].ctx], intended'[calls[p].ctx],
                 cache', heap')
  <1> DEFINE x == calls[p]
             c == x.ctx
             b == db[c]
             i == intended[c]
  <1>1. x \in Call /\ c \in Contexts /\ CallInv(x, heap) /\ x.req \in Requests
    BY CallFields DEF IsUpdate
  <1>2. On(c, calls) = {p} /\ CallCoheres(x, b, i, cache, heap)
    BY AloneOn
  <1>3. TypeOK
    BY DEF StoreInv
  <1>4. ASSUME Change(p)
        PROVE  Coheres(c, calls', db'[c], intended'[c], cache', heap')
    <2> DEFINE y == [x EXCEPT !.stage = "marshal"]
               v == heap[x.obj]
    <2>1. calls' = [calls EXCEPT ![p] = y] /\ x.stage = "have"
          /\ UNCHANGED <<db, cache, intended>>
      BY <1>4 DEF Change
    <2>2. y.ctx = c /\ y.obj = x.obj /\ y.stage = "marshal" /\ y.req = x.req
      BY <1>1 DEF Call
    <2> HIDE DEF y
    <2>3. v \in Record /\ heap'[x.obj] = Updated(v, x.req)
      BY <1>4, ChangeStoreInv
    <2>4. Marshalled(v) = b
      BY <1>2, <2>1 DEF CallCoheres
    <2>5. b = i
      <3>1. Agrees(c, b, i, cache, heap)
        BY <2>1, AloneOn DEF Changed
      <3> QED BY <3>1 DEF Agrees
    <2>6. Marshalled(heap'[x.obj]) = Intended(i, x.req)
      BY <1>1, <2>3, <2>4, <2>5, UpdatedAsIntended
    <2>7. c \in DOMAIN cache => cache[c] = x.obj
      BY <1>2, <2>1 DEF CallCoheres
    <2>8. CallCoheres(y, b, i, cache', heap')
      BY <2>1, <2>2, <2>5, <2>6, <2>7 DEF CallCoheres
    <2>9. y # NoCall /\ y.stage \in Changed
      BY <2>2 DEF NoCall, Changed
    <2> QED BY <1>2, <2>1, <2>2, <2>8, <2>9, UpdateCoheres
  <1>5. ASSUME Marshal(p)
        PROVE  Coheres(c, calls', db'[c], intended'[c], cache', heap')
    <2> DEFINE m == Marshalled(heap[x.obj])
               y == [x EXCEPT !.stage = "commit", !.data = m]
    <2>1. calls' = [calls EXCEPT ![p] = y] /\ x.stage = "marshal"
          /\ UNCHANGED <<db, cache, heap, intended>>
      BY <1>5 DEF Marshal
    <2>2. m = Intended(i, x.req)
      BY <1>2, <2>1 DEF CallCoheres, Changed
    <2>3. y.ctx = c /\ y.obj = x.obj /\ y.stage = "commit" /\ y.req = x.req /\ y.data = m
      BY <1>1 DEF Call
    <2> HIDE DEF y
    <2>4. CallCoheres(y, b, i, cache', heap')
      <3>1. b = i /\ (c \in DOMAIN cache => cache[c] = x.obj)
        BY <1>2, <2>1 DEF CallCoheres, Changed
      <3> QED BY <2>1, <2>2, <2>3, <3>1 DEF CallCoheres
    <2>5. y # NoCall /\ y.stage \in Changed
      BY <2>3 DEF NoCall, Changed
    <2> QED BY <1>2, <2>1, <2>3, <2>4, <2>5, UpdateCoheres
  <1>6. ASSUME Commit(p)
        PROVE  Coheres(c, calls', db'[c], intended'[c], cache', heap')
    <2> DEFINE y == [x EXCEPT !.stage = "store"]
    <2>1. calls' = [calls EXCEPT ![p] = y] /\ x.stage = "commit"
          /\ db' = [db EXCEPT ![c] = x.data] /\ UNCHANGED <<cache, heap, intended>>
      BY <1>6 DEF Commit
    <2>2. y.ctx = c /\ y.obj = x.obj /\ y.stage = "store" /\ y.req = x.req
          /\ y.data = x.data
      BY <1>1 DEF Call
    <2> HIDE DEF y
    <2>3. db'[c] = x.data
      BY <1>1, <1>3, <2>1 DEF TypeOK
    <2>4. CallCoheres(y, db'[c], i, cache', heap')
      <3>1. /\ x.data = Intended(i, x.req) /\ Marshalled(heap[x.obj]) = Intended(i, x.req)
            /\ c \in DOMAIN cache => cache[c] = x.obj
        BY <1>2, <2>1 DEF CallCoheres, Changed
      <3> QED BY <2>1, <2>2, <2>3, <3>1 DEF CallCoheres
    <2>5. y # NoCall /\ y.stage \in Changed
      BY <2>2 DEF NoCall, Changed
    <2> QED BY <1>2, <2>1, <2>2, <2>4, <2>5, UpdateCoheres
  <1>7. ASSUME UpdateReturns(p)
        PROVE  Coheres(c, calls', db'[c], intended'[c], cache', heap')
    <2>1. calls' = [calls EXCEPT ![p] = NoCall] /\ cache' \in SetContext(c, x.obj)
          /\ intended' = [intended EXCEPT ![c] = Intended(@, x.req)]
          /\ UNCHANGED <<db, heap>> /\ x.stage = "store"
      BY <1>7 DEF UpdateReturns
    <2>2. intended'[c] = Intended(i, x.req)
      BY <1>1, <1>3, <2>1 DEF TypeOK
    <2>3. x.obj \in Objects
      BY <1>1, <2>1 DEF CallInv, Holding
    <2>4. c \in DOMAIN cache' => cache'[c] = x.obj
      BY <1>1, <2>1, <2>3, SetContextCache DEF StoreInv, TypeOK
    <2>5. b = Intended(i, x.req) /\ Marshalled(heap[x.obj]) = Intended(i, x.req)
      BY <1>2, <2>1 DEF CallCoheres, Changed
    <2>6. Agrees(c, db'[c], intended'[c], cache', heap')
      BY <2>1, <2>2, <2>4, <2>5 DEF Agrees
    <2> QED BY <1>2, <2>1, <2>6, UpdateCoheres
  <1> HIDE DEF c
  <1> QED BY <1>4, <1>5, <1>6, <1>7 DEF c

\* In an empty store every context is coherent.
LEMMA InitCoherence == Init => OwnerInv /\ CoherenceInv
  <1> SUFFICES ASSUME Init PROVE OwnerInv /\ CoherenceInv
    OBVIOUS
  <1>1. DOMAIN cache = {} /\ \A p \in Callers : calls[p] = NoCall
    BY DEF Init
  <1>2. OwnerInv
    BY <1>1 DEF OwnerInv, Refers, NoCall, Holding
  <1>3. ASSUME NEW c \in Contexts
        PROVE  Coheres(c, calls, db[c], intended[c], cache, heap)
    <2>1. On(c, calls) = {} /\ db[c] = intended[c]
      BY <1>1 DEF On, Init
    <2> QED BY <1>1, <2>1 DEF Coheres, Agrees
  <1> QED BY <1>2, <1>3 DEF CoherenceInv

\* Coherence is kept by every step.
LEMMA NextCoherence ==
  StoreInv /\ OwnerInv /\ CoherenceInv /\ [Next]_vars => CoherenceInv'
  <1> SUFFICES ASSUME StoreInv, OwnerInv, CoherenceInv, [Next]_vars PROVE CoherenceInv'
    OBVIOUS
  <1>1. CASE UNCHANGED vars
    BY <1>1 DEF CoherenceInv, vars
  <1>2. ASSUME NEW c \in Contexts, Local(c),
               c \notin disturbed' =>
                   Coheres(c, calls', db'[c], intended'[c], cache', heap')
        PROVE  CoherenceInv'
    <2>1. ASSUME NEW d \in Contexts, d \notin disturbed', d # c
          PROVE  Coheres(d, calls', db'[d], intended'[d], cache', heap')
      <3>1. d \notin disturbed
        BY <1>2, <2>1 DEF Local
      <3>2. Coheres(d, calls, db[d], intended[d], cache, heap)
        BY <3>1 DEF CoherenceInv
      <3> QED BY <1>2, <2>1, <3>2, LocalCoheres
    <2> QED BY <1>2, <2>1 DEF CoherenceInv
  <1>3. ASSUME NEW p \in Callers, NEW c \in Contexts,
               NEW req \in Requests \cup {NoRequest}, Begin(p, c, req)
        PROVE  CoherenceInv'
    <2>1. Local(c) /\ UNCHANGED <<db, intended>>
      BY <1>3, BeginLocal DEF Begin
    <2>2. ASSUME c \notin disturbed'
          PROVE  Coheres(c, calls', db'[c], intended'[c], cache', heap')
      <3>1. Coheres(c, calls, db[c], intended[c], cache, heap)
        BY <2>1, <2>2 DEF CoherenceInv, Local
      <3> QED BY <1>3, <2>1, <2>2, <3>1, BeginCoheres
    <2> QED BY <1>2, <2>1, <2>2
  <1>4. ASSUME NEW p \in Callers,
               \/ Lookup(p) \/ ReadFound(p) \/ ReadNothing(p) \/ Fill(p)
               \/ GetReturns(p) \/ Change(p) \/ ChangePanics(p) \/ Marshal(p)
               \/ Commit(p) \/ CommitFails(p) \/ UpdateReturns(p)
        PROVE  CoherenceInv'
    <2> DEFINE x == calls[p]
               c == x.ctx
    <2>1. x # NoCall
      BY <1>4 DEF Lookup, ReadFound, ReadNothing, Fill, GetReturns, Change, ChangePanics,
                  Marshal, Commit, CommitFails, UpdateReturns, NoCall
    <2>2. c \in Contexts /\ CallInv(x, heap)
      BY <2>1, CallFields
    <2>3. Local(c)
      BY <1>4, StepLocal
    <2>4. ASSUME c \notin disturbed'
          PROVE  Coheres(c, calls', db'[c], intended'[c], cache', heap')
      <3>1. Coheres(c, calls, db[c], intended[c], cache, heap)
        BY <2>2, <2>3, <2>4 DEF CoherenceInv, Local
      <3>2. ~ChangePanics(p) /\ ~CommitFails(p)
        BY <2>4 DEF ChangePanics, CommitFails
      <3>3. CASE ~IsUpdate(x)
        <4>1. x.stage \notin Changed
          BY <2>2, <3>3, AbsentValues DEF CallInv, IsUpdate
        <4>2. ~Change(p) /\ ~Marshal(p) /\ ~Commit(p) /\ ~UpdateReturns(p)
          BY <3>3, <4>1 DEF Change, Marshal, Commit, UpdateReturns, Changed
        <4> QED BY <1>4, <2>1, <3>1, <3>2, <3>3, <4>2, ReadStepCoheres
      <3>4. CASE IsUpdate(x)
        <4>1. ~GetReturns(p)
          BY <3>4 DEF GetReturns
        <4> QED BY <1>4, <2>1, <3>1, <3>2, <3>4, <4>1, FindStepCoheres, WriteStepCoheres
      <3> QED BY <3>3, <3>4
    <2> HIDE DEF c
    <2> QED BY <1>2, <2>2, <2>3, <2>4
  <1> QED BY <1>1, <1>3, <1>4 DEF Next

\* As long as updates of a context succeed and overlap no other call, the context
\* behaves like an entry of a plain map: between calls Badger has what the updates
\* add up to, and the cache, if it has the context, has the same, whatever calls
\* on other contexts do to the cache and to the objects it shares out.
THEOREM SequentialUpdatesCohere == Spec => []SequentialCallsCohere
  <1>1. CoherenceInv => SequentialCallsCohere
    <2> SUFFICES ASSUME CoherenceInv, NEW c \in Contexts \ disturbed, InProgress(c) = {}
                 PROVE  /\ db[c] = intended[c]
                        /\ c \in DOMAIN cache => Marshalled(heap[cache[c]]) = db[c]
      BY DEF SequentialCallsCohere
    <2>1. On(c, calls) = {}
      BY DEF On, InProgress
    <2>2. Coheres(c, calls, db[c], intended[c], cache, heap)
      BY DEF CoherenceInv
    <2> QED BY <2>1, <2>2 DEF Coheres, Agrees
  <1> QED BY <1>1, InitCoherence, NextOwnerInv, NextCoherence, AlwaysStoreInv, PTL DEF Spec

=============================================================================
