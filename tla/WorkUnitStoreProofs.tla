------------------------ MODULE WorkUnitStoreProofs ------------------------
(***************************************************************************)
(* Proofs about WorkUnitStore, for every set of contexts, UUIDs and        *)
(* creators, every limit and cache size: the types, the agreement of the   *)
(* index with the records, and what a client gets page by page.            *)
(***************************************************************************)
EXTENDS WorkUnitStore, SequenceTheorems, FiniteSetTheorems,
        WellFoundedInduction, TLAPS

USE DEF NoCreation

\* A creation that is about to commit has a UUID that was generated for it.
Owns(p, id) == creators[p].stage = "commit" /\ creators[p].id = id

\* The UUIDs of committed units were generated before.
GeneratedFirst == DOMAIN units \subseteq used

\* A creation that has not committed has a UUID of its own, which no record has:
\* so a commit never replaces a record whose index entry would then be wrong.
CreationsAreNew ==
    /\ \A p \in Creators, id \in UnitIds :
          Owns(p, id) => id \in used /\ id \notin DOMAIN units
    /\ \A p, q \in Creators, id \in UnitIds : Owns(p, id) /\ Owns(q, id) => p = q

CreatorsTyped == creators \in [Creators -> Creation \cup {NoCreation}]

IndexInv == CreatorsTyped /\ GeneratedFirst /\ CreationsAreNew /\ IndexMatchesUnits

\* An empty store satisfies the inductive invariant.
LEMMA InitIndexInv == Init => IndexInv
  BY DEF Init, IndexInv, CreatorsTyped, GeneratedFirst, CreationsAreNew, Owns,
         IndexMatchesUnits

\* Generating a UUID (CreateWorkUnit) preserves the invariant.
LEMMA CreateInv ==
  ASSUME IndexInv, NEW p \in Creators, NEW c \in Contexts, NEW id \in UnitIds,
         Create(p, c, id), clock \in 0..MaxClock
  PROVE  IndexInv'
  <1> DEFINE x == [stage |-> "commit", id |-> id, unit |-> [ctx |-> c, ts |-> clock]]
  <1>1. x \in Creation
    BY DEF Creation, Unit
  <1>2. creators' = [creators EXCEPT ![p] = x] /\ id \notin used
        /\ used' = used \cup {id} /\ units' = units /\ index' = index
    BY DEF Create
  <1>3. CreatorsTyped'
    BY <1>1, <1>2 DEF IndexInv, CreatorsTyped
  <1>4. GeneratedFirst'
    BY <1>2 DEF IndexInv, GeneratedFirst
  <1>5. \A q \in Creators : creators'[q] = IF q = p THEN x ELSE creators[q]
    BY <1>2 DEF IndexInv, CreatorsTyped
  <1>6. CreationsAreNew'
    BY <1>2, <1>5 DEF IndexInv, GeneratedFirst, CreationsAreNew, Owns
  <1>7. IndexMatchesUnits'
    BY <1>2 DEF IndexInv, IndexMatchesUnits
  <1> QED BY <1>3, <1>4, <1>6, <1>7 DEF IndexInv

\* Writing record and index entry in one transaction preserves the invariant.
LEMMA CommitInv ==
  ASSUME IndexInv, NEW p \in Creators, Commit(p)
  PROVE  IndexInv'
  <1> DEFINE x == creators[p]
             k == <<x.unit.ctx, x.unit.ts>>
  <1>1. x \in Creation /\ x.stage = "commit"
    BY DEF IndexInv, CreatorsTyped, Commit
  <1>2. x.id \in UnitIds /\ x.unit \in Unit
    BY <1>1 DEF Creation
  <1>3. x.id \in used /\ x.id \notin DOMAIN units
    BY <1>1, <1>2 DEF IndexInv, CreationsAreNew, Owns
  <1>4. units' = With(units, x.id, x.unit) /\ index' = With(index, k, x.id)
        /\ creators' = [creators EXCEPT ![p].stage = "store"] /\ used' = used
    BY DEF Commit, ContextTimeKey
  <1>5. \A q \in Creators : creators'[q] =
            IF q = p THEN [x EXCEPT !.stage = "store"] ELSE creators[q]
    BY <1>4 DEF IndexInv, CreatorsTyped
  <1>6. CreatorsTyped'
    <2>1. [x EXCEPT !.stage = "store"] \in Creation
      BY <1>1 DEF Creation
    <2> QED BY <2>1, <1>4 DEF IndexInv, CreatorsTyped
  <1>7. /\ DOMAIN units' = DOMAIN units \cup {x.id}
        /\ units'[x.id] = x.unit
        /\ \A d \in DOMAIN units : units'[d] = units[d]
    BY <1>3, <1>4 DEF With
  <1>8. /\ DOMAIN index' = DOMAIN index \cup {k}
        /\ index'[k] = x.id
        /\ \A j \in DOMAIN index : j # k => index'[j] = index[j]
    BY <1>4 DEF With
  <1>9. GeneratedFirst'
    BY <1>3, <1>4, <1>7 DEF IndexInv, GeneratedFirst
  <1>10. CreationsAreNew'
    <2>1. [x EXCEPT !.stage = "store"].stage = "store"
      BY <1>1 DEF Creation
    <2>2. \A q \in Creators, id \in UnitIds :
             Owns(q, id)' => q # p /\ Owns(q, id)
      BY <1>5, <2>1 DEF Owns
    <2>3. \A q \in Creators, id \in UnitIds : Owns(q, id)' => id # x.id
      BY <2>2, <1>1, <1>2 DEF IndexInv, CreationsAreNew, Owns
    <2> QED BY <2>2, <2>3, <1>4, <1>7 DEF IndexInv, CreationsAreNew
  <1>11. IndexMatchesUnits'
    <2>1. ASSUME NEW j \in DOMAIN index'
          PROVE  /\ index'[j] \in DOMAIN units'
                 /\ j = <<units'[index'[j]].ctx, units'[index'[j]].ts>>
      <3>1. CASE j = k
        BY <3>1, <1>7, <1>8
      <3>2. CASE j # k
        <4>1. j \in DOMAIN index /\ index'[j] = index[j]
          BY <3>2, <2>1, <1>8
        <4>2. index[j] \in DOMAIN units
              /\ j = <<units[index[j]].ctx, units[index[j]].ts>>
          BY <4>1 DEF IndexInv, IndexMatchesUnits
        <4> QED BY <4>1, <4>2, <1>7
      <3> QED BY <3>1, <3>2
    <2>2. ASSUME NEW id \in DOMAIN units'
          PROVE  <<units'[id].ctx, units'[id].ts>> \in DOMAIN index'
      BY <1>7, <1>8 DEF IndexInv, IndexMatchesUnits
    <2> QED BY <2>1, <2>2 DEF IndexMatchesUnits
  <1> QED BY <1>6, <1>9, <1>10, <1>11 DEF IndexInv

\* A creation that ends, by an error or with the caching of its unit.
LEMMA EndInv ==
  ASSUME IndexInv, NEW p \in Creators,
         creators' = [creators EXCEPT ![p] = NoCreation],
         used' = used, units' = units, index' = index
  PROVE  IndexInv'
  <1>1. \A q \in Creators : creators'[q] =
            IF q = p THEN NoCreation ELSE creators[q]
    BY DEF IndexInv, CreatorsTyped
  <1>2. CreatorsTyped'
    BY DEF IndexInv, CreatorsTyped
  <1>3. CreationsAreNew'
    BY <1>1 DEF IndexInv, CreationsAreNew, Owns
  <1> QED BY <1>2, <1>3 DEF IndexInv, GeneratedFirst, IndexMatchesUnits

\* Reading, listing and the passage of time touch none of this.
LEMMA QuietInv ==
  ASSUME IndexInv, UNCHANGED <<used, units, index, creators>>
  PROVE  IndexInv'
  BY DEF IndexInv, CreatorsTyped, GeneratedFirst, CreationsAreNew, Owns,
         IndexMatchesUnits

\* The clock stays in its range.
ClockOK == clock \in 0..MaxClock

\* The clock starts in its range, and every step keeps it there.
LEMMA InitClock == Init => ClockOK
  BY WorkUnitSizes DEF Init, ClockOK

\* Only Tick moves the clock, and it stops at the bound.
LEMMA NextClock == ClockOK /\ [Next]_vars => ClockOK'
  BY WorkUnitSizes DEF ClockOK, Next, vars, Tick, Create, Commit, CommitFails, Store,
     GetWorkUnit, ListBegin, PageBegin, Iterate, PageEnd

\* Every step of the store preserves the invariant.
LEMMA NextIndexInv == IndexInv /\ ClockOK /\ [Next]_vars => IndexInv'
  <1> SUFFICES ASSUME IndexInv, ClockOK, [Next]_vars PROVE IndexInv'
    OBVIOUS
  <1>1. CASE Tick
    BY <1>1, QuietInv DEF Tick
  <1>2. ASSUME NEW p \in Creators, NEW c \in Contexts, NEW id \in UnitIds,
               Create(p, c, id)
        PROVE  IndexInv'
    BY <1>2, CreateInv DEF ClockOK
  <1>3. ASSUME NEW p \in Creators, Commit(p) PROVE IndexInv'
    BY <1>3, CommitInv
  <1>4. ASSUME NEW p \in Creators, CommitFails(p) \/ Store(p) PROVE IndexInv'
    BY <1>4, EndInv DEF CommitFails, Store
  <1>5. ASSUME NEW id \in UnitIds, GetWorkUnit(id) PROVE IndexInv'
    BY <1>5, QuietInv DEF GetWorkUnit
  <1>6. ASSUME NEW c \in Contexts, NEW reverse \in BOOLEAN, ListBegin(c, reverse)
        PROVE  IndexInv'
    BY <1>6, QuietInv DEF ListBegin
  <1>7. CASE PageBegin
    BY <1>7, QuietInv DEF PageBegin
  <1>8. CASE Iterate
    BY <1>8, QuietInv DEF Iterate
  <1>9. CASE PageEnd
    BY <1>9, QuietInv DEF PageEnd
  <1>10. CASE UNCHANGED vars
    BY <1>10, QuietInv DEF vars
  <1> QED
    BY <1>1, <1>2, <1>3, <1>4, <1>5, <1>6, <1>7, <1>8, <1>9, <1>10 DEF Next

\* The context-time index and the records agree in every reachable state,
\* however creations interleave and whichever of them fail.
THEOREM IndexAgrees == Spec => []IndexMatchesUnits
  <1>1. IndexInv => IndexMatchesUnits
    BY DEF IndexInv
  <1> QED BY <1>1, InitIndexInv, InitClock, NextIndexInv, NextClock, PTL DEF Spec

----------------------------------------------------------------------------
\* The iterator

\* s comes before t in the direction of the listing.
Earlier(l, s, t) == IF l.reverse THEN s > t ELSE s < t

\* A set of instants has a first one, and Min finds it.
LEMMA MinIsFirst ==
  ASSUME NEW S \in SUBSET Nat, S # {}
  PROVE  Min(S) \in S /\ \A y \in S : Min(S) <= y
  <1> DEFINE R == OpToRel(<, Nat)
  <1>1. IsWellFoundedOn(R, Nat)
    BY NatLessThanWellFounded
  <1>2. PICK x \in S : \A y \in S : ~(<<y, x>> \in R)
    <2> HIDE DEF R
    <2> QED BY <1>1, WFMin
  <1>3. \A y \in S : ~(y < x)
    BY <1>2 DEF OpToRel
  <1>4. \A y \in S : x <= y
    BY <1>3
  <1> QED BY <1>4 DEF Min

\* A bounded set of instants has a last one, and Max finds it.
LEMMA MaxIsLast ==
  ASSUME NEW n \in Nat, NEW S \in SUBSET (0..n), S # {}
  PROVE  Max(S) \in S /\ \A y \in S : y <= Max(S)
  <1> DEFINE T == {n - i : i \in S}
  <1>1. T \subseteq Nat
    OBVIOUS
  <1>2. T # {}
    <2>1. PICK i \in S : TRUE
      OBVIOUS
    <2>2. n - i \in T
      BY <2>1
    <2> QED BY <2>2
  <1>3. Min(T) \in T /\ \A y \in T : Min(T) <= y
    <2> HIDE DEF T
    <2> QED BY <1>1, <1>2, MinIsFirst
  <1>4. PICK m \in S : Min(T) = n - m
    BY <1>3
  <1>5. \A y \in S : n - y \in T
    OBVIOUS
  <1>6. \A y \in S : n - m <= n - y
    BY <1>3, <1>4, <1>5
  <1>7. \A y \in S : m >= y
    BY <1>6
  <1> QED BY <1>7 DEF Max

\* The parts of a listing.
LEMMA ListingParts ==
  ASSUME NEW l \in Listing
  PROVE  /\ l.stage \in {"call", "iterate", "done"} /\ l.ctx \in Contexts
         /\ l.reverse \in BOOLEAN
         /\ l.cursor \in 0..NoCursor /\ l.count \in 0..Limit
         /\ DOMAIN l.rest \subseteq 0..MaxClock /\ l.rest \in [DOMAIN l.rest -> UnitIds]
         /\ l.got \in Seq((0..MaxClock) \X UnitIds)
         /\ l.start \subseteq UnitIds /\ l.missed \subseteq UnitIds
         /\ l # NoListing
  BY DEF Listing, NoListing

\* The iterator stands at an entry that comes before all the others it has to pass.
LEMMA CurrentIsNext ==
  ASSUME NEW l \in Listing, DOMAIN l.rest # {}
  PROVE  /\ Current(l) \in DOMAIN l.rest
         /\ \A t \in DOMAIN l.rest : t # Current(l) => Earlier(l, Current(l), t)
  <1>1. DOMAIN l.rest \subseteq 0..MaxClock /\ MaxClock \in Nat
    BY ListingParts, WorkUnitSizes
  <1>2. DOMAIN l.rest \in SUBSET Nat
    BY <1>1
  <1> DEFINE S == DOMAIN l.rest
  <1>3. Min(S) \in S /\ \A y \in S : Min(S) <= y
    BY <1>2, MinIsFirst
  <1>4. Max(S) \in S /\ \A y \in S : y <= Max(S)
    BY <1>1, MaxIsLast
  <1>5. CASE l.reverse
    <2>1. Current(l) = Max(S)
      BY <1>5 DEF Current
    <2> HIDE DEF S
    <2>2. \A t \in S : t # Max(S) => Max(S) > t
      BY <1>2, <1>4 DEF S
    <2> QED BY <1>4, <1>5, <2>1, <2>2 DEF Earlier, S
  <1>6. CASE ~l.reverse
    <2>1. Current(l) = Min(S)
      BY <1>6 DEF Current
    <2> HIDE DEF S
    <2>2. \A t \in S : t # Min(S) => Min(S) < t
      BY <1>2, <1>3 DEF S
    <2> QED BY <1>3, <1>6, <2>1, <2>2 DEF Earlier, S
  <1> QED BY <1>5, <1>6


----------------------------------------------------------------------------
\* Types

\* Every instant of a behaviour differs from the cursor of a first page.
LEMMA CursorType == /\ MaxClock \in Nat /\ Limit \in Nat /\ Limit > 0
                    /\ NoCursor \in 0..NoCursor /\ 0..MaxClock \subseteq 0..NoCursor
                    /\ NoCursor \notin 0..MaxClock
  BY WorkUnitSizes DEF NoCursor

\* An iterator without entries.
LEMMA EmptyRest == << >> \in UNION {[T -> UnitIds] : T \in SUBSET (0..MaxClock)}
  <1>1. << >> \in [{} -> UnitIds]
    OBVIOUS
  <1> QED BY <1>1

\* The caches that SetWorkUnit may leave: the unit is there or evicted, another
\* may be evicted, and the limit is kept.
LEMMA SetWorkUnitCache ==
  ASSUME NEW id, IsFiniteSet(cache), Cardinality(cache) <= CacheSize,
         NEW k \in SetWorkUnit(id)
  PROVE  k \subseteq cache \cup {id} /\ IsFiniteSet(k) /\ Cardinality(k) <= CacheSize
  <1> DEFINE full == cache \cup {id}
             n == Cardinality(cache)
  <1>1. IsFiniteSet(full) /\ Cardinality(full) <= n + 1
        /\ n \in Nat /\ Cardinality(full) \in Nat
    <2>1. n \in Nat
      BY FS_CardinalityType
    <2>2. IsFiniteSet(full) /\ Cardinality(full) = IF id \in cache THEN n ELSE n + 1
      BY FS_AddElement
    <2> HIDE DEF full, n
    <2> QED BY <2>1, <2>2
  <1>2. CASE Cardinality(full) <= CacheSize /\ k = full
    BY <1>1, <1>2
  <1>3. CASE ~(Cardinality(full) <= CacheSize) /\ k \in {full \ {d} : d \in full}
    <2>1. PICK d \in full : k = full \ {d}
      BY <1>3
    <2>2. IsFiniteSet(k) /\ Cardinality(k) = Cardinality(full) - 1
      <3> HIDE DEF full
      <3> QED BY <1>1, <2>1, FS_RemoveElement
    <2>3. CacheSize \in Nat
      BY WorkUnitSizes
    <2>4. Cardinality(k) <= CacheSize
      <3> HIDE DEF full, n
      <3> QED BY <1>1, <2>2, <2>3 DEF n
    <2> QED BY <2>1, <2>2, <2>4
  <1> QED BY <1>2, <1>3 DEF SetWorkUnit

\* A creation that is about to cache its unit has committed it.
StoresCommitted ==
    \A p \in Creators : creators[p].stage = "store" => creators[p].id \in DOMAIN units

\* The invariant from which the types follow: the iterator's snapshot holds UUIDs
\* because the index agrees with the records, only committed units are cached, and
\* the cache has a size because it is finite.
TypeInv == IndexInv /\ TypeOK /\ StoresCommitted /\ IsFiniteSet(cache)

\* An index entry names a UUID.
LEMMA IndexEntries ==
  ASSUME TypeInv, NEW k \in DOMAIN index
  PROVE  index[k] \in UnitIds /\ index[k] \in DOMAIN units
  BY DEF TypeInv, IndexInv, IndexMatchesUnits, TypeOK

\* The listing before and after steps that only touch the listing.
LEMMA ListType ==
  ASSUME TypeInv, IndexInv', UNCHANGED <<clock, used, units, index, cache, creators>>,
         list' \in Listing
  PROVE  TypeInv'
  BY DEF TypeInv, TypeOK, StoresCommitted

\* An empty store is well typed.
LEMMA InitType == Init => TypeInv
  <1> SUFFICES ASSUME Init PROVE TypeInv
    OBVIOUS
  <1>1. IndexInv
    BY InitIndexInv
  <1>2. IsFiniteSet({}) /\ Cardinality({}) = 0
    BY FS_EmptySet
  <1>3. clock \in 0..MaxClock /\ 0 <= CacheSize
    BY CursorType, WorkUnitSizes DEF Init
  <1> QED BY <1>1, <1>2, <1>3 DEF Init, TypeInv, TypeOK, StoresCommitted

\* Beginning a listing, a page and the end of a page.
LEMMA ListBeginType ==
  ASSUME TypeInv, IndexInv', NEW c \in Contexts, NEW reverse \in BOOLEAN,
         ListBegin(c, reverse)
  PROVE  TypeInv'
  <1> DEFINE S == {index[<<c, t>>] : t \in Indexed(c)}
             l == [stage |-> "call", ctx |-> c, reverse |-> reverse,
                   cursor |-> NoCursor, count |-> 0, rest |-> << >>, got |-> << >>,
                   start |-> S, missed |-> {}]
  <1>1. S \subseteq UnitIds
    BY IndexEntries DEF Indexed
  <1>2. << >> \in Seq((0..MaxClock) \X UnitIds)
    OBVIOUS
  <1>3. 0 \in 0..Limit
    BY CursorType
  <1>4. l \in Listing
    <2> HIDE DEF S
    <2> QED BY <1>1, <1>2, <1>3, EmptyRest, CursorType DEF Listing
  <1>5. list' = l
    BY DEF ListBegin
  <1> HIDE DEF l
  <1> QED BY <1>4, <1>5, ListType DEF ListBegin

\* The entries from the cursor on are entries of the index.
LEMMA FromType ==
  ASSUME TypeInv, NEW l \in Listing
  PROVE  /\ From(l) \in UNION {[T -> UnitIds] : T \in SUBSET (0..MaxClock)}
         /\ DOMAIN From(l) = {t \in Indexed(l.ctx) : \/ l.cursor = NoCursor
                                                     \/ ~l.reverse /\ t >= l.cursor
                                                     \/ l.reverse /\ t <= l.cursor}
         /\ \A t \in DOMAIN From(l) :
               <<l.ctx, t>> \in DOMAIN index /\ From(l)[t] = index[<<l.ctx, t>>]
  <1> DEFINE D == {t \in Indexed(l.ctx) : \/ l.cursor = NoCursor
                                          \/ ~l.reverse /\ t >= l.cursor
                                          \/ l.reverse /\ t <= l.cursor}
  <1>1. D \subseteq 0..MaxClock /\ \A t \in D : <<l.ctx, t>> \in DOMAIN index
    BY DEF Indexed
  <1>2. From(l) = [t \in D |-> index[<<l.ctx, t>>]]
    BY DEF From
  <1> HIDE DEF D
  <1>3. \A t \in D : index[<<l.ctx, t>>] \in UnitIds
    BY <1>1, IndexEntries
  <1>4. From(l) \in [D -> UnitIds]
    BY <1>2, <1>3
  <1>5. From(l) \in UNION {[T -> UnitIds] : T \in SUBSET (0..MaxClock)}
    BY <1>1, <1>4
  <1>6. DOMAIN From(l) = D /\ \A t \in D : From(l)[t] = index[<<l.ctx, t>>]
    BY <1>2
  <1> QED BY <1>1, <1>5, <1>6 DEF D

\* What beginning a page does to the listing.
LEMMA PageBeginStep ==
  ASSUME TypeInv, PageBegin
  PROVE  /\ list \in Listing /\ list.stage = "call"
         /\ list' \in Listing /\ list'.stage = "iterate"
         /\ list'.rest = From(list) /\ list'.ctx = list.ctx
         /\ list'.reverse = list.reverse /\ list'.got = list.got
         /\ list'.start = list.start /\ list'.missed = list.missed
  <1>1. list \in Listing /\ list.stage = "call"
    BY DEF TypeInv, TypeOK, NoListing, PageBegin
  <1>2. list' = [list EXCEPT !.stage = "iterate", !.rest = From(list), !.count = 0]
    BY DEF PageBegin
  <1>3. From(list) \in UNION {[T -> UnitIds] : T \in SUBSET (0..MaxClock)}
    BY <1>1, FromType
  <1>4. 0 \in 0..Limit
    BY CursorType
  <1> QED BY <1>1, <1>2, <1>3, <1>4 DEF Listing

\* What an iteration does to the listing: the entry is passed, and its unit is
\* on the page or missed.
LEMMA IterateStep ==
  ASSUME TypeInv, Iterate
  PROVE  LET t == Current(list)
             id == list.rest[t]
         IN /\ list \in Listing /\ list.stage = "iterate" /\ DOMAIN list.rest # {}
            /\ id \in UnitIds /\ t \in 0..MaxClock
            /\ list' \in Listing /\ list'.stage = "iterate"
            /\ DOMAIN list'.rest = DOMAIN list.rest \ {t}
            /\ \A s \in DOMAIN list'.rest : list'.rest[s] = list.rest[s]
            /\ list'.ctx = list.ctx /\ list'.reverse = list.reverse
            /\ list'.start = list.start
            /\ \/ list'.got = Append(list.got, <<t, id>>) /\ list'.missed = list.missed
                  /\ cache' = cache
               \/ list'.got = list.got /\ list'.missed = list.missed \cup {id}
                  /\ GetMiss(id)
  <1> DEFINE t == Current(list)
             id == list.rest[t]
             passed == Restrict(list.rest, DOMAIN list.rest \ {t})
  <1>1. list \in Listing /\ list.stage = "iterate" /\ DOMAIN list.rest # {}
        /\ list.count < Limit
    BY DEF TypeInv, TypeOK, NoListing, Iterate, Continues
  <1>2. /\ list.count \in 0..Limit
        /\ DOMAIN list.rest \subseteq 0..MaxClock
        /\ list.rest \in [DOMAIN list.rest -> UnitIds]
        /\ list.got \in Seq((0..MaxClock) \X UnitIds) /\ list.missed \subseteq UnitIds
    BY <1>1, ListingParts
  <1>3. t \in DOMAIN list.rest
    BY <1>1, CurrentIsNext
  <1>4. \/ /\ list' = [list EXCEPT !.rest = passed, !.count = list.count + 1,
                                   !.got = Append(list.got, <<t, id>>)]
           /\ cache' = cache
        \/ /\ list' = [list EXCEPT !.rest = passed, !.missed = list.missed \cup {id}]
           /\ GetMiss(id)
    BY DEF Iterate
  <1> HIDE DEF t
  <1>5. id \in UnitIds /\ t \in 0..MaxClock
    BY <1>2, <1>3
  <1>6. /\ DOMAIN passed = DOMAIN list.rest \ {t}
        /\ \A s \in DOMAIN passed : passed[s] = list.rest[s]
        /\ passed \in [DOMAIN list.rest \ {t} -> UnitIds]
    BY <1>2 DEF Restrict
  <1> HIDE DEF passed, id
  <1>7. passed \in UNION {[T -> UnitIds] : T \in SUBSET (0..MaxClock)}
    <2>1. DOMAIN list.rest \ {t} \in SUBSET (0..MaxClock)
      BY <1>2
    <2> QED BY <1>6, <2>1
  <1>8. Append(list.got, <<t, id>>) \in Seq((0..MaxClock) \X UnitIds)
    BY <1>2, <1>5, AppendProperties
  <1>9. list.count + 1 \in 0..Limit
    BY <1>1, <1>2, CursorType
  <1>10. list.missed \cup {id} \subseteq UnitIds
    BY <1>2, <1>5
  <1>11. /\ list' \in Listing /\ list'.stage = "iterate" /\ list'.rest = passed
         /\ list'.ctx = list.ctx /\ list'.reverse = list.reverse
         /\ list'.start = list.start
         /\ \/ list'.got = Append(list.got, <<t, id>>) /\ list'.missed = list.missed
               /\ cache' = cache
            \/ list'.got = list.got /\ list'.missed = list.missed \cup {id}
               /\ GetMiss(id)
    <2>1. CASE /\ list' = [list EXCEPT !.rest = passed, !.count = list.count + 1,
                                       !.got = Append(list.got, <<t, id>>)]
               /\ cache' = cache
      BY <1>1, <1>7, <1>8, <1>9, <2>1 DEF Listing
    <2>2. CASE /\ list' = [list EXCEPT !.rest = passed, !.missed = list.missed \cup {id}]
               /\ GetMiss(id)
      BY <1>1, <1>7, <1>10, <2>2 DEF Listing
    <2> QED BY <1>4, <2>1, <2>2
  <1> QED BY <1>1, <1>5, <1>6, <1>11 DEF t, id

\* What the end of a page does to the listing: it is over when the iterator has
\* passed every entry, and otherwise goes on from the one it stands at.
LEMMA PageEndStep ==
  ASSUME TypeInv, PageEnd
  PROVE  /\ list \in Listing /\ list.stage = "iterate" /\ list' \in Listing
         /\ list'.ctx = list.ctx /\ list'.reverse = list.reverse /\ list'.got = list.got
         /\ list'.start = list.start /\ list'.missed = list.missed
         /\ \/ list'.stage = "done" /\ DOMAIN list.rest = {}
            \/ /\ list'.stage = "call" /\ DOMAIN list.rest # {}
               /\ list'.cursor = Current(list) /\ list'.cursor # NoCursor
  <1> DEFINE n == NextCursor(list)
             s == IF n = NoCursor THEN "done" ELSE "call"
  <1>1. list \in Listing /\ list.stage = "iterate" /\ ~Continues(list)
    BY DEF TypeInv, TypeOK, NoListing, PageEnd
  <1>2. list' = [list EXCEPT !.cursor = n, !.rest = << >>, !.stage = s]
    BY DEF PageEnd
  <1>3. list.count \in Nat /\ DOMAIN list.rest \subseteq 0..MaxClock
    BY <1>1, ListingParts, CursorType
  <1>4. DOMAIN list.rest = {} \/ list.count >= Limit
    BY <1>1, <1>3, CursorType DEF Continues
  <1>5. CASE DOMAIN list.rest = {}
    <2>1. n = NoCursor
      BY <1>5 DEF NextCursor
    <2> QED BY <1>1, <1>2, <1>5, <2>1, EmptyRest, CursorType DEF Listing
  <1>6. CASE DOMAIN list.rest # {}
    <2>1. n = Current(list)
      BY <1>4, <1>6 DEF NextCursor
    <2>2. n \in 0..MaxClock
      BY <1>1, <1>3, <1>6, <2>1, CurrentIsNext
    <2>3. n \in 0..NoCursor /\ n # NoCursor
      BY <2>2, CursorType
    <2> HIDE DEF n
    <2>4. list' \in Listing /\ list'.stage = "call" /\ list'.cursor = n
          /\ list'.ctx = list.ctx /\ list'.reverse = list.reverse
          /\ list'.got = list.got /\ list'.start = list.start
          /\ list'.missed = list.missed
      BY <1>1, <1>2, <2>3, EmptyRest DEF Listing
    <2> QED BY <1>1, <1>6, <2>1, <2>3, <2>4
  <1> QED BY <1>5, <1>6

\* A step that caches a committed unit.
LEMMA CacheType ==
  ASSUME TypeInv, IndexInv', NEW id \in DOMAIN units, cache' \in SetWorkUnit(id),
         UNCHANGED <<clock, used, units, index>>, StoresCommitted',
         list' \in Listing \cup {NoListing}
  PROVE  TypeInv'
  <1>1. cache' \subseteq cache \cup {id} /\ IsFiniteSet(cache')
        /\ Cardinality(cache') <= CacheSize
    BY SetWorkUnitCache DEF TypeInv, TypeOK
  <1> QED BY <1>1 DEF TypeInv, TypeOK, IndexInv, CreatorsTyped

\* The creations after a step of one of them.
LEMMA CreationsType ==
  ASSUME TypeInv, IndexInv', NEW p \in Creators,
         \/ \E c \in Contexts, id \in UnitIds : Create(p, c, id)
         \/ Commit(p) \/ CommitFails(p) \/ Store(p)
  PROVE  TypeInv'
  <1>0. /\ creators \in [Creators -> Creation \cup {NoCreation}]
        /\ creators[p] \in Creation \cup {NoCreation} /\ IsFiniteSet(cache)
    BY DEF TypeInv, TypeOK
  <1>1. CASE \E c \in Contexts, id \in UnitIds : Create(p, c, id)
    <2>1. PICK c \in Contexts, id \in UnitIds : Create(p, c, id)
      BY <1>1
    <2> DEFINE x == [stage |-> "commit", id |-> id, unit |-> [ctx |-> c, ts |-> clock]]
    <2>2. creators' = [creators EXCEPT ![p] = x] /\ used' = used \cup {id}
          /\ UNCHANGED <<clock, units, index, cache, list>> /\ x.stage = "commit"
      BY <2>1 DEF Create
    <2> HIDE DEF x
    <2>3. StoresCommitted'
      BY <1>0, <2>2 DEF TypeInv, StoresCommitted
    <2> QED BY <2>2, <2>3 DEF TypeInv, TypeOK, IndexInv, CreatorsTyped
  <1>2. CASE Commit(p)
    <2> DEFINE x == creators[p]
               k == <<x.unit.ctx, x.unit.ts>>
    <2>1. x \in Creation /\ x.stage = "commit" /\ x.id \in UnitIds /\ x.unit \in Unit
      BY <1>0, <1>2 DEF Commit, Creation
    <2>2. x.id \in used
      BY <2>1 DEF TypeInv, IndexInv, CreationsAreNew, Owns
    <2>3. /\ units' = With(units, x.id, x.unit) /\ index' = With(index, k, x.id)
          /\ creators' = [creators EXCEPT ![p].stage = "store"]
          /\ UNCHANGED <<clock, used, cache, list>>
      BY <1>2 DEF Commit, ContextTimeKey
    <2>4. k \in Contexts \X (0..MaxClock)
      BY <2>1 DEF Unit
    <2>5. DOMAIN units' = DOMAIN units \cup {x.id}
          /\ \A d \in DOMAIN units' : units'[d] = IF d = x.id THEN x.unit ELSE units[d]
      BY <2>3 DEF With
    <2>6. DOMAIN index' = DOMAIN index \cup {k}
      BY <2>3 DEF With
    <2>7. StoresCommitted'
      <3>1. \A q \in Creators \ {p} : creators'[q] = creators[q]
        BY <1>0, <2>3
      <3>2. creators'[p].id = x.id
        BY <1>0, <2>1, <2>3 DEF Creation
      <3> QED BY <2>5, <3>1, <3>2 DEF TypeInv, StoresCommitted
    <2> HIDE DEF x, k
    <2>8. DOMAIN units' \subseteq used' /\ \A d \in DOMAIN units' : units'[d] \in Unit
      BY <2>1, <2>2, <2>3, <2>5 DEF TypeInv, TypeOK
    <2>9. DOMAIN index' \subseteq Contexts \X (0..MaxClock)
      BY <2>4, <2>6 DEF TypeInv, TypeOK
    <2>10. cache' \subseteq DOMAIN units'
      BY <2>3, <2>5 DEF TypeInv, TypeOK
    <2> QED BY <2>3, <2>7, <2>8, <2>9, <2>10 DEF TypeInv, TypeOK, IndexInv, CreatorsTyped
  <1>3. ASSUME creators' = [creators EXCEPT ![p] = NoCreation], units' = units
        PROVE  StoresCommitted'
    BY <1>0, <1>3 DEF TypeInv, StoresCommitted
  <1>4. CASE CommitFails(p)
    <2>1. StoresCommitted'
      BY <1>3, <1>4 DEF CommitFails
    <2> QED BY <1>4, <2>1 DEF CommitFails, TypeInv, TypeOK, IndexInv, CreatorsTyped
  <1>5. CASE Store(p)
    <2>1. creators[p].id \in DOMAIN units
      BY <1>5 DEF Store, TypeInv, StoresCommitted
    <2>2. StoresCommitted'
      BY <1>3, <1>5 DEF Store
    <2>3. list' \in Listing \cup {NoListing}
      BY <1>5 DEF Store, TypeInv, TypeOK
    <2> QED BY <1>5, <2>1, <2>2, <2>3, CacheType DEF Store
  <1> QED BY <1>1, <1>2, <1>4, <1>5

\* Every step keeps the types.
LEMMA NextType == TypeInv /\ [Next]_vars => TypeInv'
  <1> SUFFICES ASSUME TypeInv, [Next]_vars PROVE TypeInv'
    OBVIOUS
  <1>0. IndexInv'
    BY NextIndexInv DEF TypeInv, TypeOK, ClockOK
  <1>1. CASE Tick
    <2>1. clock' \in 0..MaxClock
      BY <1>1, CursorType DEF Tick, TypeInv, TypeOK
    <2> QED BY <1>0, <1>1, <2>1 DEF Tick, TypeInv, TypeOK, StoresCommitted
  <1>2. ASSUME NEW p \in Creators, NEW c \in Contexts, NEW id \in UnitIds,
               Create(p, c, id)
        PROVE  TypeInv'
    BY <1>0, <1>2, CreationsType
  <1>3. ASSUME NEW p \in Creators, Commit(p) \/ CommitFails(p) \/ Store(p) PROVE TypeInv'
    BY <1>0, <1>3, CreationsType
  <1>4. ASSUME NEW id \in UnitIds, GetWorkUnit(id) PROVE TypeInv'
    <2>1. id \in DOMAIN units /\ cache' \in SetWorkUnit(id)
          /\ UNCHANGED <<clock, used, units, index, creators, list>>
      BY <1>4 DEF GetWorkUnit, GetMiss
    <2>2. StoresCommitted' /\ list' \in Listing \cup {NoListing}
      BY <2>1 DEF TypeInv, TypeOK, StoresCommitted
    <2> QED BY <1>0, <2>1, <2>2, CacheType
  <1>5. ASSUME NEW c \in Contexts, NEW reverse \in BOOLEAN, ListBegin(c, reverse)
        PROVE  TypeInv'
    BY <1>0, <1>5, ListBeginType
  <1>6. CASE PageBegin
    <2>1. list' \in Listing
      BY <1>6, PageBeginStep
    <2> QED BY <1>0, <1>6, <2>1, ListType DEF PageBegin
  <1>7. CASE Iterate
    <2>1. list' \in Listing
          /\ (cache' = cache \/ GetMiss(list.rest[Current(list)]))
      BY <1>7, IterateStep
    <2>2. UNCHANGED <<clock, used, units, index, creators>>
      BY <1>7 DEF Iterate
    <2>3. CASE cache' = cache
      BY <1>0, <2>1, <2>2, <2>3, ListType
    <2>4. CASE GetMiss(list.rest[Current(list)])
      <3>1. StoresCommitted'
        BY <2>2 DEF TypeInv, StoresCommitted
      <3>2. list.rest[Current(list)] \in DOMAIN units
            /\ cache' \in SetWorkUnit(list.rest[Current(list)])
        BY <2>4 DEF GetMiss
      <3> QED BY <1>0, <2>1, <2>2, <3>1, <3>2, CacheType
    <2> QED BY <2>1, <2>3, <2>4
  <1>8. CASE PageEnd
    <2>1. list' \in Listing
      BY <1>8, PageEndStep
    <2> QED BY <1>0, <1>8, <2>1, ListType DEF PageEnd
  <1>9. CASE UNCHANGED vars
    BY <1>0, <1>9 DEF vars, TypeInv, TypeOK, StoresCommitted
  <1> QED
    BY <1>1, <1>2, <1>3, <1>4, <1>5, <1>6, <1>7, <1>8, <1>9 DEF Next

\* The state of the store has its types in every reachable state: in particular
\* only committed units are cached, and never more of them than CacheSize.
THEOREM WorkUnitTypeCorrect == Spec => []TypeOK
  <1>1. TypeInv => TypeOK
    BY DEF TypeInv
  <1> QED BY <1>1, InitType, NextType, PTL DEF Spec

----------------------------------------------------------------------------
\* Listing by pages

\* What the client has is in order, and all of it comes before what the iterator
\* has to pass and before the cursor.
ListOrdered(l) ==
    /\ \A i, j \in 1..Len(l.got) : i < j => Earlier(l, l.got[i][1], l.got[j][1])
    /\ l.stage = "iterate" =>
          \A i \in 1..Len(l.got), t \in DOMAIN l.rest : Earlier(l, l.got[i][1], t)
    /\ l.stage = "call" =>
          \A i \in 1..Len(l.got) :
              l.cursor # NoCursor /\ Earlier(l, l.got[i][1], l.cursor)

\* The client has the unit, or GetWorkUnit failed for it.
Accounted(l, id) ==
    \/ \E i \in 1..Len(l.got) : l.got[i][2] = id
    \/ id \in l.missed

\* The unit id, indexed at t, is still to come.
ToCome(l, id, t) ==
    \/ l.stage = "call" /\ (l.cursor = NoCursor \/ ~Earlier(l, t, l.cursor))
    \/ l.stage = "iterate" /\ t \in DOMAIN l.rest /\ l.rest[t] = id

\* Every unit that the listing began with is accounted for, has lost its index
\* entry or is still to come.
ListCovered(l, recs, ix) ==
    \A id \in l.start :
        /\ id \in DOMAIN recs
        /\ recs[id].ctx = l.ctx
        /\ \/ Accounted(l, id)
           \/ ix[<<l.ctx, recs[id].ts>>] # id
           \/ ToCome(l, id, recs[id].ts)

\* The invariant from which PagesFaithful follows.
ListInv ==
    /\ TypeInv
    /\ list # NoListing => ListOrdered(list) /\ ListCovered(list, units, index)

\* The order of instants is transitive, and the same for two listings in the same
\* direction.
LEMMA EarlierOrder ==
  ASSUME NEW l, NEW m, m.reverse = l.reverse, l.reverse \in BOOLEAN,
         NEW s \in Nat, NEW t \in Nat, NEW u \in Nat
  PROVE  /\ Earlier(m, s, t) <=> Earlier(l, s, t)
         /\ Earlier(l, s, t) /\ ~Earlier(l, u, t) => Earlier(l, s, u)
         /\ Earlier(l, s, t) => ~Earlier(l, t, s)
         /\ ~Earlier(l, s, s)
         /\ ~Earlier(l, u, t) <=> ((~l.reverse /\ u >= t) \/ (l.reverse /\ u <= t))
  <1>1. CASE l.reverse = TRUE
    BY <1>1 DEF Earlier
  <1>2. CASE l.reverse = FALSE
    BY <1>2 DEF Earlier
  <1> QED BY <1>1, <1>2

\* The instants of the units the client has.
LEMMA GotInstants ==
  ASSUME NEW l \in Listing
  PROVE  /\ Len(l.got) \in Nat
         /\ \A i \in 1..Len(l.got) : l.got[i][1] \in Nat /\ l.got[i][1] \in 0..MaxClock
  <1>1. l.got \in Seq((0..MaxClock) \X UnitIds)
    BY ListingParts
  <1>2. \A i \in 1..Len(l.got) : l.got[i] \in (0..MaxClock) \X UnitIds
    BY <1>1, ElementOfSeq
  <1> QED BY <1>1, <1>2, CursorType

\* A step that leaves the listing, the records and the index alone.
LEMMA ListInvUnchanged ==
  ASSUME ListInv, TypeInv', UNCHANGED <<list, units, index>>
  PROVE  ListInv'
  BY DEF ListInv

\* A commit moves no unit that the listing began with: its own UUID is new.  It
\* may take the place of one in the index.
LEMMA ListInvCommit ==
  ASSUME ListInv, TypeInv', NEW p \in Creators, Commit(p)
  PROVE  ListInv'
  <1> DEFINE x == creators[p]
             k == <<x.unit.ctx, x.unit.ts>>
  <1>1. x \in Creation /\ x.stage = "commit" /\ x.id \in UnitIds
    BY DEF ListInv, TypeInv, TypeOK, Commit, Creation
  <1>2. x.id \notin DOMAIN units
    BY <1>1 DEF ListInv, TypeInv, IndexInv, CreationsAreNew, Owns
  <1>3. /\ units' = With(units, x.id, x.unit) /\ index' = With(index, k, x.id)
        /\ list' = list
    BY DEF Commit, ContextTimeKey
  <1> HIDE DEF x
  <1>4. \A d \in DOMAIN units : d \in DOMAIN units' /\ units'[d] = units[d]
    BY <1>2, <1>3 DEF With
  <1>5. \A j \in DOMAIN index : index'[j] = IF j = k THEN x.id ELSE index[j]
    BY <1>3 DEF With
  <1> HIDE DEF k
  <1>6. ASSUME list # NoListing PROVE ListCovered(list, units', index')
    <2> SUFFICES ASSUME NEW id \in list.start
                 PROVE  /\ id \in DOMAIN units'
                        /\ units'[id].ctx = list.ctx
                        /\ \/ Accounted(list, id)
                           \/ index'[<<list.ctx, units'[id].ts>>] # id
                           \/ ToCome(list, id, units'[id].ts)
      BY DEF ListCovered
    <2>1. /\ id \in DOMAIN units /\ units[id].ctx = list.ctx
          /\ \/ Accounted(list, id)
             \/ index[<<list.ctx, units[id].ts>>] # id
             \/ ToCome(list, id, units[id].ts)
      BY <1>6 DEF ListInv, ListCovered
    <2>2. <<list.ctx, units[id].ts>> \in DOMAIN index
      BY <2>1 DEF ListInv, TypeInv, IndexInv, IndexMatchesUnits
    <2>3. index[<<list.ctx, units[id].ts>>] # id
          => index'[<<list.ctx, units[id].ts>>] # id
      BY <1>2, <1>5, <2>1, <2>2
    <2> QED BY <1>4, <2>1, <2>3
  <1> QED BY <1>3, <1>6 DEF ListInv

\* A listing begins with everything to come.
LEMMA ListInvBegin ==
  ASSUME ListInv, TypeInv', NEW c \in Contexts, NEW reverse \in BOOLEAN,
         ListBegin(c, reverse)
  PROVE  ListInv'
  <1>1. /\ list'.stage = "call" /\ list'.ctx = c /\ list'.cursor = NoCursor
        /\ list'.got = << >> /\ list'.start = {index[<<c, t>>] : t \in Indexed(c)}
        /\ UNCHANGED <<units, index>>
    BY DEF ListBegin
  <1>2. Len(list'.got) = 0
    BY <1>1
  <1>3. ListOrdered(list')
    BY <1>1, <1>2 DEF ListOrdered
  <1>4. ASSUME NEW id \in list'.start
        PROVE  id \in DOMAIN units /\ units[id].ctx = c
    <2>1. PICK t \in Indexed(c) : id = index[<<c, t>>]
      BY <1>1, <1>4
    <2>2. <<c, t>> \in DOMAIN index
      BY DEF Indexed
    <2>3. id \in DOMAIN units /\ <<c, t>> = <<units[id].ctx, units[id].ts>>
      BY <2>1, <2>2 DEF ListInv, TypeInv, IndexInv, IndexMatchesUnits
    <2> QED BY <2>3
  <1>5. ListCovered(list', units, index)
    BY <1>1, <1>4 DEF ListCovered, ToCome
  <1> QED BY <1>1, <1>3, <1>5 DEF ListInv

\* The iterator of a page begins at the cursor: what the client has comes before
\* it, and what is still to come does not.
LEMMA ListInvPageBegin ==
  ASSUME ListInv, TypeInv', PageBegin
  PROVE  ListInv'
  <1> DEFINE l == list
             m == list'
  <1>0. TypeInv
    BY DEF ListInv
  <1>1. /\ l \in Listing /\ l.stage = "call" /\ m \in Listing /\ m.stage = "iterate"
        /\ m.rest = From(l) /\ m.ctx = l.ctx /\ m.reverse = l.reverse
        /\ m.got = l.got /\ m.start = l.start /\ m.missed = l.missed
        /\ l # NoListing
    BY <1>0, PageBeginStep, ListingParts
  <1>2. UNCHANGED <<units, index>>
    BY DEF PageBegin
  <1>3. ListOrdered(l) /\ ListCovered(l, units, index)
    BY <1>1 DEF ListInv
  <1>4. l.cursor \in Nat /\ l.reverse \in BOOLEAN
    BY <1>1, ListingParts, CursorType
  <1>5. /\ DOMAIN m.rest = {t \in Indexed(l.ctx) : \/ l.cursor = NoCursor
                                                   \/ ~l.reverse /\ t >= l.cursor
                                                   \/ l.reverse /\ t <= l.cursor}
        /\ \A t \in DOMAIN m.rest : m.rest[t] = index[<<l.ctx, t>>]
    BY <1>0, <1>1, FromType
  <1>6. Indexed(l.ctx) \subseteq Nat
    BY CursorType DEF Indexed
  <1>7. Len(l.got) \in Nat /\ \A i \in 1..Len(l.got) : l.got[i][1] \in Nat
    BY <1>1, GotInstants
  <1> HIDE DEF l, m
  <1>8. ListOrdered(m)
    <2>1. ASSUME NEW i \in 1..Len(l.got), NEW j \in 1..Len(l.got), i < j
          PROVE  Earlier(m, l.got[i][1], l.got[j][1])
      <3>1. Earlier(l, l.got[i][1], l.got[j][1])
        BY <1>3, <2>1 DEF ListOrdered
      <3> QED BY <1>1, <1>4, <1>7, <3>1, EarlierOrder
    <2>2. ASSUME NEW i \in 1..Len(l.got), NEW t \in DOMAIN m.rest
          PROVE  Earlier(m, l.got[i][1], t)
      <3>1. l.cursor # NoCursor /\ Earlier(l, l.got[i][1], l.cursor)
        BY <1>1, <1>3 DEF ListOrdered
      <3>2. t \in Nat /\ ((~l.reverse /\ t >= l.cursor) \/ (l.reverse /\ t <= l.cursor))
        BY <1>5, <1>6, <3>1
      <3>3. ~Earlier(l, t, l.cursor)
        BY <1>4, <3>2, EarlierOrder
      <3>4. Earlier(l, l.got[i][1], t)
        BY <1>4, <1>7, <3>1, <3>2, <3>3, EarlierOrder
      <3> QED BY <1>1, <1>4, <1>7, <3>2, <3>4, EarlierOrder
    <2> QED BY <1>1, <2>1, <2>2 DEF ListOrdered
  <1>9. ListCovered(m, units, index)
    <2> SUFFICES ASSUME NEW id \in l.start
                 PROVE  /\ id \in DOMAIN units
                        /\ units[id].ctx = l.ctx
                        /\ \/ Accounted(m, id)
                           \/ index[<<l.ctx, units[id].ts>>] # id
                           \/ ToCome(m, id, units[id].ts)
      BY <1>1 DEF ListCovered
    <2> DEFINE t == units[id].ts
    <2>1. /\ id \in DOMAIN units /\ units[id].ctx = l.ctx
          /\ \/ Accounted(l, id) \/ index[<<l.ctx, t>>] # id \/ ToCome(l, id, t)
      BY <1>3 DEF ListCovered
    <2>2. t \in 0..MaxClock /\ <<l.ctx, t>> \in DOMAIN index
      BY <1>0, <2>1 DEF TypeInv, TypeOK, Unit, IndexInv, IndexMatchesUnits
    <2>3. t \in Indexed(l.ctx) /\ t \in Nat
      BY <1>6, <2>2 DEF Indexed
    <2> HIDE DEF t
    <2>4. CASE Accounted(l, id)
      BY <1>1, <2>1, <2>4 DEF Accounted, t
    <2>5. CASE index[<<l.ctx, t>>] = id /\ ToCome(l, id, t)
      <3>1. l.cursor = NoCursor \/ ~Earlier(l, t, l.cursor)
        BY <1>1, <2>5 DEF ToCome
      <3>2. \/ l.cursor = NoCursor
            \/ ~l.reverse /\ t >= l.cursor
            \/ l.reverse /\ t <= l.cursor
        BY <1>4, <2>3, <3>1, EarlierOrder
      <3>3. t \in DOMAIN m.rest /\ m.rest[t] = id
        BY <1>5, <2>3, <2>5, <3>2
      <3> QED BY <1>1, <2>1, <3>3 DEF ToCome, t
    <2> QED BY <2>1, <2>4, <2>5 DEF t
  <1> QED BY <1>2, <1>8, <1>9 DEF ListInv, m

\* An iteration passes the entry that comes before all the others.
LEMMA ListInvIterate ==
  ASSUME ListInv, TypeInv', Iterate
  PROVE  ListInv'
  <1> DEFINE l == list
             m == list'
             c == Current(list)
             u == list.rest[c]
             e == <<c, u>>
  <1>0. TypeInv
    BY DEF ListInv
  <1>1. /\ l \in Listing /\ l.stage = "iterate" /\ DOMAIN l.rest # {}
        /\ u \in UnitIds /\ c \in 0..MaxClock
        /\ m \in Listing /\ m.stage = "iterate"
        /\ DOMAIN m.rest = DOMAIN l.rest \ {c}
        /\ \A s \in DOMAIN m.rest : m.rest[s] = l.rest[s]
        /\ m.ctx = l.ctx /\ m.reverse = l.reverse /\ m.start = l.start
        /\ \/ m.got = Append(l.got, e) /\ m.missed = l.missed
           \/ m.got = l.got /\ m.missed = l.missed \cup {u}
    BY <1>0, IterateStep
  <1>2. UNCHANGED <<units, index>>
    BY DEF Iterate
  <1>3. l # NoListing /\ l.reverse \in BOOLEAN
        /\ DOMAIN l.rest \subseteq 0..MaxClock
        /\ l.got \in Seq((0..MaxClock) \X UnitIds)
    BY <1>1, ListingParts
  <1>4. ListOrdered(l) /\ ListCovered(l, units, index)
    BY <1>3 DEF ListInv
  <1>5. c \in DOMAIN l.rest /\ \A t \in DOMAIN l.rest : t # c => Earlier(l, c, t)
    BY <1>1, CurrentIsNext
  <1>6. Len(l.got) \in Nat /\ \A i \in 1..Len(l.got) : l.got[i][1] \in Nat
    BY <1>1, GotInstants
  <1>7. c \in Nat /\ DOMAIN l.rest \subseteq Nat
    BY <1>1, <1>3, CursorType
  <1> DEFINE n == Len(l.got)
  <1>8. u = l.rest[c]
    OBVIOUS
  <1>9. e[1] = c /\ e[2] = u /\ e \in (0..MaxClock) \X UnitIds
    BY <1>1
  <1> HIDE DEF l, m, c, u, e
  <1>10. \/ m.got = l.got
         \/ /\ Len(m.got) = n + 1 /\ m.got[n + 1] = e
            /\ \A i \in 1..n : m.got[i] = l.got[i]
    BY <1>1, <1>3, <1>9, AppendProperties
  <1>11. ListOrdered(m)
    <2>0. \A s, t \in Nat : Earlier(m, s, t) <=> Earlier(l, s, t)
      BY <1>1, <1>3, EarlierOrder
    <2>1. \A i, j \in 1..n : i < j => Earlier(m, l.got[i][1], l.got[j][1])
      BY <1>4, <1>6, <2>0 DEF ListOrdered
    <2>2. \A i \in 1..n, t \in DOMAIN l.rest : Earlier(m, l.got[i][1], t)
      BY <1>1, <1>4, <1>6, <1>7, <2>0 DEF ListOrdered
    <2>3. \A t \in DOMAIN m.rest : Earlier(m, c, t)
      BY <1>1, <1>5, <1>7, <2>0
    <2>4. CASE m.got = l.got
      BY <1>1, <2>1, <2>2, <2>4 DEF ListOrdered
    <2>5. CASE /\ Len(m.got) = n + 1 /\ m.got[n + 1] = e
               /\ \A i \in 1..n : m.got[i] = l.got[i]
      <3> HIDE DEF n
      <3>0. n \in Nat
        BY <1>6 DEF n
      <3>1. ASSUME NEW i \in 1..(n + 1), NEW j \in 1..(n + 1), i < j
            PROVE  Earlier(m, m.got[i][1], m.got[j][1])
        <4>1. i \in 1..n
          BY <3>0, <3>1
        <4>2. CASE j = n + 1
          BY <1>5, <1>9, <2>2, <2>5, <4>1, <4>2
        <4>3. CASE j # n + 1
          <5>1. j \in 1..n
            BY <3>0, <4>3
          <5> QED BY <2>1, <2>5, <3>1, <4>1, <5>1
        <4> QED BY <4>2, <4>3
      <3>2. ASSUME NEW i \in 1..(n + 1), NEW t \in DOMAIN m.rest
            PROVE  Earlier(m, m.got[i][1], t)
        <4>1. CASE i = n + 1
          BY <1>9, <2>3, <2>5, <4>1
        <4>2. CASE i # n + 1
          <5>1. i \in 1..n
            BY <3>0, <4>2
          <5> QED BY <1>1, <2>2, <2>5, <5>1
        <4> QED BY <4>1, <4>2
      <3> QED BY <1>1, <2>5, <3>1, <3>2 DEF ListOrdered
    <2> QED BY <1>10, <2>4, <2>5
  <1>12. Accounted(m, u) /\ \A id : Accounted(l, id) => Accounted(m, id)
    <2> HIDE DEF n
    <2>0. n \in Nat /\ n = Len(l.got) /\ n + 1 \in 1..(n + 1)
          /\ \A i \in 1..n : i \in 1..(n + 1)
      BY <1>6 DEF n
    <2>1. CASE m.got = Append(l.got, e) /\ m.missed = l.missed
      <3>1. /\ Len(m.got) = n + 1 /\ m.got[n + 1] = e
            /\ \A i \in 1..n : m.got[i] = l.got[i]
        BY <1>3, <1>9, <2>0, <2>1, AppendProperties
      <3> QED BY <1>9, <2>0, <2>1, <3>1 DEF Accounted
    <2>2. CASE m.got = l.got /\ m.missed = l.missed \cup {u}
      BY <2>2 DEF Accounted
    <2> QED BY <1>1, <2>1, <2>2
  <1>13. ListCovered(m, units, index)
    <2> SUFFICES ASSUME NEW id \in l.start
                 PROVE  /\ id \in DOMAIN units
                        /\ units[id].ctx = l.ctx
                        /\ \/ Accounted(m, id)
                           \/ index[<<l.ctx, units[id].ts>>] # id
                           \/ ToCome(m, id, units[id].ts)
      BY <1>1 DEF ListCovered
    <2> DEFINE t == units[id].ts
    <2>1. /\ id \in DOMAIN units /\ units[id].ctx = l.ctx
          /\ \/ Accounted(l, id) \/ index[<<l.ctx, t>>] # id \/ ToCome(l, id, t)
      BY <1>4 DEF ListCovered
    <2> HIDE DEF t
    <2>2. CASE ToCome(l, id, t)
      <3>1. t \in DOMAIN l.rest /\ l.rest[t] = id
        BY <1>1, <2>2 DEF ToCome
      <3>2. CASE t = c
        BY <1>8, <1>12, <2>1, <3>1, <3>2
      <3>3. CASE t # c
        BY <1>1, <2>1, <3>1, <3>3 DEF ToCome, t
      <3> QED BY <3>2, <3>3
    <2> QED BY <1>12, <2>1, <2>2 DEF t
  <1> QED BY <1>2, <1>11, <1>13 DEF ListInv, m

\* A page that is full ends with the entry it stands at as cursor, and every other
\* one when the iterator has passed all entries.
LEMMA ListInvPageEnd ==
  ASSUME ListInv, TypeInv', PageEnd
  PROVE  ListInv'
  <1> DEFINE l == list
             m == list'
  <1>0. TypeInv
    BY DEF ListInv
  <1>1. /\ l \in Listing /\ l.stage = "iterate" /\ m \in Listing
        /\ m.ctx = l.ctx /\ m.reverse = l.reverse /\ m.got = l.got
        /\ m.start = l.start /\ m.missed = l.missed
        /\ \/ m.stage = "done" /\ DOMAIN l.rest = {}
           \/ /\ m.stage = "call" /\ DOMAIN l.rest # {}
              /\ m.cursor = Current(l) /\ m.cursor # NoCursor
    BY <1>0, PageEndStep
  <1>2. UNCHANGED <<units, index>>
    BY DEF PageEnd
  <1>3. l # NoListing /\ l.reverse \in BOOLEAN /\ DOMAIN l.rest \subseteq 0..MaxClock
    BY <1>1, ListingParts
  <1>4. ListOrdered(l) /\ ListCovered(l, units, index)
    BY <1>3 DEF ListInv
  <1>5. Len(l.got) \in Nat /\ \A i \in 1..Len(l.got) : l.got[i][1] \in Nat
    BY <1>1, GotInstants
  <1>6. DOMAIN l.rest \subseteq Nat
    BY <1>3, CursorType
  <1> HIDE DEF l, m
  <1>7. \A s, t \in Nat : /\ Earlier(m, s, t) <=> Earlier(l, s, t)
                          /\ Earlier(l, s, t) => ~Earlier(l, t, s)
                          /\ ~Earlier(l, s, s)
    BY <1>1, <1>3, EarlierOrder
  <1>8. \A i, j \in 1..Len(l.got) : i < j => Earlier(m, l.got[i][1], l.got[j][1])
    BY <1>4, <1>5, <1>7 DEF ListOrdered
  <1>9. CASE m.stage = "done" /\ DOMAIN l.rest = {}
    <2>1. ListOrdered(m)
      BY <1>1, <1>8, <1>9 DEF ListOrdered
    <2>2. \A id, t : ~ToCome(l, id, t)
      BY <1>1, <1>9 DEF ToCome
    <2>3. ListCovered(m, units, index)
      BY <1>1, <1>4, <2>2 DEF ListCovered, Accounted
    <2> QED BY <1>2, <2>1, <2>3 DEF ListInv, m
  <1>10. CASE m.stage = "call" /\ DOMAIN l.rest # {}
    <2> DEFINE c == Current(l)
    <2>1. c \in DOMAIN l.rest /\ \A t \in DOMAIN l.rest : t # c => Earlier(l, c, t)
      BY <1>1, <1>10, CurrentIsNext
    <2>2. m.cursor = c /\ c # NoCursor /\ c \in Nat
      BY <1>1, <1>6, <1>10, <2>1
    <2> HIDE DEF c
    <2>3. \A i \in 1..Len(l.got) : Earlier(m, l.got[i][1], c)
      BY <1>1, <1>4, <1>5, <1>7, <2>1, <2>2 DEF ListOrdered
    <2>4. ListOrdered(m)
      BY <1>1, <1>8, <1>10, <2>2, <2>3 DEF ListOrdered
    <2>5. \A t \in DOMAIN l.rest : ~Earlier(m, t, c)
      BY <1>6, <1>7, <2>1, <2>2
    <2>6. \A id, t : ToCome(l, id, t) => ToCome(m, id, t)
      BY <1>1, <1>10, <2>2, <2>5 DEF ToCome
    <2>7. ListCovered(m, units, index)
      BY <1>1, <1>4, <2>6 DEF ListCovered, Accounted
    <2> QED BY <1>2, <2>4, <2>7 DEF ListInv, m
  <1> QED BY <1>1, <1>9, <1>10

\* Every step preserves the invariant of the listing.
LEMMA NextListInv == ListInv /\ [Next]_vars => ListInv'
  <1> SUFFICES ASSUME ListInv, [Next]_vars PROVE ListInv'
    OBVIOUS
  <1>0. TypeInv'
    BY NextType DEF ListInv
  <1>1. CASE Tick
    BY <1>0, <1>1, ListInvUnchanged DEF Tick
  <1>2. ASSUME NEW p \in Creators, NEW c \in Contexts, NEW id \in UnitIds,
               Create(p, c, id)
        PROVE  ListInv'
    BY <1>0, <1>2, ListInvUnchanged DEF Create
  <1>3. ASSUME NEW p \in Creators, Commit(p) PROVE ListInv'
    BY <1>0, <1>3, ListInvCommit
  <1>4. ASSUME NEW p \in Creators, CommitFails(p) \/ Store(p) PROVE ListInv'
    BY <1>0, <1>4, ListInvUnchanged DEF CommitFails, Store
  <1>5. ASSUME NEW id \in UnitIds, GetWorkUnit(id) PROVE ListInv'
    BY <1>0, <1>5, ListInvUnchanged DEF GetWorkUnit
  <1>6. ASSUME NEW c \in Contexts, NEW reverse \in BOOLEAN, ListBegin(c, reverse)
        PROVE  ListInv'
    BY <1>0, <1>6, ListInvBegin
  <1>7. CASE PageBegin
    BY <1>0, <1>7, ListInvPageBegin
  <1>8. CASE Iterate
    BY <1>0, <1>8, ListInvIterate
  <1>9. CASE PageEnd
    BY <1>0, <1>9, ListInvPageEnd
  <1>10. CASE UNCHANGED vars
    BY <1>0, <1>10, ListInvUnchanged DEF vars
  <1> QED
    BY <1>1, <1>2, <1>3, <1>4, <1>5, <1>6, <1>7, <1>8, <1>9, <1>10 DEF Next

\* Listing a context page by page with the cursors of ListWorkUnits gives its
\* units in order and once, whatever is committed between two pages, and a
\* listing that ends leaves out none of those it began with, save the ones
\* GetWorkUnit failed for or another unit of the same instant has displaced.
THEOREM PagesAreFaithful == Spec => []PagesFaithful
  <1>1. Init => ListInv
    BY InitType DEF Init, ListInv
  <1>2. ListInv => PagesFaithful
    <2> SUFFICES ASSUME ListInv PROVE PagesFaithful
      OBVIOUS
    <2>1. PagesInOrder
      BY DEF ListInv, ListOrdered, Earlier, PagesInOrder
    <2>2. PagesComplete
      <3> SUFFICES ASSUME list.stage = "done", NEW id \in list.start
                   PROVE  \/ \E i \in 1..Len(list.got) : list.got[i][2] = id
                          \/ id \in list.missed
                          \/ index[<<units[id].ctx, units[id].ts>>] # id
        BY DEF PagesComplete
      <3>1. list # NoListing
        BY DEF NoListing
      <3> QED BY <3>1 DEF ListInv, ListCovered, Accounted, ToCome
    <2> QED BY <2>1, <2>2 DEF PagesFaithful
  <1> QED BY <1>1, <1>2, NextListInv, PTL DEF Spec

=============================================================================
