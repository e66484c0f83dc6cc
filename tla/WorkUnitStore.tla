--------------------------- MODULE WorkUnitStore ---------------------------
(***************************************************************************)
(* Work units in the Badger storage (internal/storage/badger/storage.go):  *)
(* CreateWorkUnit with its record and its entry in the context-time index, *)
(* GetWorkUnit with the cache, and a client that lists a context page by   *)
(* page with the cursors of ListWorkUnits while units are created.         *)
(*                                                                         *)
(* A unit gets its timestamp when its creation begins and its place in the *)
(* index when it is committed.  A page is read from one Badger snapshot;   *)
(* the units on it are fetched one at a time with GetWorkUnit.  Units do   *)
(* not change, so the cache is the set of IDs that are in it.  Keys of the *)
(* index are pairs: context IDs with ":" in them, which may have prefixes  *)
(* in common, are left out.  The log is in StorageWAL, the event stream in *)
(* Router.                                                                 *)
(***************************************************************************)
EXTENDS Naturals, Sequences, FiniteSets, FiniteSetsExt, Functions

CONSTANTS
    Contexts,      \* context IDs
    UnitIds,       \* the UUIDs that uuid.New may return
    Creators,      \* bound: calls of CreateWorkUnit at once
    CacheSize,     \* config.WorkUnitCacheSize
    Limit,         \* the limit of units per page
    MaxClock,      \* bound: the last instant of a behaviour
    CommitErrors   \* whether a Badger commit may fail

VARIABLES
    clock,     \* time.Now()
    used,      \* the UUIDs generated so far
    units,     \* the records in Badger: context and timestamp of each ID
    index,     \* the context-time index: the ID under each <<context, timestamp>>
    cache,     \* the IDs of the cached work units
    creators,  \* the calls of CreateWorkUnit in progress
    list       \* the client that lists a context

vars == <<clock, used, units, index, cache, creators, list>>

ASSUME WorkUnitSizes == {CacheSize, Limit} \subseteq Nat \ {0} /\ MaxClock \in Nat
ASSUME WorkUnitSwitch == CommitErrors \in BOOLEAN

----------------------------------------------------------------------------
Unit == [ctx : Contexts, ts : 0..MaxClock]

Creation == [stage : {"commit", "store"}, id : UnitIds, unit : Unit]

NoCreation == [stage |-> "none"]

\* The cursor of a first page, and of a page that has no successor.
NoCursor == MaxClock + 1

\* rest: the index entries of the snapshot that the iterator has not passed;
\* count: the units on the page so far; got: the timestamp and ID of those on all
\* pages.  History: start are the units indexed when the listing began, missed
\* those that GetWorkUnit did not return.
Listing == [stage : {"call", "iterate", "done"}, ctx : Contexts, reverse : BOOLEAN,
            cursor : 0..NoCursor, count : 0..Limit,
            rest : UNION {[T -> UnitIds] : T \in SUBSET (0..MaxClock)},
            got : Seq((0..MaxClock) \X UnitIds), start : SUBSET UnitIds,
            missed : SUBSET UnitIds]

NoListing == [stage |-> "none"]

Init ==
    /\ clock = 0
    /\ used = {}
    /\ units = << >>
    /\ index = << >>
    /\ cache = {}
    /\ creators = [p \in Creators |-> NoCreation]
    /\ list = NoListing

Tick ==
    /\ clock < MaxClock
    /\ clock' = clock + 1
    /\ UNCHANGED <<used, units, index, cache, creators, list>>

\* Mutant: eviction comes one entry too late.
SetWorkUnitLate(id) ==
    LET full == cache \cup {id}
    IN IF Cardinality(full) <= CacheSize + 1 THEN {full} ELSE {full \ {d} : d \in full}

\* The caches Cache.SetWorkUnit may leave: the unit is entered, and an arbitrary
\* one, this one included, is evicted when there are too many.
SetWorkUnit(id) ==
    LET full == cache \cup {id}
    IN IF Cardinality(full) <= CacheSize THEN {full} ELSE {full \ {d} : d \in full}

----------------------------------------------------------------------------
\* CreateWorkUnit

Create(p, c, id) ==
    /\ creators[p] = NoCreation
    /\ id \notin used
    /\ used' = used \cup {id}
    /\ creators' = [creators EXCEPT ![p] =
           [stage |-> "commit", id |-> id, unit |-> [ctx |-> c, ts |-> clock]]]
    /\ UNCHANGED <<clock, units, index, cache, list>>

\* Mutant: the index has the time of the commit.
IndexKeyNow(u) == <<u.ctx, clock>>

\* makeContextTimeKey
ContextTimeKey(u) == <<u.ctx, u.ts>>

\* The function f with the value v for x.
With(f, x, v) == [y \in DOMAIN f \cup {x} |-> IF y = x THEN v ELSE f[y]]

\* Record and index entry are written in one transaction; the entry of a unit
\* with the same context and timestamp is overwritten.
Commit(p) ==
    LET x == creators[p]
    IN /\ x.stage = "commit"
       /\ units' = With(units, x.id, x.unit)
       /\ index' = With(index, ContextTimeKey(x.unit), x.id)
       /\ creators' = [creators EXCEPT ![p].stage = "store"]
       /\ UNCHANGED <<clock, used, cache, list>>

CommitFails(p) ==
    /\ CommitErrors
    /\ creators[p].stage = "commit"
    /\ creators' = [creators EXCEPT ![p] = NoCreation]
    /\ UNCHANGED <<clock, used, units, index, cache, list>>

\* The unit is offered to the event stream, cached and returned.
Store(p) ==
    /\ creators[p].stage = "store"
    /\ cache' \in SetWorkUnit(creators[p].id)
    /\ creators' = [creators EXCEPT ![p] = NoCreation]
    /\ UNCHANGED <<clock, used, units, index, list>>

----------------------------------------------------------------------------
\* GetWorkUnit of a unit that is not cached reads the record and caches it; it
\* returns an error all the same.  A cached unit changes nothing.
GetMiss(id) ==
    /\ id \in DOMAIN units
    /\ id \notin cache
    /\ cache' \in SetWorkUnit(id)

GetWorkUnit(id) ==
    /\ GetMiss(id)
    /\ UNCHANGED <<clock, used, units, index, creators, list>>

----------------------------------------------------------------------------
\* ListWorkUnits, page by page

Indexed(c) == {t \in 0..MaxClock : <<c, t>> \in DOMAIN index}

ListBegin(c, reverse) ==
    /\ list = NoListing
    /\ list' = [stage |-> "call", ctx |-> c, reverse |-> reverse,
                cursor |-> NoCursor, count |-> 0, rest |-> << >>, got |-> << >>,
                start |-> {index[<<c, t>>] : t \in Indexed(c)}, missed |-> {}]
    /\ UNCHANGED <<clock, used, units, index, cache, creators>>

\* it.Seek: the entries from the cursor on, it included, in the iterator's
\* direction.
From(l) ==
    LET ahead == {t \in Indexed(l.ctx) : \/ l.cursor = NoCursor
                                         \/ ~l.reverse /\ t >= l.cursor
                                         \/ l.reverse /\ t <= l.cursor}
    IN [t \in ahead |-> index[<<l.ctx, t>>]]

PageBegin ==
    /\ list.stage = "call"
    /\ list' = [list EXCEPT !.stage = "iterate", !.rest = From(list), !.count = 0]
    /\ UNCHANGED <<clock, used, units, index, cache, creators>>

\* The key the iterator stands at.
Current(l) == IF l.reverse THEN Max(DOMAIN l.rest) ELSE Min(DOMAIN l.rest)

\* More index entries and room on the page.
Continues(l) == l.stage = "iterate" /\ DOMAIN l.rest # {} /\ l.count < Limit

\* One iteration: the unit is on the page if GetWorkUnit returns it.
Iterate ==
    LET t == Current(list)
        id == list.rest[t]
        passed == Restrict(list.rest, DOMAIN list.rest \ {t})
    IN /\ Continues(list)
       /\ \/ /\ id \in cache
             /\ list' = [list EXCEPT !.rest = passed, !.count = @ + 1,
                                     !.got = Append(@, <<t, id>>)]
             /\ UNCHANGED cache
          \/ /\ GetMiss(id)
             /\ list' = [list EXCEPT !.rest = passed, !.missed = @ \cup {id}]
       /\ UNCHANGED <<clock, used, units, index, creators>>

\* Mutant: the cursor is the key of the last unit on the page.
NextCursorLast(l) ==
    IF l.count >= Limit /\ DOMAIN l.rest # {} THEN l.got[Len(l.got)][1]
    ELSE NoCursor

\* The cursor returned: the key after the last one, if the page is full.
NextCursor(l) ==
    IF l.count >= Limit /\ DOMAIN l.rest # {} THEN Current(l) ELSE NoCursor

\* The page is returned; the client asks for the next one if there is a cursor.
PageEnd ==
    /\ list.stage = "iterate"
    /\ ~Continues(list)
    /\ list' = [list EXCEPT !.cursor = NextCursor(list), !.rest = << >>,
                            !.stage = IF NextCursor(list) = NoCursor THEN "done"
                                      ELSE "call"]
    /\ UNCHANGED <<clock, used, units, index, cache, creators>>

----------------------------------------------------------------------------
Next ==
    \/ Tick
    \/ \E p \in Creators, c \in Contexts, id \in UnitIds : Create(p, c, id)
    \/ \E p \in Creators : Commit(p) \/ CommitFails(p) \/ Store(p)
    \/ \E id \in UnitIds : GetWorkUnit(id)
    \/ \E c \in Contexts, reverse \in BOOLEAN : ListBegin(c, reverse)
    \/ PageBegin \/ Iterate \/ PageEnd

Spec == Init /\ [][Next]_vars

----------------------------------------------------------------------------
\* Properties

TypeOK ==
    /\ clock \in 0..MaxClock
    /\ used \subseteq UnitIds
    /\ DOMAIN units \subseteq used
    /\ \A id \in DOMAIN units : units[id] \in Unit
    /\ DOMAIN index \subseteq Contexts \X (0..MaxClock)
    /\ cache \subseteq DOMAIN units
    /\ Cardinality(cache) <= CacheSize
    /\ creators \in [Creators -> Creation \cup {NoCreation}]
    /\ list \in Listing \cup {NoListing}

\* The index and the records agree, whatever the order in which creations
\* with older and newer timestamps are committed: an entry names a unit with its
\* context and timestamp, and a unit is missing from the index only because
\* another one of the same context and instant has its place.
IndexMatchesUnits ==
    /\ \A k \in DOMAIN index :
          index[k] \in DOMAIN units /\ k = <<units[index[k]].ctx, units[index[k]].ts>>
    /\ \A id \in DOMAIN units :
          <<units[id].ctx, units[id].ts>> \in DOMAIN index

\* The pages a client gets are in chronological order, or its reverse, from one
\* page to the next, and no unit is on two of them, although units with
\* timestamps on both sides of the cursor are committed in between.
PagesInOrder ==
    list # NoListing =>
        \A i, j \in 1..Len(list.got) : i < j =>
            IF list.reverse THEN list.got[i][1] > list.got[j][1]
                            ELSE list.got[i][1] < list.got[j][1]

\* A listing that comes to its end leaves out no unit that was indexed at its
\* beginning, except those GetWorkUnit failed for and those whose index entry
\* another unit has taken.
PagesComplete ==
    list.stage = "done" =>
        \A id \in list.start :
            \/ \E i \in 1..Len(list.got) : list.got[i][2] = id
            \/ id \in list.missed
            \/ index[<<units[id].ctx, units[id].ts>>] # id

\* Listing by pages agrees with the index it began with (ListWorkUnits and its
\* cursor): in order and without repetition, and without omission once it ends.
PagesFaithful == PagesInOrder /\ PagesComplete
=============================================================================
