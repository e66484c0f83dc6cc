---------------------------- MODULE LockManager ----------------------------
(***************************************************************************)
(* The basic lock manager (internal/lockmanager/lockmanager.go): the map   *)
(* resource -> LockHandle guarded by a mutex, the goroutines that mirror   *)
(* it into storage, the two-phase sweep of expired locks, and the          *)
(* AcquireMultipleLocks loop.  Storage is seen through AcquireLock and     *)
(* ReleaseLock of internal/storage/badger/storage.go, which read a record  *)
(* and write it back in two separate steps.                                *)
(*                                                                         *)
(* A critical section of the manager's mutex is one action.  Time is the   *)
(* integer clock; Second of its ticks make one second.                     *)
(***************************************************************************)
EXTENDS Integers, FiniteSets, Sequences

CONSTANTS
    Agents,         \* agent IDs
    Resources,      \* resource paths, numbered in the order of sort.Strings
    LockIds,        \* the UUIDs that uuid.New may return
    Goroutines,     \* bound: storage calls of the manager in flight at once
    TTLs,           \* the ttl arguments callers pass, in ticks
    DefaultTTL,     \* config.DefaultTTL, in ticks
    Second,         \* ticks per second
    MaxClock,       \* bound: the last instant of a behaviour
    MultiRequests,  \* the resource lists passed to AcquireMultipleLocks
    StorageErrors,  \* whether a Badger commit may fail
    Restarts        \* whether the process may be restarted

VARIABLES
    clock,    \* time.Now()
    locks,    \* m.locks: the lock recorded for each resource, or NoLock
    sweep,    \* performCleanup between its read and its write section
    stored,   \* what storage.GetLock answers for each resource
    logged,   \* the records that storage was ever told to log and store
    tasks,    \* the manager's goroutines that call storage
    multi,    \* each agent's AcquireMultipleLocks call in progress
    used,     \* the UUIDs generated so far
    claims,   \* the unexpired handles that callers were given and not released
    revoked   \* history: ids the manager dropped while a caller could hold them

vars == <<clock, locks, sweep, stored, logged, tasks, multi, used, claims, revoked>>

ASSUME ResourcesAssumption == Resources \subseteq Nat
ASSUME AgentsAssumption == "none" \notin Agents \cup LockIds
ASSUME ClockAssumption ==
    /\ MaxClock \in Nat
    /\ Second \in Nat \ {0}
    /\ DefaultTTL \in Nat \ {0}
    /\ TTLs \subseteq Nat
ASSUME MultiAssumption == MultiRequests \subseteq Seq(Resources)
ASSUME SwitchAssumption == StorageErrors \in BOOLEAN /\ Restarts \in BOOLEAN

----------------------------------------------------------------------------
\* Records

Lock == [agent : Agents, expires : Nat, id : LockIds]

NoLock == [agent |-> "none", expires |-> 0, id |-> "none"]

Task == [kind : {"create", "extend", "release"},
         stage : {"call", "store", "failed"},
         resource : Resources, agent : Agents, id : LockIds, ttl : Nat,
         rec : Lock \cup {NoLock}]

NoTask == [kind |-> "none", stage |-> "none"]

Sweep == [stage : {"scan", "delete"}, now : Nat, expired : SUBSET Resources]

NoSweep == [stage |-> "none"]

Claim == [resource : Resources, agent : Agents, id : LockIds, expires : Nat]

Handle == [resource : Resources, id : LockIds]

\* todo: resources still to lock; got: the handles acquired, of which the
\* rollback has released those before position next; blocker: the ID of the
\* lock that caused the rollback.
Multi == [stage : {"acquire", "release"}, todo : Seq(Resources),
          got : Seq(Handle), next : Nat, blocker : SUBSET LockIds, ttl : Nat]

NoMulti == [stage |-> "none"]

\* ExpiresAt.After(now): the lock excludes other agents.
Valid(l) == l # NoLock /\ l.expires > clock

\* ExpiresAt.Before(now): the lock may be swept.
Expired(l, now) == l # NoLock /\ l.expires < now

\* A zero ttl stands for the configured default.
EffectiveTTL(ttl) == IF ttl = 0 THEN DefaultTTL ELSE ttl

\* Storage gets int32(ttl.Seconds()) and turns whole seconds back to a duration.
StoredTTL(ttl) == (ttl \div Second) * Second

\* Manager.GetLock: the recorded lock unless it has expired.
GetLock(r) == IF Expired(locks[r], clock) THEN NoLock ELSE locks[r]

\* Mutant: the sort is left out.
Unsorted(req) == {req}

\* sort.Strings on a copy of the argument; duplicates stay.
Sortings(req) ==
    {s \in [1..Len(req) -> Resources] :
        /\ \A i, j \in 1..Len(req) : i < j => s[i] <= s[j]
        /\ \A r \in Resources : Cardinality({i \in 1..Len(req) : s[i] = r})
                              = Cardinality({i \in 1..Len(req) : req[i] = r})}

----------------------------------------------------------------------------
Init ==
    /\ clock = 0
    /\ locks = [r \in Resources |-> NoLock]
    /\ sweep = NoSweep
    /\ stored = [r \in Resources |-> NoLock]
    /\ logged = [r \in Resources |-> {}]
    /\ tasks = [g \in Goroutines |-> NoTask]
    /\ multi = [a \in Agents |-> NoMulti]
    /\ used = {}
    /\ claims = {}
    /\ revoked = {}

\* Time passes; a handle past its expiry no longer claims anything.
Tick ==
    /\ clock < MaxClock
    /\ clock' = clock + 1
    /\ claims' = {c \in claims : c.expires > clock'}
    /\ UNCHANGED <<locks, sweep, stored, logged, tasks, multi, used, revoked>>

\* go func() { ... }(): a goroutine starts with task t.
Spawn(t) ==
    \E g \in Goroutines :
        /\ tasks[g] = NoTask
        /\ tasks' = [tasks EXCEPT ![g] = t]

\* AcquireLock on a valid lock of the same agent: the handle is extended in
\* place and storage is told asynchronously.
Extend(r, a, ttl) ==
    LET l == locks[r]
        until == clock + EffectiveTTL(ttl)
    IN /\ Valid(l)
       /\ l.agent = a
       /\ locks' = [locks EXCEPT ![r].expires = until]
       /\ claims' = {c \in claims : c.id # l.id} \cup
            {[resource |-> r, agent |-> a, id |-> l.id, expires |-> until]}
       /\ Spawn([kind |-> "extend", stage |-> "call", resource |-> r,
                 agent |-> a, id |-> l.id, ttl |-> EffectiveTTL(ttl),
                 rec |-> NoLock])
       /\ UNCHANGED <<clock, sweep, stored, logged, used, revoked>>

\* AcquireLock on a resource with no lock or an expired one: a new handle with
\* UUID id is recorded in memory and persisted asynchronously.
Create(r, a, ttl, id) ==
    LET until == clock + EffectiveTTL(ttl)
    IN /\ ~Valid(locks[r])
       /\ id \notin used
       /\ used' = used \cup {id}
       /\ locks' = [locks EXCEPT ![r] =
                        [agent |-> a, expires |-> until, id |-> id]]
       /\ claims' = claims \cup
            {[resource |-> r, agent |-> a, id |-> id, expires |-> until]}
       /\ Spawn([kind |-> "create", stage |-> "call", resource |-> r,
                 agent |-> a, id |-> id, ttl |-> EffectiveTTL(ttl),
                 rec |-> NoLock])
       /\ UNCHANGED <<clock, sweep, stored, logged, revoked>>

\* AcquireLock of a single resource.  A valid lock of another agent is an error
\* that changes nothing.
AcquireLock(r, a, ttl) ==
    /\ \/ Extend(r, a, ttl)
       \/ \E id \in LockIds : Create(r, a, ttl, id)
    /\ UNCHANGED multi

\* Mutant: the lock ID is not verified.
ReleaseAnyId(r, a, id) ==
    /\ locks[r] # NoLock
    /\ locks[r].agent = a
    /\ locks' = [locks EXCEPT ![r] = NoLock]
    /\ claims' = {c \in claims : c.id # id}
    /\ Spawn([kind |-> "release", stage |-> "call", resource |-> r,
              agent |-> a, id |-> id, ttl |-> 0, rec |-> NoLock])
    /\ UNCHANGED <<clock, sweep, stored, logged, used, revoked>>

\* Mutant: the lock is released in storage and stays in the map.
ReleaseStorageOnly(r, a, id) ==
    /\ locks[r] # NoLock
    /\ locks[r].agent = a
    /\ locks[r].id = id
    /\ claims' = {c \in claims : c.id # id}
    /\ Spawn([kind |-> "release", stage |-> "call", resource |-> r,
              agent |-> a, id |-> id, ttl |-> 0, rec |-> NoLock])
    /\ UNCHANGED <<clock, locks, sweep, stored, logged, used, revoked>>

\* The critical section of ReleaseLock: holder and lock ID must match; the
\* caller's handle is given up and storage is told asynchronously.
Release(r, a, id) ==
    /\ locks[r] # NoLock
    /\ locks[r].agent = a
    /\ locks[r].id = id
    /\ locks' = [locks EXCEPT ![r] = NoLock]
    /\ claims' = {c \in claims : c.id # id}
    /\ Spawn([kind |-> "release", stage |-> "call", resource |-> r,
              agent |-> a, id |-> id, ttl |-> 0, rec |-> NoLock])
    /\ UNCHANGED <<clock, sweep, stored, logged, used, revoked>>

ReleaseLock(r, a, id) == Release(r, a, id) /\ UNCHANGED multi

----------------------------------------------------------------------------
\* AcquireMultipleLocks

MultiStart(a, req, ttl) ==
    /\ multi[a] = NoMulti
    /\ Len(req) > 0
    /\ \E s \in Sortings(req) :
          multi' = [multi EXCEPT ![a] =
              [stage |-> "acquire", todo |-> s, got |-> <<>>, next |-> 1,
               blocker |-> {}, ttl |-> ttl]]
    /\ UNCHANGED <<clock, locks, sweep, stored, logged, tasks, used, claims, revoked>>

\* Mutant: the loop runs past the last resource.
MultiGotNoReturn(a, r, id) ==
    multi' = [multi EXCEPT ![a] =
        [multi[a] EXCEPT !.todo = Tail(multi[a].todo),
                         !.got = Append(multi[a].got,
                                        [resource |-> r, id |-> id])]]

\* The handle of the next resource is appended to the list of acquired locks;
\* after the last one the call returns.
MultiGot(a, r, id) ==
    LET m == multi[a]
    IN multi' = [multi EXCEPT ![a] =
           IF Len(m.todo) = 1 THEN NoMulti
           ELSE [m EXCEPT !.todo = Tail(m.todo),
                          !.got = Append(m.got, [resource |-> r, id |-> id])]]

MultiAcquire(a) ==
    LET m == multi[a]
        r == Head(m.todo)
    IN /\ m.stage = "acquire"
       /\ \/ Extend(r, a, m.ttl) /\ MultiGot(a, r, locks[r].id)
          \/ \E id \in LockIds : Create(r, a, m.ttl, id) /\ MultiGot(a, r, id)

\* One resource is refused: the locks acquired so far are to be released.
MultiRefused(a) ==
    LET m == multi[a]
        r == Head(m.todo)
    IN /\ m.stage = "acquire"
       /\ Valid(locks[r])
       /\ locks[r].agent # a
       /\ multi' = [multi EXCEPT ![a] =
              IF m.got = <<>> THEN NoMulti
              ELSE [m EXCEPT !.stage = "release", !.next = 1,
                             !.blocker = {locks[r].id}]]
       /\ UNCHANGED <<clock, locks, sweep, stored, logged, tasks, used, claims, revoked>>

\* One iteration of the rollback loop; a ReleaseLock that fails is ignored.
MultiRelease(a) ==
    LET m == multi[a]
        h == m.got[m.next]
        l == locks[h.resource]
    IN /\ m.stage = "release"
       /\ multi' = [multi EXCEPT ![a] =
              IF m.next = Len(m.got) THEN NoMulti
              ELSE [m EXCEPT !.next = m.next + 1]]
       /\ \/ Release(h.resource, a, h.id)
          \/ /\ l = NoLock \/ l.agent # a \/ l.id # h.id
             /\ UNCHANGED <<clock, locks, sweep, stored, logged, tasks, used, claims, revoked>>

----------------------------------------------------------------------------
\* performCleanup reads the clock, collects the expired paths in a read section
\* and deletes in a write section those that are still expired at that instant.

CleanupBegin ==
    /\ sweep = NoSweep
    /\ sweep' = [stage |-> "scan", now |-> clock, expired |-> {}]
    /\ UNCHANGED <<clock, locks, stored, logged, tasks, multi, used, claims, revoked>>

CleanupScan ==
    LET expired == {r \in Resources : Expired(locks[r], sweep.now)}
    IN /\ sweep.stage = "scan"
       /\ sweep' = IF expired = {} THEN NoSweep
                   ELSE [sweep EXCEPT !.stage = "delete", !.expired = expired]
       /\ UNCHANGED <<clock, locks, stored, logged, tasks, multi, used, claims, revoked>>

\* Mutant: the second look is inverted.
NotExpiredAnyMore(r) == r \in sweep.expired /\ ~Expired(locks[r], sweep.now)

StillExpired(r) == r \in sweep.expired /\ Expired(locks[r], sweep.now)

CleanupDelete ==
    /\ sweep.stage = "delete"
    /\ locks' = [r \in Resources |-> IF StillExpired(r) THEN NoLock ELSE locks[r]]
    /\ sweep' = NoSweep
    /\ UNCHANGED <<clock, stored, logged, tasks, multi, used, claims, revoked>>

----------------------------------------------------------------------------
\* The goroutines

Calling(g, kinds, stage) ==
    tasks[g].kind \in kinds /\ tasks[g].stage = stage

\* An error of storage.AcquireLock: only the goroutine of a new lock acts on it.
PersistFailed(g) ==
    tasks' = [tasks EXCEPT ![g] =
        IF tasks[g].kind = "create" THEN [tasks[g] EXCEPT !.stage = "failed"]
        ELSE NoTask]

\* storage.AcquireLock finds a valid lock of another agent.
PersistRefused(g) ==
    LET t == tasks[g]
        e == stored[t.resource]
    IN /\ Calling(g, {"create", "extend"}, "call")
       /\ Valid(e)
       /\ e.agent # t.agent
       /\ PersistFailed(g)
       /\ UNCHANGED <<clock, locks, sweep, stored, logged, multi, used, claims, revoked>>

\* storeLockInternal sends the record to the write-ahead log, ahead of the commit.
StoreBegins(g, rec) ==
    LET t == tasks[g]
    IN /\ tasks' = [tasks EXCEPT ![g] = [t EXCEPT !.stage = "store", !.rec = rec]]
       /\ logged' = [logged EXCEPT ![t.resource] = @ \cup {rec}]

\* storage.AcquireLock finds a valid lock of the same agent and moves the expiry
\* of the record it was handed, which is the one in storage's cache.
PersistExtends(g) ==
    LET t == tasks[g]
        e == stored[t.resource]
        rec == [e EXCEPT !.expires = clock + StoredTTL(t.ttl)]
    IN /\ Calling(g, {"create", "extend"}, "call")
       /\ Valid(e)
       /\ e.agent = t.agent
       /\ stored' = [stored EXCEPT ![t.resource] = rec]
       /\ StoreBegins(g, rec)
       /\ UNCHANGED <<clock, locks, sweep, multi, used, claims, revoked>>

\* storage.AcquireLock finds no valid lock and makes a record with a UUID of
\* its own.
PersistCreates(g) ==
    LET t == tasks[g]
    IN /\ Calling(g, {"create", "extend"}, "call")
       /\ ~Valid(stored[t.resource])
       /\ \E id \in LockIds \ used :
            /\ used' = used \cup {id}
            /\ StoreBegins(g, [agent |-> t.agent, id |-> id,
                               expires |-> clock + StoredTTL(t.ttl)])
       /\ UNCHANGED <<clock, locks, sweep, stored, multi, claims, revoked>>

\* storeLockInternal commits and caches the record.  A cached record with the
\* same id is the same object, already up to date.
PersistStores(g) ==
    LET t == tasks[g]
        e == stored[t.resource]
    IN /\ Calling(g, {"create", "extend"}, "store")
       /\ stored' = IF e # NoLock /\ e.id = t.rec.id THEN stored
                    ELSE [stored EXCEPT ![t.resource] = t.rec]
       /\ tasks' = [tasks EXCEPT ![g] = NoTask]
       /\ UNCHANGED <<clock, locks, sweep, logged, multi, used, claims, revoked>>

\* The Badger transaction of storeLockInternal fails.
PersistError(g) ==
    /\ StorageErrors
    /\ Calling(g, {"create", "extend"}, "store")
    /\ PersistFailed(g)
    /\ UNCHANGED <<clock, locks, sweep, stored, logged, multi, used, claims, revoked>>

\* Mutant: whatever lock the resource has now is removed.
RecordedAnyLock(t) == locks[t.resource] # NoLock

\* "If we can't persist, remove from memory": only while the map still holds
\* this goroutine's lock.  Whoever was given the handle is not told.
Recorded(t) == locks[t.resource] # NoLock /\ locks[t.resource].id = t.id

Rollback(g) ==
    LET t == tasks[g]
    IN /\ Calling(g, {"create"}, "failed")
       /\ tasks' = [tasks EXCEPT ![g] = NoTask]
       /\ locks' = IF Recorded(t) THEN [locks EXCEPT ![t.resource] = NoLock]
                   ELSE locks
       /\ revoked' = IF Recorded(t) THEN revoked \cup {t.id} ELSE revoked
       /\ UNCHANGED <<clock, sweep, stored, logged, multi, used, claims>>

\* storage.ReleaseLock deletes the record when holder and lock ID match it.
StorageRelease(g) ==
    LET t == tasks[g]
        e == stored[t.resource]
    IN /\ Calling(g, {"release"}, "call")
       /\ stored' = IF e # NoLock /\ e.agent = t.agent /\ e.id = t.id
                    THEN [stored EXCEPT ![t.resource] = NoLock]
                    ELSE stored
       /\ tasks' = [tasks EXCEPT ![g] = NoTask]
       /\ UNCHANGED <<clock, locks, sweep, logged, multi, used, claims, revoked>>

StorageStep(g) ==
    \/ PersistRefused(g) \/ PersistExtends(g) \/ PersistCreates(g)
    \/ PersistStores(g) \/ Rollback(g) \/ StorageRelease(g)

----------------------------------------------------------------------------
\* The process is restarted: NewLockManager and loadLocks make an empty map and
\* callers keep their handles.  Storage replays its log, in which releases leave
\* no trace: it may come up with any record it ever was to store, or with none.
Restart ==
    /\ Restarts
    /\ locks' = [r \in Resources |-> NoLock]
    /\ sweep' = NoSweep
    /\ tasks' = [g \in Goroutines |-> NoTask]
    /\ multi' = [a \in Agents |-> NoMulti]
    /\ revoked' = revoked \cup {c.id : c \in claims}
    /\ stored' \in {s \in [Resources -> {NoLock} \cup UNION {logged[r] : r \in Resources}] :
                      \A r \in Resources : s[r] \in {NoLock} \cup logged[r]}
    /\ UNCHANGED <<clock, logged, used, claims>>

Next ==
    \/ Tick
    \/ \E r \in Resources, a \in Agents, ttl \in TTLs : AcquireLock(r, a, ttl)
    \/ \E r \in Resources, a \in Agents, id \in used : ReleaseLock(r, a, id)
    \/ \E a \in Agents, req \in MultiRequests, ttl \in TTLs :
            MultiStart(a, req, ttl)
    \/ \E a \in Agents : MultiAcquire(a) \/ MultiRefused(a) \/ MultiRelease(a)
    \/ CleanupBegin
    \/ CleanupScan
    \/ CleanupDelete
    \/ \E g \in Goroutines : StorageStep(g) \/ PersistError(g)
    \/ Restart

Spec == Init /\ [][Next]_vars

\* The ticker goroutine keeps sweeping and every spawned goroutine keeps
\* running; callers, errors, restarts and the clock owe nothing.
Fairness ==
    /\ WF_vars(CleanupBegin)
    /\ WF_vars(CleanupScan)
    /\ WF_vars(CleanupDelete)
    /\ \A g \in Goroutines : WF_vars(StorageStep(g))

FairSpec == Spec /\ Fairness

----------------------------------------------------------------------------
\* Properties

TypeOK ==
    /\ clock \in Nat
    /\ locks \in [Resources -> Lock \cup {NoLock}]
    /\ sweep \in Sweep \cup {NoSweep}
    /\ stored \in [Resources -> Lock \cup {NoLock}]
    /\ logged \in [Resources -> SUBSET Lock]
    /\ tasks \in [Goroutines -> Task \cup {NoTask}]
    /\ multi \in [Agents -> Multi \cup {NoMulti}]
    /\ \A a \in Agents :
          /\ multi[a].stage = "acquire" => multi[a].todo # <<>>
          /\ multi[a].stage = "release" => multi[a].next \in 1..Len(multi[a].got)
    /\ used \in SUBSET LockIds
    /\ claims \in SUBSET Claim
    /\ revoked \in SUBSET LockIds

\* A handle that a caller was given, has not released and that has not expired
\* is what GetLock answers for its resource, whatever the sweep, stale handles,
\* late goroutines and rollbacks of multi-lock calls do in between; the only
\* exceptions are handles dropped because they could not be persisted or by a
\* restart.
HandleVisible ==
    \A c \in claims : c.id \notin revoked =>
        GetLock(c.resource) =
            [agent |-> c.agent, expires |-> c.expires, id |-> c.id]

\* AcquireLock excludes: two agents with unexpired, unreleased handles of one
\* resource means that the manager dropped one of the two handles.
ExclusiveUnlessRevoked ==
    \A c, d \in claims :
        /\ c.resource = d.resource
        /\ c.id \notin revoked
        /\ d.id \notin revoked
        => c.agent = d.agent

\* The order AcquireMultipleLocks locks in: two calls never roll back because
\* of locks that they took from each other, so one of them gets through.
NoMutualRefusal ==
    \A a, b \in Agents :
        LET Got(x) == {multi[x].got[i].id : i \in DOMAIN multi[x].got}
        IN ~ /\ a # b
             /\ multi[a].stage = "release"
             /\ multi[b].stage = "release"
             /\ multi[a].blocker \subseteq Got(b)
             /\ multi[b].blocker \subseteq Got(a)

\* An AcquireMultipleLocks that fails leaves none of the locks it took: when
\* its rollback loop ends no resource is locked with one of its handles.
MultiAllOrNothing ==
    [][\A a \in Agents :
          multi[a].stage = "release" /\ multi'[a] = NoMulti =>
              \A i \in DOMAIN multi[a].got :
                  LET h == multi[a].got[i] IN locks'[h.resource].id # h.id]_vars

\* The sweep reaches every expired lock: it does not stay in the map.
ExpiredEventuallyCleaned ==
    \A r \in Resources, id \in LockIds :
        (locks[r].id = id /\ locks[r].expires < clock) ~> locks[r].id # id

----------------------------------------------------------------------------
\* What the documents say, and the code does not do

\* docs/lock_manager.md:7: "It ensures that only one agent can access a
\* resource at a time".
MutualExclusion ==
    \A c, d \in claims : c.resource = d.resource => c.agent = d.agent
=============================================================================
