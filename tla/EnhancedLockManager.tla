------------------------ MODULE EnhancedLockManager ------------------------
(***************************************************************************)
(* The enhanced lock manager (internal/lockmanager/                        *)
(* lockmanager_enhanced.go): locks with a per-agent index and limit, calls *)
(* that wait for a busy resource, the goroutines that wake them, the sweep *)
(* of expired locks and AcquireMultipleLocks, whose locks are now taken by *)
(* calls that wait while they hold others.                                 *)
(*                                                                         *)
(* m.mu and m.waitingMu are distinct: what one critical section of either  *)
(* does is one action.  A goroutine that only tells storage something has  *)
(* no effect here and is left out; one that rolls back or notifies when    *)
(* its storage call is over is a member of tasks.                          *)
(***************************************************************************)
EXTENDS Integers, FiniteSets, Sequences

CONSTANTS
    Agents,         \* agent IDs
    Resources,      \* resource paths, numbered in the order of sort.Strings
    LockIds,        \* the UUIDs that uuid.New may return
    Calls,          \* bound: calls of AcquireLock or AcquireMultipleLocks at once
    Requests,       \* the resource lists that callers ask for
    TTL,            \* the ttl of every lock, in ticks
    Timeout,        \* config.AcquisitionTimeout, in ticks
    MaxLocks,       \* config.MaxLocksPerAgent
    MaxTasks,       \* bound: goroutines in flight at once
    MaxClock        \* bound: the last instant of a behaviour

VARIABLES
    clock,      \* time.Now()
    locks,      \* m.locks
    agentLocks, \* m.agentLocks: the paths indexed under each agent
    waiting,    \* m.waitingRequests: the call waiting for each resource, if any
    calls,      \* the acquisition calls in progress
    sweep,      \* performCleanup between its read and its write section
    tasks,      \* goroutines: persisting a lock, notifying, granting
    used,       \* the UUIDs generated so far
    claims,     \* the unexpired handles that callers were given and not released
    revoked     \* history: ids of locks dropped because they were not persisted

vars == <<clock, locks, agentLocks, waiting, calls, sweep, tasks, used, claims,
          revoked>>

ASSUME ResourcesAreOrdered == Resources \subseteq Nat
ASSUME NoneIsReserved == "none" \notin Agents \cup Calls \cup LockIds
ASSUME Durations == {TTL, MaxLocks} \subseteq Nat \ {0} /\ {Timeout, MaxTasks, MaxClock} \subseteq Nat
ASSUME RequestsAreLists == Requests \subseteq Seq(Resources) \ {<<>>}

----------------------------------------------------------------------------
Lock == [agent : Agents, expires : Nat, id : LockIds]

NoLock == [agent |-> "none", expires |-> 0, id |-> "none"]

Claim == [resource : Resources, agent : Agents, id : LockIds, expires : Nat]

Handle == [resource : Resources, id : LockIds]

\* try: about to take Head(todo); register: refused, about to wait; wait;
\* retry: woken; leave: about to return, with or without the lock;
\* undo: releasing what was got.  result is what is in resultCh.
Call == [stage : {"try", "register", "wait", "retry", "leave", "undo"},
         agent : Agents, todo : Seq(Resources), got : Seq(Handle),
         result : {"none", "available", "error"}, failed : BOOLEAN,
         deadline : Nat]

NoCall == [stage |-> "none"]

Task == [kind : {"persist"}, resource : Resources, agent : Agents, id : LockIds]
        \cup [kind : {"notify"}, resource : Resources, id : LockIds]
        \cup [kind : {"grant"}, call : Calls \cup {"none"}, resource : Resources,
               agent : Agents]

Sweep == [stage : {"scan", "delete"}, now : Nat,
          expired : SUBSET (Resources \X Agents)]

NoSweep == [stage |-> "none"]

Valid(l) == l # NoLock /\ l.expires > clock

Expired(l, now) == l # NoLock /\ l.expires < now

\* Mutant: the sort is left out.
Unsorted(req) == {req}

\* sort.Strings on a copy of the argument.
Sortings(req) ==
    {s \in [1..Len(req) -> Resources] :
        /\ \A i, j \in 1..Len(req) : i < j => s[i] <= s[j]
        /\ \A r \in Resources : Cardinality({i \in 1..Len(req) : s[i] = r})
                              = Cardinality({i \in 1..Len(req) : req[i] = r})}

\* Goroutines done end and goroutines new start.
Spawn(done, new) ==
    /\ tasks' = (tasks \ done) \cup new
    /\ Cardinality(tasks') <= MaxTasks

Init ==
    /\ clock = 0
    /\ locks = [r \in Resources |-> NoLock]
    /\ agentLocks = [a \in Agents |-> {}]
    /\ waiting = [r \in Resources |-> "none"]
    /\ calls = [c \in Calls |-> NoCall]
    /\ sweep = NoSweep
    /\ tasks = {}
    /\ used = {}
    /\ claims = {}
    /\ revoked = {}

Tick ==
    /\ clock < MaxClock
    /\ clock' = clock + 1
    /\ claims' = {c \in claims : c.expires > clock'}
    /\ UNCHANGED <<locks, agentLocks, waiting, calls, sweep, tasks, used, revoked>>

----------------------------------------------------------------------------
\* tryAcquireLock, one critical section of m.mu

\* The limit is looked at first, even if the lock is the agent's own.
Limited(a) == Cardinality(agentLocks[a]) >= MaxLocks

\* The caller of the handle with this ID sees its expiry move: the handle it
\* was given is the record in the map.  given adds the handle to the claims.
Claims(r, a, id, given) ==
    {c \in claims : c.id # id} \cup
    (IF given \/ \E c \in claims : c.id = id
     THEN {[resource |-> r, agent |-> a, id |-> id, expires |-> clock + TTL]}
     ELSE {})

\* A valid lock of the same agent is extended.
TryExtends(r, a, given) ==
    /\ ~Limited(a)
    /\ Valid(locks[r])
    /\ locks[r].agent = a
    /\ locks' = [locks EXCEPT ![r].expires = clock + TTL]
    /\ claims' = Claims(r, a, locks[r].id, given)
    /\ UNCHANGED <<clock, agentLocks, sweep, used, revoked>>

\* A free or expired lock is taken; nothing is done about the index entry of
\* the agent that held an expired one.
TryCreates(r, a, id, given) ==
    /\ ~Limited(a)
    /\ ~Valid(locks[r])
    /\ id \notin used
    /\ used' = used \cup {id}
    /\ locks' = [locks EXCEPT ![r] =
                     [agent |-> a, expires |-> clock + TTL, id |-> id]]
    /\ agentLocks' = [agentLocks EXCEPT ![a] = @ \cup {r}]
    /\ claims' = Claims(r, a, id, given)
    /\ UNCHANGED <<clock, sweep, revoked>>

Persisting(r, a, id) ==
    [kind |-> "persist", resource |-> r, agent |-> a, id |-> id]

Refused(r, a) == ~Limited(a) /\ Valid(locks[r]) /\ locks[r].agent # a

----------------------------------------------------------------------------
\* AcquireLock and AcquireMultipleLocks

Begin(c, a, req) ==
    /\ calls[c] = NoCall
    /\ \E s \in Sortings(req) :
          calls' = [calls EXCEPT ![c] =
              [stage |-> "try", agent |-> a, todo |-> s, got |-> <<>>,
               result |-> "none", failed |-> FALSE, deadline |-> 0]]
    /\ UNCHANGED <<clock, locks, agentLocks, waiting, sweep, tasks, used, claims,
                   revoked>>

\* The call goes on to stage s; got is extended by the handle with this ID.
Got(c, s, id) ==
    [calls[c] EXCEPT !.stage = s,
        !.got = Append(@, [resource |-> Head(calls[c].todo), id |-> id])]

\* Mutant: the loop runs past the last resource.
ReturnedPastEnd(x, ok) ==
    IF ok THEN [x EXCEPT !.stage = "try", !.todo = Tail(x.todo),
                         !.result = "none", !.failed = FALSE, !.deadline = 0]
    ELSE (IF x.got = <<>> THEN NoCall ELSE [x EXCEPT !.stage = "undo"])

\* What follows AcquireLock of one resource: the next one, the end, or, after
\* an error, the release of the locks acquired so far.
Returned(x, ok) ==
    LET rest == [x EXCEPT !.stage = "try", !.todo = Tail(x.todo),
                          !.result = "none", !.failed = FALSE, !.deadline = 0]
    IN IF ok THEN (IF Len(x.todo) = 1 THEN NoCall ELSE rest)
       ELSE (IF x.got = <<>> THEN NoCall ELSE [x EXCEPT !.stage = "undo"])

\* The call after a successful tryAcquireLock.
Succeeded(c, id) ==
    LET x == Got(c, "leave", id)
    IN IF calls[c].stage = "try" THEN Returned(x, TRUE) ELSE x

\* The call after an error that it does not wait for.
Failed(c) ==
    LET x == [calls[c] EXCEPT !.stage = "leave", !.failed = TRUE]
    IN IF calls[c].stage = "try" THEN Returned(x, FALSE) ELSE x

\* The first tryAcquireLock of AcquireLock, and the one after it was woken.
\* Only the first one waits when another agent holds the lock.
Try(c) ==
    LET x == calls[c]
        a == x.agent
        r == Head(x.todo)
    IN /\ x.stage \in {"try", "retry"}
       /\ \/ /\ TryExtends(r, a, TRUE)
             /\ calls' = [calls EXCEPT ![c] = Succeeded(c, locks[r].id)]
             /\ UNCHANGED tasks
          \/ \E id \in LockIds :
                /\ TryCreates(r, a, id, TRUE)
                /\ calls' = [calls EXCEPT ![c] = Succeeded(c, id)]
                /\ Spawn({}, {Persisting(r, a, id)})
          \/ /\ Refused(r, a)
             /\ calls' = [calls EXCEPT ![c] =
                    IF x.stage = "try" THEN [x EXCEPT !.stage = "register"]
                    ELSE Failed(c)]
             /\ UNCHANGED <<clock, locks, agentLocks, sweep, tasks, used, claims,
                            revoked>>
          \/ /\ Limited(a)
             /\ calls' = [calls EXCEPT ![c] = Failed(c)]
             /\ UNCHANGED <<clock, locks, agentLocks, sweep, tasks, used, claims,
                            revoked>>
       /\ UNCHANGED waiting

\* The request takes the resource's place in waitingRequests, whoever has it.
Register(c) ==
    LET x == calls[c]
    IN /\ x.stage = "register"
       /\ waiting' = [waiting EXCEPT ![Head(x.todo)] = c]
       /\ calls' = [calls EXCEPT ![c] =
                        [x EXCEPT !.stage = "wait", !.deadline = clock + Timeout]]
       /\ UNCHANGED <<clock, locks, agentLocks, sweep, tasks, used, claims, revoked>>

\* case result := <-resultCh
Woken(c) ==
    LET x == calls[c]
    IN /\ x.stage = "wait"
       /\ x.result # "none"
       /\ calls' = [calls EXCEPT ![c] =
              IF x.result = "error"
              THEN [x EXCEPT !.stage = "leave", !.failed = TRUE]
              ELSE [x EXCEPT !.stage = "retry", !.result = "none"]]
       /\ UNCHANGED <<clock, locks, agentLocks, waiting, sweep, tasks, used, claims,
                      revoked>>

\* case <-ctx.Done(): the context of a waiting call ends at any time.
ContextDone(c) ==
    /\ calls[c].stage = "wait"
    /\ calls' = [calls EXCEPT ![c] = [@ EXCEPT !.stage = "leave", !.failed = TRUE]]
    /\ UNCHANGED <<clock, locks, agentLocks, waiting, sweep, tasks, used, claims,
                   revoked>>

\* Mutant: the request stays registered.
LeaveRegistered(c) ==
    LET x == calls[c]
    IN /\ x.stage = "leave"
       /\ calls' = [calls EXCEPT ![c] = Returned(x, ~x.failed)]
       /\ UNCHANGED <<clock, locks, agentLocks, waiting, sweep, tasks, used, claims,
                      revoked>>

\* The deferred clean-up: a request that is still registered is taken out.  A
\* goroutine that is getting the lock for it goes on and answers nobody.
Leave(c) ==
    LET x == calls[c]
        r == Head(x.todo)
    IN /\ x.stage = "leave"
       /\ waiting' = IF waiting[r] = c THEN [waiting EXCEPT ![r] = "none"]
                     ELSE waiting
       /\ calls' = [calls EXCEPT ![c] = Returned(x, ~x.failed)]
       /\ tasks' = {IF t.kind = "grant" /\ t.call = c
                    THEN [t EXCEPT !.call = "none"] ELSE t : t \in tasks}
       /\ UNCHANGED <<clock, locks, agentLocks, sweep, used, claims, revoked>>

----------------------------------------------------------------------------
\* ReleaseLock, ExtendLock

\* Holder and lock ID must match.  The goroutine that tells storage notifies
\* the waiting request at its end, whatever storage answered.
Release(r, a, id) ==
    /\ locks[r] # NoLock
    /\ locks[r].agent = a
    /\ locks[r].id = id
    /\ locks' = [locks EXCEPT ![r] = NoLock]
    /\ agentLocks' = [agentLocks EXCEPT ![a] = @ \ {r}]
    /\ Spawn({}, {[kind |-> "notify", resource |-> r, id |-> id]})
    /\ claims' = {c \in claims : c.id # id}
    /\ UNCHANGED <<clock, waiting, sweep, used, revoked>>

ReleaseLock(r, a, id) == Release(r, a, id) /\ UNCHANGED calls

\* One iteration of the rollback loop of AcquireMultipleLocks, first lock first.
Undo(c) ==
    LET x == calls[c]
        h == Head(x.got)
        l == locks[h.resource]
    IN /\ x.stage = "undo"
       /\ calls' = [calls EXCEPT ![c] =
              IF Len(x.got) = 1 THEN NoCall ELSE [x EXCEPT !.got = Tail(x.got)]]
       /\ \/ Release(h.resource, x.agent, h.id)
          \/ /\ l = NoLock \/ l.agent # x.agent \/ l.id # h.id
             /\ UNCHANGED <<clock, locks, agentLocks, waiting, sweep, tasks, used,
                            claims, revoked>>

\* A lock that has not expired moves its expiry.
ExtendLock(r, a, id) ==
    /\ locks[r] # NoLock
    /\ locks[r].agent = a
    /\ locks[r].id = id
    /\ locks[r].expires >= clock
    /\ locks' = [locks EXCEPT ![r].expires = clock + TTL]
    /\ claims' = Claims(r, a, id, TRUE)
    /\ UNCHANGED <<clock, agentLocks, waiting, calls, sweep, tasks, used, revoked>>

----------------------------------------------------------------------------
\* Goroutines

\* No attempt to persist the lock succeeds: it is removed, if still there.
PersistFailed(t) ==
    LET l == locks[t.resource]
    IN /\ t.kind = "persist"
       /\ tasks' = tasks \ {t}
       /\ \/ /\ l # NoLock
             /\ l.id = t.id
             /\ locks' = [locks EXCEPT ![t.resource] = NoLock]
             /\ agentLocks' = [agentLocks EXCEPT ![t.agent] = @ \ {t.resource}]
             /\ revoked' = revoked \cup {t.id}
          \/ /\ l = NoLock \/ l.id # t.id
             /\ UNCHANGED <<locks, agentLocks, revoked>>
       /\ UNCHANGED <<clock, waiting, calls, sweep, used, claims>>

Persisted(t) ==
    /\ t.kind = "persist"
    /\ tasks' = tasks \ {t}
    /\ UNCHANGED <<clock, locks, agentLocks, waiting, calls, sweep, used, claims,
                   revoked>>

\* notifyWaitingRequests: the one registered request is told to try.
Notify(t) ==
    LET c == waiting[t.resource]
    IN /\ t.kind = "notify"
       /\ tasks' = tasks \ {t}
       /\ \/ /\ c # "none"
             /\ waiting' = [waiting EXCEPT ![t.resource] = "none"]
             /\ calls' = [calls EXCEPT ![c].result = "available"]
          \/ /\ c = "none"
             /\ UNCHANGED <<waiting, calls>>
       /\ UNCHANGED <<clock, locks, agentLocks, sweep, used, claims, revoked>>

\* checkWaitingRequests: requests past their deadline fail; a goroutine is
\* started for each of the others whose resource has no entry in m.locks.  The
\* read sections of m.mu, one per request under waitingMu, are taken together.
CheckWaiting ==
    LET late == {r \in Resources : /\ waiting[r] # "none"
                                   /\ clock > calls[waiting[r]].deadline}
        free == {r \in Resources : waiting[r] # "none" /\ locks[r] = NoLock} \ late
    IN /\ late \cup free # {}
       /\ waiting' = [r \in Resources |-> IF r \in late \cup free THEN "none"
                                          ELSE waiting[r]]
       /\ calls' = [c \in Calls |-> IF \E r \in late : waiting[r] = c
                                    THEN [calls[c] EXCEPT !.result = "error"]
                                    ELSE calls[c]]
       /\ Spawn({}, {[kind |-> "grant", call |-> waiting[r], resource |-> r,
                      agent |-> calls[waiting[r]].agent] : r \in free})
       /\ UNCHANGED <<clock, locks, agentLocks, sweep, used, claims, revoked>>

\* That goroutine's tryAcquireLock; the request gets the outcome if it is
\* still there.  The lock belongs to the agent, and to no caller yet.
Answer(c, result) ==
    calls' = IF c = "none" THEN calls ELSE [calls EXCEPT ![c].result = result]

Grant(t) ==
    LET a == t.agent
        r == t.resource
    IN /\ t.kind = "grant"
       /\ \/ /\ TryExtends(r, a, FALSE)
             /\ Answer(t.call, "available")
             /\ tasks' = tasks \ {t}
          \/ \E id \in LockIds :
                /\ TryCreates(r, a, id, FALSE)
                /\ Answer(t.call, "available")
                /\ Spawn({t}, {Persisting(r, a, id)})
          \/ /\ Refused(r, a) \/ Limited(a)
             /\ Answer(t.call, "error")
             /\ tasks' = tasks \ {t}
             /\ UNCHANGED <<clock, locks, agentLocks, sweep, used, claims, revoked>>
       /\ UNCHANGED waiting

----------------------------------------------------------------------------
\* performCleanup

CleanupBegin ==
    /\ sweep = NoSweep
    /\ sweep' = [stage |-> "scan", now |-> clock, expired |-> {}]
    /\ UNCHANGED <<clock, locks, agentLocks, waiting, calls, tasks, used, claims,
                   revoked>>

\* The read section: expired paths, each with the agent that holds it.
CleanupScan ==
    LET expired == {r \in Resources : Expired(locks[r], sweep.now)}
    IN /\ sweep.stage = "scan"
       /\ sweep' = IF expired = {} THEN NoSweep
                   ELSE [sweep EXCEPT !.stage = "delete",
                            !.expired = {<<r, locks[r].agent>> : r \in expired}]
       /\ UNCHANGED <<clock, locks, agentLocks, waiting, calls, tasks, used, claims,
                      revoked>>

\* Mutant: no second look at the lock before it is deleted.
ExpiredAtScan(r) == \E p \in sweep.expired : p[1] = r /\ locks[r] # NoLock

\* "Double check that it's still expired"
StillExpired(r) ==
    \E p \in sweep.expired : p[1] = r /\ Expired(locks[r], sweep.now)

\* The write section: lock and index entry go, a notification is scheduled.
CleanupDelete ==
    LET gone == {r \in Resources : StillExpired(r)}
    IN /\ sweep.stage = "delete"
       /\ locks' = [r \in Resources |-> IF r \in gone THEN NoLock ELSE locks[r]]
       /\ agentLocks' = [a \in Agents |->
              agentLocks[a] \ {r \in gone : <<r, a>> \in sweep.expired}]
       /\ Spawn({}, {[kind |-> "notify", resource |-> r, id |-> locks[r].id] :
                      r \in gone})
       /\ sweep' = NoSweep
       /\ UNCHANGED <<clock, waiting, calls, used, claims, revoked>>

----------------------------------------------------------------------------
Next ==
    \/ Tick
    \/ \E c \in Calls, a \in Agents, req \in Requests : Begin(c, a, req)
    \/ \E c \in Calls : Try(c) \/ Register(c) \/ Woken(c) \/ ContextDone(c)
                         \/ Leave(c) \/ Undo(c)
    \/ \E r \in Resources, a \in Agents, id \in used :
            ReleaseLock(r, a, id) \/ ExtendLock(r, a, id)
    \/ \E t \in tasks : PersistFailed(t) \/ Persisted(t) \/ Notify(t) \/ Grant(t)
    \/ CheckWaiting
    \/ CleanupBegin
    \/ CleanupScan
    \/ CleanupDelete

Spec == Init /\ [][Next]_vars

----------------------------------------------------------------------------
\* Properties

TypeOK ==
    /\ clock \in Nat
    /\ locks \in [Resources -> Lock \cup {NoLock}]
    /\ agentLocks \in [Agents -> SUBSET Resources]
    /\ waiting \in [Resources -> Calls \cup {"none"}]
    /\ calls \in [Calls -> Call \cup {NoCall}]
    /\ \A c \in Calls : calls[c] = NoCall \/ calls[c].todo # <<>>
    /\ sweep \in Sweep \cup {NoSweep}
    /\ tasks \in SUBSET Task
    /\ used \in SUBSET LockIds
    /\ claims \in SUBSET Claim
    /\ revoked \in SUBSET LockIds

\* A handle that a caller was given, has not released and that has not expired
\* is the lock of its resource, whether the caller got it at once, after waiting
\* or in a multi-lock call, and whatever sweeps, stale handles, extensions and
\* late goroutines do; so two agents never hold the resource.  The exceptions
\* are locks that could not be persisted.
HandleRecorded ==
    \A c \in claims : c.id \notin revoked =>
        locks[c.resource] = [agent |-> c.agent, expires |-> c.expires, id |-> c.id]

\* The index that limits an agent's locks misses none of them, through
\* takeovers of expired locks, sweeps with stale agents, and rollbacks.
IndexCoversLocks ==
    \A r \in Resources : locks[r] # NoLock => r \in agentLocks[locks[r].agent]

\* Handles, locks and the index of the agents' locks agree after acquisitions,
\* takeovers, releases, extensions, sweeps and rollbacks.
LocksCoherent == HandleRecorded /\ IndexCoversLocks

\* AcquireMultipleLocks waits while it holds locks; thanks to the order it
\* takes them in, two calls never wait for each other.
NoCircularWait ==
    \A c, d \in Calls :
        LET WaitsFor(x, y) ==
                /\ calls[x].stage = "wait"
                /\ \E i \in DOMAIN calls[y].got :
                      LET h == calls[y].got[i]
                      IN /\ h.resource = Head(calls[x].todo)
                         /\ locks[h.resource].id = h.id
        IN calls[c].stage = "wait" /\ calls[d].stage = "wait" /\ c # d =>
               ~(WaitsFor(c, d) /\ WaitsFor(d, c))

\* A registered request is one that is still waiting, for that resource: no
\* notification is spent on a call that has returned.
RegisteredWaits ==
    \A r \in Resources : waiting[r] # "none" =>
        /\ calls[waiting[r]].stage \in {"wait", "leave"}
        /\ Head(calls[waiting[r]].todo) = r
        /\ calls[waiting[r]].result = "none"
=============================================================================
