------------------------- MODULE LockManagerProofs -------------------------
(***************************************************************************)
(* Proofs about LockManager, for every set of agents, resources, UUIDs and *)
(* goroutines and every ttl and clock bound.                               *)
(***************************************************************************)
EXTENDS LockManager, SequenceTheorems, TLAPS

USE DEF Lock, NoLock, NoTask, NoSweep, NoMulti

\* NoLock, the absence of an entry in m.locks, is not a lock.
LEMMA NoLockIsNoLock == NoLock \notin Lock
  BY AgentsAssumption

\* The ttl that AcquireLock works with and the one storage is sent are
\* natural numbers.
LEMMA TTLsAreNat ==
  ASSUME NEW ttl \in Nat
  PROVE  EffectiveTTL(ttl) \in Nat /\ StoredTTL(ttl) \in Nat
  <1>1. EffectiveTTL(ttl) \in Nat
    BY ClockAssumption DEF EffectiveTTL
  <1>2. ttl \div Second \in Nat
    BY ClockAssumption
  <1>3. StoredTTL(ttl) \in Nat
    BY <1>2, ClockAssumption DEF StoredTTL
  <1> QED BY <1>1, <1>3

\* A goroutine is started with a task of the given shape.
LEMMA SpawnType ==
  ASSUME TypeOK, NEW t \in Task, Spawn(t)
  PROVE  tasks' \in [Goroutines -> Task \cup {NoTask}]
  BY DEF TypeOK, Spawn

\* Extending a lock (AcquireLock by its holder) preserves the types.
LEMMA ExtendType ==
  ASSUME TypeOK, NEW r \in Resources, NEW a \in Agents, NEW ttl \in Nat,
         Extend(r, a, ttl)
  PROVE  /\ clock' \in Nat
         /\ locks' \in [Resources -> Lock \cup {NoLock}]
         /\ tasks' \in [Goroutines -> Task \cup {NoTask}]
         /\ claims' \in SUBSET Claim
         /\ locks[r] \in Lock
  <1> DEFINE until == clock + EffectiveTTL(ttl)
  <1>0. EffectiveTTL(ttl) \in Nat
    BY TTLsAreNat
  <1>1. until \in Nat
    BY <1>0 DEF TypeOK
  <1>2. locks[r] \in Lock
    BY DEF TypeOK, Extend, Valid
  <1>3. locks' \in [Resources -> Lock \cup {NoLock}]
    BY <1>1, <1>2 DEF TypeOK, Extend
  <1>4. claims' \in SUBSET Claim
    BY <1>1, <1>2 DEF TypeOK, Extend, Claim
  <1>5. [kind |-> "extend", stage |-> "call", resource |-> r, agent |-> a,
         id |-> locks[r].id, ttl |-> EffectiveTTL(ttl), rec |-> NoLock] \in Task
    BY <1>2, <1>0 DEF Task
  <1>6. tasks' \in [Goroutines -> Task \cup {NoTask}]
    BY <1>5, SpawnType DEF Extend
  <1> QED BY <1>2, <1>3, <1>4, <1>6 DEF Extend, TypeOK

\* Creating a lock (AcquireLock on a free resource) preserves the types.
LEMMA CreateType ==
  ASSUME TypeOK, NEW r \in Resources, NEW a \in Agents, NEW ttl \in Nat,
         NEW id \in LockIds, Create(r, a, ttl, id)
  PROVE  /\ clock' \in Nat
         /\ locks' \in [Resources -> Lock \cup {NoLock}]
         /\ tasks' \in [Goroutines -> Task \cup {NoTask}]
         /\ used' \in SUBSET LockIds
         /\ claims' \in SUBSET Claim
  <1> DEFINE until == clock + EffectiveTTL(ttl)
  <1>0. EffectiveTTL(ttl) \in Nat
    BY TTLsAreNat
  <1>1. until \in Nat
    BY <1>0 DEF TypeOK
  <1>2. locks' \in [Resources -> Lock \cup {NoLock}]
    BY <1>1 DEF TypeOK, Create
  <1>3. claims' \in SUBSET Claim
    BY <1>1 DEF TypeOK, Create, Claim
  <1>4. [kind |-> "create", stage |-> "call", resource |-> r, agent |-> a,
         id |-> id, ttl |-> EffectiveTTL(ttl), rec |-> NoLock] \in Task
    BY <1>0 DEF Task
  <1>5. tasks' \in [Goroutines -> Task \cup {NoTask}]
    BY <1>4, SpawnType DEF Create
  <1> QED BY <1>2, <1>3, <1>5 DEF Create, TypeOK

\* Releasing a lock (ReleaseLock, and the rollback loop) preserves the types.
LEMMA ReleaseType ==
  ASSUME TypeOK, NEW r \in Resources, NEW a \in Agents, NEW id,
         Release(r, a, id)
  PROVE  /\ clock' \in Nat
         /\ locks' \in [Resources -> Lock \cup {NoLock}]
         /\ tasks' \in [Goroutines -> Task \cup {NoTask}]
         /\ claims' \in SUBSET Claim
  <1>1. locks[r] \in Lock /\ id \in LockIds
    BY DEF TypeOK, Release
  <1>2. [kind |-> "release", stage |-> "call", resource |-> r, agent |-> a,
         id |-> id, ttl |-> 0, rec |-> NoLock] \in Task
    BY <1>1 DEF Task
  <1>3. tasks' \in [Goroutines -> Task \cup {NoTask}]
    BY <1>2, SpawnType DEF Release
  <1> QED BY <1>3 DEF Release, TypeOK

\* What is left of a list of two or more resources is a list.
LEMMA TailType ==
  ASSUME NEW S, NEW s \in Seq(S), s # <<>>, Len(s) # 1
  PROVE  Tail(s) \in Seq(S) /\ Tail(s) # <<>>
  <1>1. Tail(s) \in Seq(S) /\ Len(Tail(s)) = Len(s) - 1
    BY HeadTailProperties
  <1>2. Len(s) # 0
    BY EmptySeq
  <1>3. Len(Tail(s)) # 0
    BY <1>1, <1>2
  <1> QED BY <1>1, <1>3, EmptySeq

\* The rollback loop of an AcquireMultipleLocks call is within its list of handles.
LEMMA ReleasingType ==
  ASSUME TypeOK, NEW a \in Agents, multi[a].stage = "release"
  PROVE  /\ multi[a] \in Multi
         /\ multi[a].got \in Seq(Handle)
         /\ multi[a].next \in 1..Len(multi[a].got)
  <1>1. multi[a] \in Multi \cup {NoMulti} /\ multi[a].next \in 1..Len(multi[a].got)
    BY DEF TypeOK
  <1>2. multi[a] \in Multi
    BY <1>1 DEF NoMulti
  <1> QED BY <1>1, <1>2 DEF Multi

\* One step of an AcquireMultipleLocks call leaves the call well formed.
LEMMA MultiGotType ==
  ASSUME TypeOK, NEW a \in Agents, NEW r \in Resources, NEW id \in LockIds,
         multi[a].stage = "acquire", MultiGot(a, r, id)
  PROVE  /\ multi' \in [Agents -> Multi \cup {NoMulti}]
         /\ \A b \in Agents :
              /\ multi'[b].stage = "acquire" => multi'[b].todo # <<>>
              /\ multi'[b].stage = "release" =>
                     multi'[b].next \in 1..Len(multi'[b].got)
  <1> DEFINE m == multi[a]
             more == [m EXCEPT !.todo = Tail(m.todo),
                               !.got = Append(m.got, [resource |-> r, id |-> id])]
  <1>1. m \in Multi /\ m.todo \in Seq(Resources) /\ m.todo # <<>>
        /\ m.got \in Seq(Handle)
    BY DEF TypeOK, Multi
  <1>2. [resource |-> r, id |-> id] \in Handle
    BY DEF Handle
  <1>3. Append(m.got, [resource |-> r, id |-> id]) \in Seq(Handle)
    BY <1>1, <1>2
  <1>4. Len(m.todo) # 1 => Tail(m.todo) \in Seq(Resources) /\ Tail(m.todo) # <<>>
    BY <1>1, TailType
  <1>5. Len(m.todo) # 1 => /\ more \in Multi
                           /\ more.stage = "acquire"
                           /\ more.todo # <<>>
    BY <1>1, <1>3, <1>4 DEF Multi
  <1> DEFINE n == IF Len(m.todo) = 1 THEN NoMulti ELSE more
  <1>6. /\ n \in Multi \cup {NoMulti}
        /\ n.stage = "acquire" => n.todo # <<>>
        /\ n.stage # "release"
    BY <1>5
  <1>7. multi' = [multi EXCEPT ![a] = n]
    BY DEF MultiGot
  <1> HIDE DEF n, m
  <1> QED BY <1>6, <1>7 DEF TypeOK

\* A storage call that fails leaves its goroutine well formed.
LEMMA PersistFailedType ==
  ASSUME TypeOK, NEW g \in Goroutines, tasks[g] \in Task, PersistFailed(g)
  PROVE  tasks' \in [Goroutines -> Task \cup {NoTask}]
  BY DEF TypeOK, PersistFailed, Task

\* A goroutine that calls storage has a task.
LEMMA CallingTask ==
  ASSUME TypeOK, NEW g \in Goroutines, NEW stage,
         NEW kinds \in SUBSET {"create", "extend", "release"},
         Calling(g, kinds, stage)
  PROVE  tasks[g] \in Task
  BY DEF TypeOK, Calling

\* A record on its way to storage leaves goroutine and log well typed.
LEMMA StoreBeginsType ==
  ASSUME TypeOK, NEW g \in Goroutines, tasks[g] \in Task, NEW rec \in Lock,
         StoreBegins(g, rec)
  PROVE  /\ tasks' \in [Goroutines -> Task \cup {NoTask}]
         /\ logged' \in [Resources -> SUBSET Lock]
  <1>1. [tasks[g] EXCEPT !.stage = "store", !.rec = rec] \in Task
    BY DEF Task
  <1>2. tasks' \in [Goroutines -> Task \cup {NoTask}]
    BY <1>1 DEF StoreBegins, TypeOK
  <1>3. logged' \in [Resources -> SUBSET Lock]
    BY DEF StoreBegins, TypeOK
  <1> QED BY <1>2, <1>3

\* A new lock manager is well typed.
LEMMA InitType == Init => TypeOK
  BY ClockAssumption DEF Init, TypeOK

\* One storage step of a goroutine preserves the types.
LEMMA StorageStepType ==
  ASSUME TypeOK, NEW g \in Goroutines, StorageStep(g) \/ PersistError(g)
  PROVE  TypeOK'
  <1> DEFINE t == tasks[g]
  <1>1. CASE PersistRefused(g)
    <2>1. t \in Task
      BY <1>1, CallingTask DEF PersistRefused
    <2> QED BY <1>1, <2>1, PersistFailedType DEF PersistRefused, TypeOK
  <1>2. CASE PersistExtends(g)
    <2>1. t \in Task
      BY <1>2, CallingTask DEF PersistExtends
    <2>2. stored[t.resource] \in Lock /\ t.resource \in Resources /\ t.ttl \in Nat
      BY <1>2, <2>1 DEF PersistExtends, Valid, TypeOK, Task
    <2>3. clock + StoredTTL(t.ttl) \in Nat
      <3>1. StoredTTL(t.ttl) \in Nat
        BY <2>2, TTLsAreNat
      <3> QED BY <3>1 DEF TypeOK
    <2> DEFINE rec == [stored[t.resource] EXCEPT !.expires = clock + StoredTTL(t.ttl)]
    <2>4. rec \in Lock
      BY <2>2, <2>3
    <2>5. StoreBegins(g, rec)
      BY <1>2 DEF PersistExtends
    <2>6. stored' \in [Resources -> Lock \cup {NoLock}]
      BY <1>2, <2>2, <2>4 DEF PersistExtends, TypeOK
    <2> HIDE DEF rec
    <2> QED BY <1>2, <2>1, <2>4, <2>5, <2>6, StoreBeginsType
            DEF PersistExtends, TypeOK
  <1>3. CASE PersistCreates(g)
    <2>1. t \in Task
      BY <1>3, CallingTask DEF PersistCreates
    <2>2. clock + StoredTTL(t.ttl) \in Nat
      <3>1. t.ttl \in Nat
        BY <2>1 DEF Task
      <3>2. StoredTTL(t.ttl) \in Nat
        BY <3>1, TTLsAreNat
      <3> QED BY <3>2 DEF TypeOK
    <2> DEFINE rec(id) == [agent |-> t.agent, id |-> id,
                           expires |-> clock + StoredTTL(t.ttl)]
    <2>3. PICK id \in LockIds \ used :
            used' = used \cup {id} /\ StoreBegins(g, rec(id))
      BY <1>3 DEF PersistCreates
    <2>4. rec(id) \in Lock
      BY <2>1, <2>2 DEF Task
    <2> HIDE DEF rec
    <2> QED BY <1>3, <2>1, <2>3, <2>4, StoreBeginsType DEF PersistCreates, TypeOK
  <1>4. CASE PersistStores(g)
    <2>1. t \in Task
      BY <1>4, CallingTask DEF PersistStores
    <2> QED BY <1>4, <2>1 DEF PersistStores, TypeOK, Task
  <1>5. CASE Rollback(g)
    <2>1. t \in Task
      BY <1>5, CallingTask DEF Rollback
    <2> QED BY <1>5, <2>1 DEF Rollback, TypeOK, Task
  <1>6. CASE StorageRelease(g)
    <2>1. t \in Task
      BY <1>6, CallingTask DEF StorageRelease
    <2> QED BY <1>6, <2>1 DEF StorageRelease, TypeOK, Task
  <1>7. CASE PersistError(g)
    <2>1. t \in Task
      BY <1>7, CallingTask DEF PersistError
    <2> QED BY <1>7, <2>1, PersistFailedType DEF PersistError, TypeOK
  <1> QED BY <1>1, <1>2, <1>3, <1>4, <1>5, <1>6, <1>7 DEF StorageStep

\* One step of an AcquireMultipleLocks call preserves the types.
LEMMA MultiStepType ==
  ASSUME TypeOK, NEW a \in Agents,
         MultiAcquire(a) \/ MultiRefused(a) \/ MultiRelease(a)
  PROVE  TypeOK'
  <1> DEFINE m == multi[a]
             r == Head(m.todo)
  <1>1. CASE MultiAcquire(a)
    <2>1. m \in Multi /\ m.todo \in Seq(Resources) /\ m.todo # <<>> /\ m.ttl \in Nat
      BY <1>1 DEF MultiAcquire, TypeOK, Multi
    <2>2. r \in Resources
      BY <2>1
    <2>3. m.stage = "acquire"
      BY <1>1 DEF MultiAcquire
    <2>4. CASE Extend(r, a, m.ttl) /\ MultiGot(a, r, locks[r].id)
      <3>1. locks[r] \in Lock
        BY <2>1, <2>2, <2>4, ExtendType
      <3>2. locks[r].id \in LockIds
        BY <3>1
      <3> QED BY <2>1, <2>2, <2>3, <2>4, <3>2, ExtendType, MultiGotType
              DEF Extend, TypeOK
    <2>5. ASSUME NEW id \in LockIds, Create(r, a, m.ttl, id), MultiGot(a, r, id)
          PROVE  TypeOK'
      BY <2>1, <2>2, <2>3, <2>5, CreateType, MultiGotType DEF Create, TypeOK
    <2> QED BY <1>1, <2>4, <2>5 DEF MultiAcquire
  <1>2. CASE MultiRefused(a)
    <2>1. m \in Multi /\ m.todo \in Seq(Resources) /\ m.todo # <<>>
          /\ m.got \in Seq(Handle)
      BY <1>2 DEF MultiRefused, TypeOK, Multi
    <2>2. locks[r] \in Lock
      BY <1>2, <2>1 DEF MultiRefused, Valid, TypeOK
    <2> DEFINE back == [m EXCEPT !.stage = "release", !.blocker = {locks[r].id},
                                 !.next = 1]
               n == IF m.got = <<>> THEN NoMulti ELSE back
    <2>3. back \in Multi
      BY <2>1, <2>2 DEF Multi
    <2>4. m.got # <<>> => back.next \in 1..Len(back.got) /\ back.stage = "release"
      BY <2>1, <2>3 DEF Multi
    <2>5. /\ n \in Multi \cup {NoMulti}
          /\ n.stage # "acquire"
          /\ n.stage = "release" => n.next \in 1..Len(n.got)
      BY <2>3, <2>4
    <2>6. multi' = [multi EXCEPT ![a] = n]
      BY <1>2 DEF MultiRefused
    <2> HIDE DEF n, m
    <2>7. /\ multi' \in [Agents -> Multi \cup {NoMulti}]
          /\ \A b \in Agents :
              /\ multi'[b].stage = "acquire" => multi'[b].todo # <<>>
              /\ multi'[b].stage = "release" =>
                     multi'[b].next \in 1..Len(multi'[b].got)
      BY <2>5, <2>6 DEF TypeOK
    <2>8. UNCHANGED <<clock, locks, sweep, stored, logged, tasks, used, claims, revoked>>
      BY <1>2 DEF MultiRefused
    <2> QED BY <2>7, <2>8 DEF TypeOK
  <1>3. CASE MultiRelease(a)
    <2>1. m \in Multi /\ m.got \in Seq(Handle) /\ m.next \in 1..Len(m.got)
          /\ m.stage = "release"
      BY <1>3, ReleasingType DEF MultiRelease
    <2> DEFINE h == m.got[m.next]
               n == IF m.next = Len(m.got) THEN NoMulti
                    ELSE [m EXCEPT !.next = m.next + 1]
    <2>2. h \in Handle
      BY <2>1
    <2>3. h.resource \in Resources
      BY <2>2 DEF Handle
    <2>4. /\ n \in Multi \cup {NoMulti}
          /\ n.stage # "acquire"
          /\ n.stage = "release" => n.next \in 1..Len(n.got)
      BY <2>1 DEF Multi
    <2>5. multi' = [multi EXCEPT ![a] = n]
      BY <1>3 DEF MultiRelease
    <2>6. /\ multi' \in [Agents -> Multi \cup {NoMulti}]
          /\ \A b \in Agents :
              /\ multi'[b].stage = "acquire" => multi'[b].todo # <<>>
              /\ multi'[b].stage = "release" =>
                     multi'[b].next \in 1..Len(multi'[b].got)
      <3> HIDE DEF n, m
      <3> QED BY <2>4, <2>5 DEF TypeOK
    <2>7. CASE Release(h.resource, a, h.id)
      <3> HIDE DEF h
      <3>1. /\ clock' \in Nat
            /\ locks' \in [Resources -> Lock \cup {NoLock}]
            /\ tasks' \in [Goroutines -> Task \cup {NoTask}]
            /\ claims' \in SUBSET Claim
        BY <2>3, <2>7, ReleaseType
      <3>2. UNCHANGED <<sweep, stored, logged, used, revoked>>
        BY <2>7 DEF Release
      <3> QED BY <2>6, <3>1, <3>2 DEF TypeOK
    <2>8. CASE UNCHANGED <<clock, locks, sweep, stored, logged, tasks, used, claims,
                            revoked>>
      BY <2>6, <2>8 DEF TypeOK
    <2> QED BY <1>3, <2>7, <2>8 DEF MultiRelease
  <1> QED BY <1>1, <1>2, <1>3


\* Every step preserves the types.
LEMMA NextType == TypeOK /\ [Next]_vars => TypeOK'
  <1> SUFFICES ASSUME TypeOK, [Next]_vars PROVE TypeOK'
    OBVIOUS
  <1>0. \A ttl \in TTLs : ttl \in Nat
    BY ClockAssumption
  <1>1. CASE Tick
    BY <1>1 DEF Tick, TypeOK
  <1>2. ASSUME NEW r \in Resources, NEW a \in Agents, NEW ttl \in TTLs,
               AcquireLock(r, a, ttl)
        PROVE  TypeOK'
    <2>1. CASE Extend(r, a, ttl)
      BY <1>0, <1>2, <2>1, ExtendType DEF AcquireLock, Extend, TypeOK
    <2>2. ASSUME NEW id \in LockIds, Create(r, a, ttl, id) PROVE TypeOK'
      BY <1>0, <1>2, <2>2, CreateType DEF AcquireLock, Create, TypeOK
    <2> QED BY <1>2, <2>1, <2>2 DEF AcquireLock
  <1>3. ASSUME NEW r \in Resources, NEW a \in Agents, NEW id \in used,
               ReleaseLock(r, a, id)
        PROVE  TypeOK'
    <2>1. Release(r, a, id) /\ UNCHANGED multi
      BY <1>3 DEF ReleaseLock
    <2>2. /\ clock' \in Nat
          /\ locks' \in [Resources -> Lock \cup {NoLock}]
          /\ tasks' \in [Goroutines -> Task \cup {NoTask}]
          /\ claims' \in SUBSET Claim
      BY <2>1, ReleaseType
    <2>3. UNCHANGED <<sweep, stored, logged, multi, used, revoked>>
      BY <2>1 DEF Release
    <2> QED BY <2>2, <2>3 DEF TypeOK
  <1>4. ASSUME NEW a \in Agents, NEW req \in MultiRequests, NEW ttl \in TTLs,
               MultiStart(a, req, ttl)
        PROVE  TypeOK'
    <2>1. PICK s \in Sortings(req) :
            multi' = [multi EXCEPT ![a] =
              [stage |-> "acquire", todo |-> s, got |-> <<>>, next |-> 1,
               blocker |-> {}, ttl |-> ttl]]
      BY <1>4 DEF MultiStart
    <2>2. Len(req) \in Nat \ {0}
      BY <1>4, MultiAssumption DEF MultiStart
    <2>3. s \in [1..Len(req) -> Resources]
      BY DEF Sortings
    <2>4. s \in Seq(Resources) /\ s # <<>>
      BY <2>2, <2>3
    <2> DEFINE n == [stage |-> "acquire", todo |-> s, got |-> <<>>, next |-> 1,
                     blocker |-> {}, ttl |-> ttl]
    <2>5. <<>> \in Seq(Handle)
      BY EmptySeq
    <2>6. n \in Multi /\ n.stage = "acquire" /\ n.todo # <<>>
      BY <1>0, <2>4, <2>5 DEF Multi
    <2> HIDE DEF n
    <2>7. multi' = [multi EXCEPT ![a] = n]
      BY <2>1 DEF n
    <2> QED BY <1>4, <2>6, <2>7 DEF MultiStart, TypeOK
  <1>5. ASSUME NEW a \in Agents,
               MultiAcquire(a) \/ MultiRefused(a) \/ MultiRelease(a)
        PROVE  TypeOK'
    BY <1>5, MultiStepType
  <1>6. CASE CleanupBegin
    BY <1>6 DEF CleanupBegin, TypeOK, Sweep
  <1>7. CASE CleanupScan
    <2> DEFINE expired == {r \in Resources : Expired(locks[r], sweep.now)}
    <2>1. sweep \in Sweep
      BY <1>7 DEF CleanupScan, TypeOK
    <2>2. [sweep EXCEPT !.stage = "delete", !.expired = expired] \in Sweep
      BY <2>1 DEF Sweep
    <2>3. sweep' \in Sweep \cup {NoSweep}
      BY <1>7, <2>2 DEF CleanupScan
    <2> QED BY <1>7, <2>3 DEF CleanupScan, TypeOK
  <1>8. CASE CleanupDelete
    BY <1>8 DEF CleanupDelete, TypeOK
  <1>9. ASSUME NEW g \in Goroutines, StorageStep(g) \/ PersistError(g)
        PROVE  TypeOK'
    BY <1>9, StorageStepType
  <1>10. CASE Restart
    <2>1. ASSUME NEW r \in Resources PROVE logged[r] \subseteq Lock
      BY DEF TypeOK
    <2>2. stored' \in [Resources -> Lock \cup {NoLock}]
      BY <1>10, <2>1 DEF Restart
    <2>3. revoked' \subseteq LockIds
      BY <1>10 DEF Restart, TypeOK, Claim
    <2> QED BY <1>10, <2>2, <2>3 DEF Restart, TypeOK
  <1>11. CASE UNCHANGED vars
    BY <1>11 DEF vars, TypeOK
  <1> QED
    BY <1>1, <1>2, <1>3, <1>4, <1>5, <1>6, <1>7, <1>8, <1>9, <1>10, <1>11 DEF Next

\* Type correctness: every variable of the lock manager keeps its type, a call
\* of AcquireMultipleLocks never runs past its list of resources, and its
\* rollback loop never leaves the list of handles it acquired.
THEOREM TypeCorrect == Spec => []TypeOK
  BY InitType, NextType, PTL DEF Spec

----------------------------------------------------------------------------
\* Mutual exclusion

\* A handle in a caller's hands has not expired: Tick drops the others.
ClaimsLive == \A c \in claims : c.expires > clock

\* The instant a sweep works with is not in the future.
SweepInPast == sweep.stage \in {"scan", "delete"} => sweep.now <= clock

\* An unexpired, unrevoked handle is the lock recorded for its resource.
ClaimRecorded ==
    \A c \in claims : c.id \notin revoked =>
        locks[c.resource] = [agent |-> c.agent, expires |-> c.expires, id |-> c.id]

LockInv == TypeOK /\ ClaimsLive /\ SweepInPast /\ ClaimRecorded

\* A new lock manager satisfies the inductive invariant.
LEMMA InitLockInv == Init => LockInv
  BY InitType DEF Init, LockInv, ClaimsLive, SweepInPast, ClaimRecorded

\* Extending a lock moves its only handle along with it.
LEMMA ExtendInv ==
  ASSUME LockInv, NEW r \in Resources, NEW a \in Agents, NEW ttl \in Nat,
         Extend(r, a, ttl), TypeOK', EffectiveTTL(ttl) > 0
  PROVE  LockInv'
  <1> DEFINE until == clock + EffectiveTTL(ttl)
  <1>0. EffectiveTTL(ttl) \in Nat
    BY TTLsAreNat
  <1>1. until \in Nat /\ until > clock
    BY <1>0 DEF LockInv, TypeOK
  <1>2. locks[r] \in Lock /\ locks'[r] = [locks[r] EXCEPT !.expires = until]
    BY DEF LockInv, TypeOK, Extend, Valid
  <1>3. ClaimsLive'
    BY <1>1 DEF LockInv, ClaimsLive, Extend
  <1>4. ClaimRecorded'
    <2> SUFFICES ASSUME NEW c \in claims', c.id \notin revoked
                 PROVE  locks'[c.resource] =
                          [agent |-> c.agent, expires |-> c.expires, id |-> c.id]
      BY DEF ClaimRecorded, Extend
    <2>1. CASE c = [resource |-> r, agent |-> a, id |-> locks[r].id, expires |-> until]
      BY <1>2, <2>1 DEF Extend
    <2>2. CASE c \in claims /\ c.id # locks[r].id
      <3>1. locks[c.resource] =
              [agent |-> c.agent, expires |-> c.expires, id |-> c.id]
        BY <2>2 DEF LockInv, ClaimRecorded
      <3>2. c.resource # r
        BY <2>2, <3>1
      <3> QED BY <3>1, <3>2, <2>2 DEF Extend, LockInv, TypeOK, Claim
    <2> QED BY <2>1, <2>2 DEF Extend
  <1>5. SweepInPast'
    BY DEF LockInv, SweepInPast, Extend
  <1> QED BY <1>3, <1>4, <1>5 DEF LockInv

\* A lock is only created where no handle in a caller's hands is recorded.
LEMMA CreateInv ==
  ASSUME LockInv, NEW r \in Resources, NEW a \in Agents, NEW ttl \in Nat,
         NEW id \in LockIds, Create(r, a, ttl, id), TypeOK', EffectiveTTL(ttl) > 0
  PROVE  LockInv'
  <1> DEFINE until == clock + EffectiveTTL(ttl)
  <1>0. EffectiveTTL(ttl) \in Nat
    BY TTLsAreNat
  <1>1. until \in Nat /\ until > clock
    BY <1>0 DEF LockInv, TypeOK
  <1>2. ClaimsLive'
    BY <1>1 DEF LockInv, ClaimsLive, Create
  <1>3. ClaimRecorded'
    <2> SUFFICES ASSUME NEW c \in claims', c.id \notin revoked
                 PROVE  locks'[c.resource] =
                          [agent |-> c.agent, expires |-> c.expires, id |-> c.id]
      BY DEF ClaimRecorded, Create
    <2>1. CASE c = [resource |-> r, agent |-> a, id |-> id, expires |-> until]
      BY <2>1 DEF Create, LockInv, TypeOK
    <2>2. CASE c \in claims
      <3>1. locks[c.resource] =
              [agent |-> c.agent, expires |-> c.expires, id |-> c.id]
        BY <2>2 DEF LockInv, ClaimRecorded
      <3>2. c \in Claim /\ c.expires > clock
        BY <2>2 DEF LockInv, TypeOK, ClaimsLive
      <3>3. c.resource # r
        <4> SUFFICES ASSUME c.resource = r PROVE FALSE
          OBVIOUS
        <4>1. locks[r] \in Lock
          BY <3>1, <3>2 DEF Claim
        <4>2. Valid(locks[r])
          BY <3>1, <3>2, <4>1, NoLockIsNoLock DEF Valid
        <4> QED BY <4>2 DEF Create
      <3> QED BY <3>1, <3>2, <3>3 DEF Create, LockInv, TypeOK, Claim
    <2> QED BY <2>1, <2>2 DEF Create
  <1>4. SweepInPast'
    BY DEF LockInv, SweepInPast, Create
  <1> QED BY <1>2, <1>3, <1>4 DEF LockInv

\* A release only removes the lock whose handle the caller gives up.
LEMMA ReleaseInv ==
  ASSUME LockInv, NEW r \in Resources, NEW a \in Agents, NEW id,
         Release(r, a, id), TypeOK'
  PROVE  LockInv'
  <1>1. ClaimsLive'
    BY DEF LockInv, ClaimsLive, Release
  <1>2. ClaimRecorded'
    <2> SUFFICES ASSUME NEW c \in claims', c.id \notin revoked
                 PROVE  locks'[c.resource] =
                          [agent |-> c.agent, expires |-> c.expires, id |-> c.id]
      BY DEF ClaimRecorded, Release
    <2>1. c \in claims /\ c.id # id /\ locks[r].id = id
      BY DEF Release
    <2>2. locks[c.resource] =
              [agent |-> c.agent, expires |-> c.expires, id |-> c.id]
      BY <2>1 DEF LockInv, ClaimRecorded
    <2>3. c.resource # r
      BY <2>1, <2>2
    <2> QED BY <2>1, <2>2, <2>3 DEF Release, LockInv, TypeOK, Claim
  <1>3. SweepInPast'
    BY DEF LockInv, SweepInPast, Release
  <1> QED BY <1>1, <1>2, <1>3 DEF LockInv

\* Steps that leave the clock, the map, the sweep, the handles and the history
\* of revocations alone.
LEMMA QuietInv ==
  ASSUME LockInv, TypeOK', UNCHANGED <<clock, locks, sweep, claims, revoked>>
  PROVE  LockInv'
  BY DEF LockInv, ClaimsLive, SweepInPast, ClaimRecorded

\* Every step preserves the inductive invariant.
LEMMA NextLockInv == LockInv /\ [Next]_vars => LockInv'
  <1> SUFFICES ASSUME LockInv, [Next]_vars PROVE LockInv'
    OBVIOUS
  <1> TypeOK /\ TypeOK'
    BY NextType DEF LockInv
  <1>0. \A ttl \in TTLs : ttl \in Nat
    BY ClockAssumption
  <1>a. \A ttl \in Nat : EffectiveTTL(ttl) > 0
    BY ClockAssumption DEF EffectiveTTL
  <1>1. CASE Tick
    <2>1. ClaimsLive' /\ ClaimRecorded'
      BY <1>1 DEF Tick, LockInv, ClaimsLive, ClaimRecorded
    <2>2. SweepInPast'
      BY <1>1 DEF Tick, LockInv, SweepInPast, TypeOK, Sweep
    <2> QED BY <2>1, <2>2 DEF LockInv
  <1>2. ASSUME NEW r \in Resources, NEW a \in Agents, NEW ttl \in TTLs,
               AcquireLock(r, a, ttl)
        PROVE  LockInv'
    BY <1>0, <1>a, <1>2, ExtendInv, CreateInv DEF AcquireLock
  <1>3. ASSUME NEW r \in Resources, NEW a \in Agents, NEW id \in used,
               ReleaseLock(r, a, id)
        PROVE  LockInv'
    BY <1>3, ReleaseInv DEF ReleaseLock
  <1>4. ASSUME NEW a \in Agents, NEW req \in MultiRequests, NEW ttl \in TTLs,
               MultiStart(a, req, ttl)
        PROVE  LockInv'
    BY <1>4, QuietInv DEF MultiStart
  <1>5. ASSUME NEW a \in Agents, MultiAcquire(a) PROVE LockInv'
    <2>1. multi[a].todo \in Seq(Resources) /\ multi[a].todo # <<>>
          /\ multi[a].ttl \in Nat
      BY <1>5 DEF MultiAcquire, TypeOK, Multi
    <2>2. Head(multi[a].todo) \in Resources
      BY <2>1
    <2> QED BY <1>a, <1>5, <2>1, <2>2, ExtendInv, CreateInv DEF MultiAcquire
  <1>6. ASSUME NEW a \in Agents, MultiRefused(a) PROVE LockInv'
    BY <1>6, QuietInv DEF MultiRefused
  <1>7. ASSUME NEW a \in Agents, MultiRelease(a) PROVE LockInv'
    <2>1. multi[a].got \in Seq(Handle) /\ multi[a].next \in 1..Len(multi[a].got)
      BY <1>7, ReleasingType DEF MultiRelease
    <2>a. multi[a].got[multi[a].next] \in Handle
      BY <2>1, ElementOfSeq
    <2>2. multi[a].got[multi[a].next].resource \in Resources
      BY <2>a DEF Handle
    <2> DEFINE h == multi[a].got[multi[a].next]
    <2>3. CASE Release(h.resource, a, h.id)
      <3> HIDE DEF h
      <3>1. h.resource \in Resources
        BY <2>2 DEF h
      <3> QED BY <2>3, <3>1, ReleaseInv
    <2>4. CASE UNCHANGED <<clock, locks, sweep, stored, logged, tasks, used, claims,
                            revoked>>
      BY <2>4, QuietInv
    <2> QED BY <1>7, <2>3, <2>4 DEF MultiRelease
  <1>8. CASE CleanupBegin
    BY <1>8 DEF CleanupBegin, LockInv, ClaimsLive, SweepInPast, ClaimRecorded, TypeOK
  <1>9. CASE CleanupScan
    <2>1. ClaimsLive' /\ ClaimRecorded'
      BY <1>9 DEF CleanupScan, LockInv, ClaimsLive, ClaimRecorded
    <2>2. SweepInPast'
      BY <1>9 DEF CleanupScan, LockInv, SweepInPast, TypeOK, Sweep
    <2> QED BY <2>1, <2>2 DEF LockInv
  <1>10. CASE CleanupDelete
    <2>1. ClaimsLive' /\ SweepInPast'
      BY <1>10 DEF CleanupDelete, LockInv, ClaimsLive, SweepInPast
    <2>2. ClaimRecorded'
      <3> SUFFICES ASSUME NEW c \in claims, c.id \notin revoked
                   PROVE  locks'[c.resource] =
                            [agent |-> c.agent, expires |-> c.expires, id |-> c.id]
        BY <1>10 DEF ClaimRecorded, CleanupDelete
      <3>1. locks[c.resource] =
              [agent |-> c.agent, expires |-> c.expires, id |-> c.id]
        BY DEF LockInv, ClaimRecorded
      <3>2. c \in Claim /\ c.expires > clock
        BY DEF TypeOK, LockInv, ClaimsLive
      <3>3. sweep.now \in Nat /\ sweep.now <= clock /\ clock \in Nat
        BY <1>10 DEF CleanupDelete, LockInv, SweepInPast, TypeOK, Sweep
      <3>4. ~StillExpired(c.resource)
        BY <3>1, <3>2, <3>3 DEF StillExpired, Expired, Claim
      <3> QED BY <1>10, <3>1, <3>2, <3>4 DEF CleanupDelete, Claim
    <2> QED BY <2>1, <2>2 DEF LockInv
  <1>11. ASSUME NEW g \in Goroutines, StorageStep(g) \/ PersistError(g)
         PROVE  LockInv'
    <2>1. CASE Rollback(g)
      <3>1. ClaimsLive' /\ SweepInPast'
        BY <2>1 DEF Rollback, LockInv, ClaimsLive, SweepInPast
      <3>2. ClaimRecorded'
        <4> SUFFICES ASSUME NEW c \in claims, c.id \notin revoked'
                     PROVE  locks'[c.resource] =
                              [agent |-> c.agent, expires |-> c.expires, id |-> c.id]
          BY <2>1 DEF ClaimRecorded, Rollback
        <4>1. locks[c.resource] =
                [agent |-> c.agent, expires |-> c.expires, id |-> c.id]
          BY <2>1 DEF Rollback, LockInv, ClaimRecorded
        <4>2. Recorded(tasks[g]) => c.resource # tasks[g].resource
          BY <2>1, <4>1 DEF Rollback, Recorded
        <4> QED BY <2>1, <4>1, <4>2 DEF Rollback, TypeOK, Claim
      <3> QED BY <3>1, <3>2 DEF LockInv
    <2>2. CASE ~Rollback(g)
      BY <1>11, <2>2, QuietInv DEF StorageStep, PersistRefused, PersistExtends,
           PersistCreates, PersistStores, PersistError, StorageRelease
    <2> QED BY <2>1, <2>2
  <1>12. CASE Restart
    <2>1. ClaimsLive' /\ ClaimRecorded' /\ SweepInPast'
      BY <1>12 DEF Restart, LockInv, ClaimsLive, ClaimRecorded, SweepInPast
    <2> QED BY <2>1 DEF LockInv
  <1>13. CASE UNCHANGED vars
    BY <1>13, QuietInv DEF vars
  <1> QED
    BY <1>1, <1>2, <1>3, <1>4, <1>5, <1>6, <1>7, <1>8, <1>9, <1>10, <1>11, <1>12,
       <1>13 DEF Next

\* GetLock answers every handle that is in a caller's hands and was not
\* revoked: no sweep, stale release, multi-lock rollback or late goroutine
\* removes or replaces a lock under its holder.
THEOREM HandlesAreVisible == Spec => []HandleVisible
  <1>1. LockInv => HandleVisible
    BY DEF LockInv, HandleVisible, ClaimRecorded, ClaimsLive, GetLock, Expired,
           TypeOK, Claim
  <1> QED BY <1>1, InitLockInv, NextLockInv, PTL DEF Spec

\* Mutual exclusion of AcquireLock, as far as the code gives it: two agents hold
\* a resource at once only when one of the two handles was revoked.
THEOREM Exclusive == Spec => []ExclusiveUnlessRevoked
  <1>1. LockInv => ExclusiveUnlessRevoked
    <2> SUFFICES ASSUME LockInv, NEW c \in claims, NEW d \in claims,
                        c.resource = d.resource,
                        c.id \notin revoked, d.id \notin revoked
                 PROVE  c.agent = d.agent
      BY DEF ExclusiveUnlessRevoked
    <2>1. locks[c.resource] =
            [agent |-> c.agent, expires |-> c.expires, id |-> c.id]
      BY DEF LockInv, ClaimRecorded
    <2>2. locks[d.resource] =
            [agent |-> d.agent, expires |-> d.expires, id |-> d.id]
      BY DEF LockInv, ClaimRecorded
    <2> QED BY <2>1, <2>2
  <1> QED BY <1>1, InitLockInv, NextLockInv, PTL DEF Spec

----------------------------------------------------------------------------
\* The order of AcquireMultipleLocks

\* With the map lk: resource r is locked with UUID id.
Current(r, id, lk) == lk[r] # NoLock /\ lk[r].id = id

\* A call of AcquireMultipleLocks that is in progress.
Underway(m) == m.stage \in {"acquire", "release"}

\* With the calls mu: some call has a handle of r with UUID id, or was refused r
\* because of the lock with UUID id.
CallRefers(r, id, mu) ==
    \E a \in Agents :
        \/ /\ Underway(mu[a])
           /\ \E k \in DOMAIN mu[a].got : mu[a].got[k].resource = r /\ mu[a].got[k].id = id
        \/ mu[a].stage = "release" /\ id \in mu[a].blocker /\ mu[a].todo[1] = r

Refers(r, id, lk, mu) == Current(r, id, lk) \/ CallRefers(r, id, mu)

\* A UUID stands for one resource, wherever it turns up, and was generated.
IdsKnown ==
    \A id \in LockIds : \A r \in Resources :
        Refers(r, id, locks, multi) =>
            /\ id \in used
            /\ \A s \in Resources : Refers(s, id, locks, multi) => s = r

\* The call m of agent a, with the map lk: the resources still to lock come in
\* order and after those it has; a lock with one of its handles is its own; what
\* its rollback has passed is no longer recorded; nor is, once it was refused a
\* resource that it already had, listed twice, its handle of that resource.
CallOrdered(a, m, lk) ==
    Underway(m) =>
        /\ m.todo # <<>>
        /\ \A i, j \in DOMAIN m.todo : i <= j => m.todo[i] <= m.todo[j]
        /\ \A k \in DOMAIN m.got :
              /\ m.got[k].resource <= m.todo[1]
              /\ Current(m.got[k].resource, m.got[k].id, lk) => lk[m.got[k].resource].agent = a
        /\ m.stage = "release" =>
              /\ \E id \in LockIds : m.blocker = {id}
              /\ \A k \in DOMAIN m.got :
                    m.got[k].resource = m.todo[1] \/ k < m.next =>
                        ~Current(m.got[k].resource, m.got[k].id, lk)

OrderInv ==
    /\ TypeOK
    /\ IdsKnown
    /\ \A a \in Agents : CallOrdered(a, multi[a], locks)
    /\ NoMutualRefusal

\* What a step does to the map: at r0 a lock with a new UUID may appear; the other
\* locks keep holder and UUID or are removed.
LocksMove(r0) ==
    /\ \A r \in Resources :
          \/ locks'[r] = NoLock
          \/ /\ locks[r] # NoLock
             /\ locks'[r].id = locks[r].id /\ locks'[r].agent = locks[r].agent
          \/ r = r0 /\ locks'[r].id \notin used
    /\ used \subseteq used'
    /\ \A r \in Resources : locks'[r] # NoLock => locks'[r].id \in used'

\* The fields of a call in progress.
LEMMA UnderwayType ==
  ASSUME TypeOK, NEW a \in Agents, Underway(multi[a])
  PROVE  /\ multi[a] \in Multi /\ multi[a].todo \in Seq(Resources)
         /\ multi[a].got \in Seq(Handle) /\ multi[a].blocker \subseteq LockIds
         /\ \A k \in DOMAIN multi[a].got :
               multi[a].got[k].resource \in Resources /\ multi[a].got[k].id \in LockIds
  <1>1. multi[a] \in Multi
    BY DEF TypeOK, Underway
  <1>2. multi[a].got \in Seq(Handle)
    BY <1>1 DEF Multi
  <1>3. \A k \in DOMAIN multi[a].got : multi[a].got[k] \in Handle
    BY <1>2
  <1> QED BY <1>1, <1>2, <1>3 DEF Multi, Handle

\* A lock of the new map was there before or has a new UUID.
LEMMA CurrentBefore ==
  ASSUME TypeOK', NEW r0, LocksMove(r0), NEW r \in Resources, NEW id,
         Current(r, id, locks')
  PROVE  /\ id \in used'
         /\ \/ Current(r, id, locks) /\ locks'[r].agent = locks[r].agent
            \/ r = r0 /\ id \notin used
  BY DEF LocksMove, Current

\* UUIDs stay known when what calls refer to was known, or is in the map.
LEMMA KeepIdsKnown ==
  ASSUME TypeOK', IdsKnown, NEW r0 \in Resources, LocksMove(r0),
         \A r \in Resources : \A id \in LockIds :
             CallRefers(r, id, multi') =>
                 CallRefers(r, id, multi) \/ Current(r, id, locks')
  PROVE  IdsKnown'
  <1>1. ASSUME NEW r \in Resources, NEW id \in LockIds, Refers(r, id, locks', multi')
        PROVE  /\ id \in used'
               /\ Refers(r, id, locks, multi) \/ (r = r0 /\ id \notin used)
    <2>1. CASE Current(r, id, locks')
      BY <2>1, CurrentBefore DEF Refers
    <2>2. CASE CallRefers(r, id, multi)
      BY <2>2 DEF Refers, IdsKnown, LocksMove
    <2> QED BY <1>1, <2>1, <2>2 DEF Refers
  <1>2. ASSUME NEW r \in Resources, NEW s \in Resources, NEW id \in LockIds,
               Refers(r, id, locks', multi'), Refers(s, id, locks', multi')
        PROVE  s = r
    BY <1>1, <1>2 DEF IdsKnown
  <1> QED BY <1>1, <1>2 DEF IdsKnown

\* A call that does not move stays in order, whatever happens to the map.
LEMMA KeepOrdered ==
  ASSUME OrderInv, TypeOK', NEW r0 \in Resources, LocksMove(r0), NEW a \in Agents
  PROVE  CallOrdered(a, multi[a], locks')
  <1> DEFINE m == multi[a]
  <1> SUFFICES ASSUME Underway(m)
               PROVE  CallOrdered(a, m, locks')
    BY DEF CallOrdered
  <1>1. CallOrdered(a, m, locks) /\ TypeOK
    BY DEF OrderInv
  <1>2. ASSUME NEW k \in DOMAIN m.got,
               Current(m.got[k].resource, m.got[k].id, locks')
        PROVE  /\ Current(m.got[k].resource, m.got[k].id, locks)
               /\ locks'[m.got[k].resource].agent = locks[m.got[k].resource].agent
    <2> DEFINE r == m.got[k].resource
               id == m.got[k].id
    <2>1. r \in Resources /\ id \in LockIds
      BY <1>1, UnderwayType
    <2>2. CallRefers(r, id, multi)
      BY DEF CallRefers
    <2>3. id \in used
      BY <2>1, <2>2 DEF OrderInv, IdsKnown, Refers
    <2> HIDE DEF r, id
    <2>4. Current(r, id, locks')
      BY <1>2 DEF r, id
    <2>5. Current(r, id, locks) /\ locks'[r].agent = locks[r].agent
      BY <2>1, <2>3, <2>4, CurrentBefore
    <2> QED BY <2>5 DEF r, id
  <1>3. \A k \in DOMAIN m.got :
           Current(m.got[k].resource, m.got[k].id, locks') =>
               locks'[m.got[k].resource].agent = a
    BY <1>1, <1>2 DEF CallOrdered
  <1>4. m.stage = "release" =>
           \A k \in DOMAIN m.got :
               m.got[k].resource = m.todo[1] \/ k < m.next =>
                   ~Current(m.got[k].resource, m.got[k].id, locks')
    BY <1>1, <1>2 DEF CallOrdered
  <1> QED BY <1>1, <1>3, <1>4 DEF CallOrdered

\* A step of the map, while one call a goes on as n without being refused or ends.
LEMMA OrderStep ==
  ASSUME OrderInv, TypeOK', NEW r0 \in Resources, LocksMove(r0),
         NEW a \in Agents, NEW n, multi' = [multi EXCEPT ![a] = n],
         CallOrdered(a, n, locks'),
         Underway(n) =>
             /\ Underway(multi[a])
             /\ n.stage = multi[a].stage
             /\ n.stage = "release" =>
                   n.blocker = multi[a].blocker /\ n.todo = multi[a].todo
                   /\ n.got = multi[a].got
             /\ \A k \in DOMAIN n.got :
                   \/ k \in DOMAIN multi[a].got /\ n.got[k] = multi[a].got[k]
                   \/ Current(n.got[k].resource, n.got[k].id, locks')
  PROVE  OrderInv'
  <1>1. multi'[a] = n /\ \A b \in Agents \ {a} : multi'[b] = multi[b]
    BY DEF OrderInv, TypeOK
  <1>2. ASSUME NEW r \in Resources, NEW id \in LockIds, CallRefers(r, id, multi')
        PROVE  CallRefers(r, id, multi) \/ Current(r, id, locks')
    <2>1. PICK b \in Agents :
            \/ /\ Underway(multi'[b])
               /\ \E k \in DOMAIN multi'[b].got :
                     multi'[b].got[k].resource = r /\ multi'[b].got[k].id = id
            \/ multi'[b].stage = "release" /\ id \in multi'[b].blocker
               /\ multi'[b].todo[1] = r
      BY <1>2 DEF CallRefers
    <2>2. CASE b # a
      <3>1. multi'[b] = multi[b]
        BY <1>1, <2>2
      <3> QED BY <2>1, <3>1 DEF CallRefers
    <2>3. CASE b = a /\ n.stage = "release" /\ id \in n.blocker /\ n.todo[1] = r
      <3>1. Underway(n)
        BY <2>3 DEF Underway
      <3>2. multi[a].stage = "release" /\ id \in multi[a].blocker /\ multi[a].todo[1] = r
        BY <2>3, <3>1
      <3> QED BY <3>2 DEF CallRefers
    <2>4. ASSUME b = a, Underway(n), NEW k \in DOMAIN n.got,
                 n.got[k].resource = r, n.got[k].id = id
          PROVE  CallRefers(r, id, multi) \/ Current(r, id, locks')
      BY <2>4 DEF CallRefers
    <2> QED BY <1>1, <2>1, <2>2, <2>3, <2>4
  <1>3. IdsKnown'
    BY <1>2, KeepIdsKnown DEF OrderInv
  <1>4. ASSUME NEW b \in Agents
        PROVE  CallOrdered(b, multi'[b], locks')
    BY <1>1, KeepOrdered
  <1>5. NoMutualRefusal'
    <2>1. ASSUME NEW b \in Agents, multi'[b].stage = "release"
          PROVE  /\ multi[b].stage = "release" /\ multi'[b].blocker = multi[b].blocker
                 /\ multi'[b].got = multi[b].got
      BY <1>1, <2>1 DEF Underway
    <2> QED BY <2>1 DEF OrderInv, NoMutualRefusal
  <1> QED BY <1>3, <1>4, <1>5 DEF OrderInv

\* A step of the map alone.
LEMMA OrderQuiet ==
  ASSUME OrderInv, TypeOK', NEW r0, LocksMove(r0), multi' = multi
  PROVE  OrderInv'
  <1>1. CASE Resources = {}
    <2>1. IdsKnown'
      BY <1>1 DEF IdsKnown
    <2>2. ASSUME NEW a \in Agents
          PROVE  CallOrdered(a, multi[a], locks')
      <3> SUFFICES ASSUME Underway(multi[a]) PROVE FALSE
        BY DEF CallOrdered
      <3>1. multi[a].todo \in Seq(Resources) /\ multi[a].todo # <<>>
        BY UnderwayType DEF OrderInv, CallOrdered
      <3>2. Head(multi[a].todo) \in Resources
        BY <3>1
      <3> QED BY <1>1, <3>2
    <2> QED BY <2>1, <2>2 DEF OrderInv, NoMutualRefusal
  <1>2. ASSUME NEW r1 \in Resources, LocksMove(r1)
        PROVE  OrderInv'
    <2>1. IdsKnown'
      BY <1>2, KeepIdsKnown DEF OrderInv
    <2>2. \A a \in Agents : CallOrdered(a, multi'[a], locks')
      BY <1>2, KeepOrdered
    <2>3. NoMutualRefusal'
      BY DEF OrderInv, NoMutualRefusal
    <2> QED BY <2>1, <2>2, <2>3 DEF OrderInv
  <1>3. CASE r0 \in Resources
    BY <1>2, <1>3
  <1>4. CASE r0 \notin Resources
    <2>1. \A r1 \in Resources : LocksMove(r1)
      BY <1>4 DEF LocksMove
    <2> QED BY <1>1, <1>2, <2>1
  <1> QED BY <1>3, <1>4

\* Extending, creating and releasing a lock, as seen by calls.
LEMMA ExtendMove ==
  ASSUME OrderInv, NEW r \in Resources, NEW a \in Agents, NEW ttl, Extend(r, a, ttl)
  PROVE  LocksMove(r) /\ Current(r, locks[r].id, locks') /\ locks'[r].agent = a
         /\ locks[r].id \in LockIds
  <1>0. TypeOK /\ \A s \in Resources : locks[s] # NoLock => locks[s] \in Lock
    BY DEF OrderInv, TypeOK
  <1>1. locks[r] \in Lock /\ locks[r].agent = a
    BY <1>0 DEF Extend, Valid
  <1>2. /\ locks' = [locks EXCEPT ![r].expires = clock + EffectiveTTL(ttl)]
        /\ used' = used
    BY DEF Extend
  <1>3. \A s \in Resources \ {r} : locks'[s] = locks[s]
    BY <1>0, <1>2 DEF TypeOK
  <1>4. /\ locks'[r].id = locks[r].id /\ locks'[r].agent = locks[r].agent
    BY <1>0, <1>1, <1>2 DEF TypeOK
  <1>5. locks'[r] # NoLock
    BY <1>1, <1>4, AgentsAssumption
  <1>6. \A s \in Resources : locks[s] # NoLock => locks[s].id \in used
    BY <1>0 DEF OrderInv, IdsKnown, Refers, Current
  <1>7. locks[r] # NoLock
    BY <1>1, AgentsAssumption
  <1> QED BY <1>1, <1>2, <1>3, <1>4, <1>5, <1>6, <1>7 DEF LocksMove, Current

\* A new lock gets a new UUID.
LEMMA CreateMove ==
  ASSUME OrderInv, NEW r \in Resources, NEW a \in Agents, NEW ttl, NEW id \in LockIds,
         Create(r, a, ttl, id)
  PROVE  LocksMove(r) /\ Current(r, id, locks') /\ locks'[r].agent = a
  <1>0. TypeOK /\ \A s \in Resources : locks[s] # NoLock => locks[s] \in Lock
    BY DEF OrderInv, TypeOK
  <1>1. /\ \A s \in Resources \ {r} : locks'[s] = locks[s]
        /\ locks'[r].id = id /\ locks'[r].agent = a
        /\ id \notin used /\ used' = used \cup {id}
    BY <1>0 DEF Create, TypeOK
  <1>2. locks'[r] # NoLock
    BY <1>1, AgentsAssumption
  <1>3. \A s \in Resources : locks[s] # NoLock => locks[s].id \in used
    BY <1>0 DEF OrderInv, IdsKnown, Refers, Current
  <1> QED BY <1>1, <1>2, <1>3 DEF LocksMove, Current

\* Locks are removed, nothing else.
LEMMA RemoveMove ==
  ASSUME OrderInv, used \subseteq used', NEW r0,
         \A r \in Resources : locks'[r] \in {locks[r], NoLock}
  PROVE  LocksMove(r0)
  <1>0. TypeOK /\ \A s \in Resources : locks[s] # NoLock => locks[s] \in Lock
    BY DEF OrderInv, TypeOK
  <1>1. \A s \in Resources : locks[s] # NoLock => locks[s].id \in used
    BY <1>0 DEF OrderInv, IdsKnown, Refers, Current
  <1> QED BY <1>1 DEF LocksMove

\* What is left of a sorted list of two or more resources.
LEMMA SortedTail ==
  ASSUME NEW s \in Seq(Resources), s # <<>>, Len(s) # 1,
         \A i, j \in DOMAIN s : i <= j => s[i] <= s[j]
  PROVE  /\ Tail(s) # <<>>
         /\ \A i, j \in DOMAIN Tail(s) : i <= j => Tail(s)[i] <= Tail(s)[j]
         /\ Head(s) = s[1] /\ s[1] \in Nat /\ Tail(s)[1] \in Nat /\ s[1] <= Tail(s)[1]
  <1> DEFINE t == Tail(s)
  <1>1. /\ t \in Seq(Resources) /\ t # <<>> /\ Len(t) = Len(s) - 1
        /\ \A i \in 1..Len(t) : t[i] = s[i + 1]
    BY TailType, HeadTailProperties
  <1>2. Len(s) \in Nat /\ Len(s) # 0 /\ DOMAIN s = 1..Len(s) /\ DOMAIN t = 1..Len(t)
    BY <1>1, EmptySeq
  <1>3. Head(s) = s[1]
    BY <1>2
  <1> HIDE DEF t
  <1>4. \A i, j \in DOMAIN t : i <= j => t[i] <= t[j]
    <2> SUFFICES ASSUME NEW i \in 1..Len(t), NEW j \in 1..Len(t), i <= j
                 PROVE  t[i] <= t[j]
      BY <1>2
    <2>1. i + 1 \in DOMAIN s /\ j + 1 \in DOMAIN s /\ i + 1 <= j + 1
      BY <1>1, <1>2
    <2>2. s[i + 1] <= s[j + 1]
      BY <2>1
    <2> QED BY <1>1, <2>2
  <1>5. 1 \in DOMAIN s /\ 2 \in DOMAIN s /\ 1 \in 1..Len(t)
    BY <1>1, <1>2
  <1>6. t[1] = s[2] /\ s[1] <= s[2]
    BY <1>1, <1>5
  <1>7. s[1] \in Resources /\ s[2] \in Resources
    BY <1>5
  <1> QED BY <1>1, <1>3, <1>4, <1>6, <1>7, ResourcesAssumption DEF t

\* The next lock of a call.
LEMMA MultiGotOrder ==
  ASSUME OrderInv, TypeOK', NEW a \in Agents, multi[a].stage = "acquire",
         NEW r \in Resources, r = Head(multi[a].todo), NEW id \in LockIds, LocksMove(r),
         Current(r, id, locks'), locks'[r].agent = a, MultiGot(a, r, id)
  PROVE  OrderInv'
  <1> DEFINE m == multi[a]
             h == [resource |-> r, id |-> id]
             more == [m EXCEPT !.todo = Tail(m.todo), !.got = Append(m.got, h)]
             n == IF Len(m.todo) = 1 THEN NoMulti ELSE more
  <1>1. Underway(m) /\ TypeOK
    BY DEF Underway, OrderInv
  <1>2. /\ m \in Multi /\ m.todo \in Seq(Resources) /\ m.got \in Seq(Handle)
        /\ CallOrdered(a, m, locks') /\ m.todo # <<>>
    BY <1>1, UnderwayType, KeepOrdered DEF CallOrdered
  <1>3. multi' = [multi EXCEPT ![a] = n]
    BY DEF MultiGot
  <1>4. CASE Len(m.todo) = 1
    <2>1. n = NoMulti /\ ~Underway(n) /\ CallOrdered(a, n, locks')
      BY <1>4 DEF Underway, CallOrdered
    <2> HIDE DEF n
    <2> QED BY <1>3, <2>1, OrderStep
  <1>5. CASE Len(m.todo) # 1
    <2>1. n = more /\ more.stage = "acquire" /\ more.todo = Tail(m.todo)
          /\ more.got = Append(m.got, h)
      BY <1>2, <1>5 DEF Multi
    <2>2. \A i, j \in DOMAIN m.todo : i <= j => m.todo[i] <= m.todo[j]
      BY <1>1, <1>2 DEF CallOrdered
    <2> HIDE DEF n, more
    <2>3. /\ n.todo # <<>>
          /\ \A i, j \in DOMAIN n.todo : i <= j => n.todo[i] <= n.todo[j]
          /\ r = m.todo[1] /\ m.todo[1] \in Nat /\ n.todo[1] \in Nat
          /\ m.todo[1] <= n.todo[1]
      BY <1>2, <1>5, <2>1, <2>2, SortedTail
    <2>5. \A k \in DOMAIN n.got : \/ k \in DOMAIN m.got /\ n.got[k] = m.got[k]
                                  \/ n.got[k] = h
      BY <1>2, <2>1
    <2>6. ASSUME NEW k \in DOMAIN n.got
          PROVE  /\ n.got[k].resource <= n.todo[1]
                 /\ Current(n.got[k].resource, n.got[k].id, locks') =>
                        locks'[n.got[k].resource].agent = a
      <3>1. CASE n.got[k] = h
        BY <2>3, <3>1
      <3>2. CASE k \in DOMAIN m.got /\ n.got[k] = m.got[k]
        <4>1. m.got[k].resource <= m.todo[1]
              /\ (Current(m.got[k].resource, m.got[k].id, locks') =>
                        locks'[m.got[k].resource].agent = a)
          BY <1>1, <1>2, <3>2 DEF CallOrdered
        <4>2. m.got[k].resource \in Nat
          BY <1>1, <3>2, UnderwayType, ResourcesAssumption
        <4> QED BY <2>3, <3>2, <4>1, <4>2
      <3> QED BY <2>5, <3>1, <3>2
    <2>7. CallOrdered(a, n, locks')
      BY <2>1, <2>3, <2>6 DEF CallOrdered
    <2>8. \A k \in DOMAIN n.got :
                   \/ k \in DOMAIN m.got /\ n.got[k] = m.got[k]
                   \/ Current(n.got[k].resource, n.got[k].id, locks')
      BY <2>5
    <2> QED BY <1>1, <1>3, <2>1, <2>7, <2>8, OrderStep
  <1> QED BY <1>4, <1>5

\* A call begins, its resources sorted.
LEMMA MultiStartOrder ==
  ASSUME OrderInv, TypeOK', NEW a \in Agents, NEW req \in MultiRequests, NEW ttl,
         MultiStart(a, req, ttl)
  PROVE  OrderInv'
  <1>1. PICK s \in Sortings(req) :
          multi' = [multi EXCEPT ![a] =
            [stage |-> "acquire", todo |-> s, got |-> <<>>, next |-> 1,
             blocker |-> {}, ttl |-> ttl]]
    BY DEF MultiStart
  <1> DEFINE n == [stage |-> "acquire", todo |-> s, got |-> <<>>, next |-> 1,
                   blocker |-> {}, ttl |-> ttl]
  <1>2. n.todo = s /\ n.stage = "acquire" /\ DOMAIN n.got = {}
    OBVIOUS
  <1>3. multi'[a] = n /\ \A b \in Agents \ {a} : multi'[b] = multi[b]
    BY <1>1 DEF OrderInv, TypeOK
  <1> HIDE DEF n
  <1>4. Len(req) \in Nat \ {0} /\ DOMAIN s = 1..Len(req)
    BY MultiAssumption DEF MultiStart, Sortings
  <1>5. \A i, j \in DOMAIN s : i <= j => s[i] <= s[j]
    <2>1. \A i, j \in 1..Len(req) : i < j => s[i] <= s[j]
      BY DEF Sortings
    <2>2. \A i \in 1..Len(req) : s[i] \in Nat
      BY ResourcesAssumption DEF Sortings
    <2> QED BY <1>4, <2>1, <2>2
  <1>6. s # <<>>
    BY <1>4
  <1>7. CallOrdered(a, n, locks)
    BY <1>2, <1>5, <1>6 DEF CallOrdered
  <1>8. UNCHANGED <<locks, used>>
    BY DEF MultiStart
  <1>9. \A b \in Agents : CallOrdered(b, multi'[b], locks')
    BY <1>3, <1>7, <1>8 DEF OrderInv
  <1>10. ASSUME NEW r, NEW id, CallRefers(r, id, multi')
         PROVE  CallRefers(r, id, multi)
    BY <1>2, <1>3, <1>10 DEF CallRefers
  <1>11. IdsKnown'
    BY <1>8, <1>10 DEF OrderInv, IdsKnown, Refers
  <1>12. NoMutualRefusal'
    <2>1. \A b \in Agents : multi'[b].stage = "release" => multi'[b] = multi[b]
      BY <1>2, <1>3
    <2> QED BY <2>1 DEF OrderInv, NoMutualRefusal
  <1> QED BY <1>9, <1>11, <1>12 DEF OrderInv

\* A call is refused: the lock in its way is younger than any handle of that
\* resource that calls have, so two calls cannot be in each other's way.
LEMMA MultiRefusedOrder ==
  ASSUME OrderInv, TypeOK', NEW a \in Agents, MultiRefused(a)
  PROVE  OrderInv'
  <1> DEFINE m == multi[a]
             r == Head(m.todo)
             id == locks[r].id
             back == [m EXCEPT !.stage = "release", !.next = 1, !.blocker = {id}]
             n == IF m.got = <<>> THEN NoMulti ELSE back
  <1>1. m.stage = "acquire" /\ Underway(m) /\ TypeOK /\ UNCHANGED <<locks, used>>
        /\ locks[r] # NoLock /\ locks[r].agent # a
    BY DEF MultiRefused, Underway, Valid, OrderInv
  <1>2. /\ m \in Multi /\ m.todo \in Seq(Resources) /\ m.got \in Seq(Handle)
        /\ CallOrdered(a, m, locks) /\ m.todo # <<>>
    BY <1>1, UnderwayType DEF CallOrdered, OrderInv
  <1>3. r \in Resources /\ r = m.todo[1]
    BY <1>2
  <1>4. id \in LockIds /\ Current(r, id, locks)
    <2>1. locks[r] \in Lock
      BY <1>1, <1>3 DEF TypeOK
    <2> QED BY <1>1, <2>1 DEF Current
  <1>5. multi' = [multi EXCEPT ![a] = n]
    BY DEF MultiRefused
  <1>6. multi'[a] = n /\ \A b \in Agents \ {a} : multi'[b] = multi[b]
    BY <1>1, <1>5 DEF TypeOK
  <1>7. LocksMove(r)
    BY <1>1, RemoveMove
  <1>8. CASE m.got = <<>>
    <2>1. n = NoMulti /\ ~Underway(n) /\ CallOrdered(a, n, locks')
      BY <1>8 DEF Underway, CallOrdered
    <2> HIDE DEF n, r
    <2> QED BY <1>3, <1>5, <1>7, <2>1, OrderStep
  <1>9. CASE m.got # <<>>
    <2>1. /\ n.stage = "release" /\ n.todo = m.todo /\ n.got = m.got /\ n.next = 1
          /\ n.blocker = {id}
      BY <1>2, <1>9 DEF Multi
    <2> HIDE DEF n, r, id
    <2>2. ASSUME NEW s \in Resources, NEW i \in LockIds, CallRefers(s, i, multi')
          PROVE  CallRefers(s, i, multi) \/ Current(s, i, locks')
      <3>1. PICK b \in Agents :
              \/ /\ Underway(multi'[b])
                 /\ \E k \in DOMAIN multi'[b].got :
                       multi'[b].got[k].resource = s /\ multi'[b].got[k].id = i
              \/ multi'[b].stage = "release" /\ i \in multi'[b].blocker
                 /\ multi'[b].todo[1] = s
        BY <2>2 DEF CallRefers
      <3>2. CASE b # a
        <4>1. multi'[b] = multi[b]
          BY <1>6, <3>2
        <4> QED BY <3>1, <4>1 DEF CallRefers
      <3>3. CASE b = a /\ i = id /\ s = r
        BY <1>1, <1>4, <3>3
      <3>4. ASSUME b = a, NEW k \in DOMAIN m.got,
                   m.got[k].resource = s, m.got[k].id = i
            PROVE  CallRefers(s, i, multi)
        BY <1>1, <3>4 DEF CallRefers
      <3> QED BY <1>3, <1>6, <2>1, <3>1, <3>2, <3>3, <3>4
    <2>3. IdsKnown'
      BY <1>3, <1>7, <2>2, KeepIdsKnown DEF OrderInv
    <2>4. CallOrdered(a, n, locks')
      <3>1. \A k \in DOMAIN m.got :
               m.got[k].resource = m.todo[1] =>
                   ~Current(m.got[k].resource, m.got[k].id, locks)
        BY <1>1, <1>2, <1>3 DEF CallOrdered
      <3>2. \A k \in DOMAIN m.got : ~(k < 1)
        BY <1>2
      <3> QED BY <1>1, <1>2, <1>4, <2>1, <3>1, <3>2 DEF CallOrdered
    <2>5. \A b \in Agents : CallOrdered(b, multi'[b], locks')
      BY <1>1, <1>6, <2>4 DEF OrderInv
    <2>6. ASSUME NEW b \in Agents, b # a, multi[b].stage = "release",
                 NEW k \in DOMAIN multi[b].got, multi[b].got[k].id = id,
                 NEW j \in DOMAIN m.got, m.got[j].id \in multi[b].blocker
          PROVE  FALSE
      <3> DEFINE w == multi[b]
      <3>1. Underway(w)
        BY <2>6 DEF Underway
      <3>2. /\ w.todo \in Seq(Resources) /\ w.todo # <<>> /\ CallOrdered(b, w, locks)
            /\ w.got[k].resource \in Resources /\ w.got[k].id \in LockIds
        BY <1>1, <3>1, UnderwayType DEF OrderInv, CallOrdered
      <3>3. m.got[j].resource \in Resources /\ m.got[j].id \in LockIds
        BY <1>1, UnderwayType
      <3>4. w.todo[1] \in Resources
        <4>1. Head(w.todo) \in Resources
          BY <3>2
        <4> QED BY <3>2, <4>1
      \* b's handle is one of r, for which b did not come too late.
      <3>5. w.got[k].resource = r
        <4>1. Refers(w.got[k].resource, id, locks, multi)
          BY <2>6, <3>1 DEF Refers, CallRefers
        <4>2. Refers(r, id, locks, multi)
          BY <1>4 DEF Refers
        <4> QED BY <1>3, <1>4, <3>2, <4>1, <4>2 DEF OrderInv, IdsKnown
      <3>6. r <= w.todo[1]
        BY <3>1, <3>2, <3>5 DEF CallOrdered
      \* a's handle is one of the resource that b was refused.
      <3>7. m.got[j].resource = w.todo[1]
        <4>1. Refers(m.got[j].resource, m.got[j].id, locks, multi)
          BY <1>1 DEF Refers, CallRefers
        <4>2. Refers(w.todo[1], m.got[j].id, locks, multi)
          BY <2>6 DEF Refers, CallRefers
        <4> QED BY <3>3, <3>4, <4>1, <4>2 DEF OrderInv, IdsKnown
      <3>8. w.todo[1] <= r
        BY <1>1, <1>2, <1>3, <3>7 DEF CallOrdered
      <3>9. w.todo[1] = r
        <4> DEFINE t == w.todo[1]
        <4>1. r \in Nat /\ t \in Nat
          BY <1>3, <3>4, ResourcesAssumption
        <4>2. r <= t /\ t <= r
          BY <3>6, <3>8
        <4> HIDE DEF t
        <4>3. t = r
          BY <4>1, <4>2
        <4> QED BY <4>3 DEF t
      \* So b has had r under this lock, and was refused it under an older one.
      <3>10. ~Current(r, id, locks)
        BY <2>6, <3>1, <3>2, <3>5, <3>9 DEF CallOrdered
      <3> QED BY <1>4, <3>10
    <2>7. NoMutualRefusal'
      <3> SUFFICES ASSUME NEW b \in Agents, NEW c \in Agents, b # c,
                          multi'[b].stage = "release", multi'[c].stage = "release",
                          multi'[b].blocker \subseteq
                             {multi'[c].got[i].id : i \in DOMAIN multi'[c].got},
                          multi'[c].blocker \subseteq
                             {multi'[b].got[i].id : i \in DOMAIN multi'[b].got}
                   PROVE  FALSE
        BY DEF NoMutualRefusal
      <3>1. CASE b # a /\ c # a
        <4>1. multi'[b] = multi[b] /\ multi'[c] = multi[c]
          BY <1>6, <3>1
        <4> QED BY <4>1 DEF OrderInv, NoMutualRefusal
      <3>2. ASSUME NEW d \in Agents, d # a, multi[d].stage = "release",
                   {id} \subseteq {multi[d].got[i].id : i \in DOMAIN multi[d].got},
                   multi[d].blocker \subseteq {m.got[i].id : i \in DOMAIN m.got}
            PROVE  FALSE
        <4>1. PICK k \in DOMAIN multi[d].got : multi[d].got[k].id = id
          BY <3>2
        <4>2. PICK i \in LockIds : multi[d].blocker = {i}
          BY <3>2 DEF OrderInv, CallOrdered, Underway
        <4>3. PICK j \in DOMAIN m.got : m.got[j].id = i
          BY <3>2, <4>2
        <4> QED BY <2>6, <3>2, <4>1, <4>2, <4>3
      <3>3. CASE b = a
        <4>1. c # a /\ multi'[c] = multi[c] /\ multi'[b] = n
          BY <1>6, <3>3
        <4> QED BY <2>1, <3>2, <4>1
      <3>4. CASE c = a
        <4>1. b # a /\ multi'[b] = multi[b] /\ multi'[c] = n
          BY <1>6, <3>4
        <4> QED BY <2>1, <3>2, <4>1
      <3> QED BY <3>1, <3>3, <3>4
    <2> QED BY <2>3, <2>5, <2>7 DEF OrderInv
  <1> QED BY <1>8, <1>9

\* One step of a rollback: afterwards the handle it was about is not recorded.
LEMMA MultiReleaseOrder ==
  ASSUME OrderInv, TypeOK', NEW a \in Agents, MultiRelease(a)
  PROVE  /\ OrderInv'
         /\ \A k \in DOMAIN multi[a].got : k <= multi[a].next =>
                ~Current(multi[a].got[k].resource, multi[a].got[k].id, locks')
  <1> DEFINE m == multi[a]
             h == m.got[m.next]
             n == IF m.next = Len(m.got) THEN NoMulti ELSE [m EXCEPT !.next = m.next + 1]
  <1>1. TypeOK /\ m.stage = "release" /\ Underway(m)
    BY DEF MultiRelease, Underway, OrderInv
  <1>2. m \in Multi /\ m.got \in Seq(Handle) /\ m.next \in 1..Len(m.got)
    BY <1>1, ReleasingType
  <1>3. h \in Handle /\ h.resource \in Resources /\ h.id \in LockIds
    <2>1. h \in Handle
      BY <1>2
    <2> QED BY <2>1 DEF Handle
  <1>4. /\ \A r \in Resources : locks'[r] \in {locks[r], NoLock}
        /\ used' = used /\ ~Current(h.resource, h.id, locks')
    <2> HIDE DEF h
    <2>1. CASE Release(h.resource, a, h.id)
      BY <1>1, <1>3, <2>1 DEF Release, TypeOK, Current
    <2>2. CASE /\ locks[h.resource] = NoLock \/ locks[h.resource].agent # a
                  \/ locks[h.resource].id # h.id
               /\ UNCHANGED <<locks, used>>
      <3>1. ~Current(h.resource, h.id, locks)
        <4>1. Current(h.resource, h.id, locks) => locks[h.resource].agent = a
          BY <1>1, <1>2 DEF OrderInv, CallOrdered, h
        <4> QED BY <2>2, <4>1 DEF Current
      <3> QED BY <2>2, <3>1
    <2> QED BY <2>1, <2>2 DEF MultiRelease, h
  <1>5. LocksMove(h.resource)
    BY <1>4, RemoveMove
  <1>6. CallOrdered(a, m, locks')
    <2> HIDE DEF h
    <2> QED BY <1>3, <1>5, KeepOrdered
  <1>7. \A k \in DOMAIN m.got : k <= m.next =>
            ~Current(m.got[k].resource, m.got[k].id, locks')
    <2>1. \A k \in DOMAIN m.got : k < m.next =>
            ~Current(m.got[k].resource, m.got[k].id, locks')
      BY <1>1, <1>6 DEF CallOrdered
    <2>2. \A k \in DOMAIN m.got : k <= m.next => k < m.next \/ k = m.next
      BY <1>2
    <2> QED BY <1>4, <2>1, <2>2
  <1>8. multi' = [multi EXCEPT ![a] = n]
    BY DEF MultiRelease
  <1>9. CASE m.next = Len(m.got)
    <2>1. n = NoMulti /\ ~Underway(n) /\ CallOrdered(a, n, locks')
      BY <1>9 DEF Underway, CallOrdered
    <2> HIDE DEF n, h
    <2> QED BY <1>3, <1>5, <1>7, <1>8, <2>1, OrderStep
  <1>10. CASE m.next # Len(m.got)
    <2>1. /\ n.stage = "release" /\ n.todo = m.todo /\ n.got = m.got
          /\ n.next = m.next + 1 /\ n.blocker = m.blocker
      BY <1>1, <1>2, <1>10 DEF Multi
    <2> HIDE DEF n, h
    <2>2. \A k \in DOMAIN m.got : k < m.next + 1 => k <= m.next
      BY <1>2
    <2>3. CallOrdered(a, n, locks')
      BY <1>1, <1>6, <1>7, <2>1, <2>2 DEF CallOrdered, Underway
    <2> QED BY <1>1, <1>3, <1>5, <1>7, <1>8, <2>1, <2>3, OrderStep
  <1> QED BY <1>7, <1>9, <1>10

\* No call, no lock.
LEMMA InitOrderInv == Init => OrderInv
  <1> SUFFICES ASSUME Init PROVE OrderInv
    OBVIOUS
  <1>1. (\A r \in Resources : locks[r] = NoLock) /\ (\A a \in Agents : multi[a] = NoMulti)
    BY DEF Init
  <1>2. IdsKnown
    BY <1>1 DEF IdsKnown, Refers, Current, CallRefers, Underway
  <1>3. (\A a \in Agents : CallOrdered(a, multi[a], locks)) /\ NoMutualRefusal
    BY <1>1 DEF CallOrdered, Underway, NoMutualRefusal
  <1> QED BY <1>2, <1>3, InitType DEF OrderInv

\* Every step keeps calls in order.
LEMMA NextOrderInv == OrderInv /\ [Next]_vars => OrderInv'
  <1> SUFFICES ASSUME OrderInv, [Next]_vars PROVE OrderInv'
    OBVIOUS
  <1>0. TypeOK /\ TypeOK'
    BY NextType DEF OrderInv
  \* A step that only removes locks.
  <1>1. ASSUME multi' = multi, used \subseteq used',
               \A r \in Resources : locks'[r] \in {locks[r], NoLock}
        PROVE  OrderInv'
    BY <1>0, <1>1, RemoveMove, OrderQuiet
  <1>2. ASSUME Tick \/ CleanupBegin \/ CleanupScan \/ UNCHANGED vars
        PROVE  OrderInv'
    BY <1>1, <1>2 DEF Tick, CleanupBegin, CleanupScan, vars
  <1>3. ASSUME NEW r \in Resources, NEW a \in Agents, NEW ttl \in TTLs,
               AcquireLock(r, a, ttl)
        PROVE  OrderInv'
    BY <1>0, <1>3, ExtendMove, CreateMove, OrderQuiet DEF AcquireLock
  <1>4. ASSUME NEW r \in Resources, NEW a \in Agents, NEW id \in used,
               ReleaseLock(r, a, id)
        PROVE  OrderInv'
    <2>1. multi' = multi /\ used' = used /\ locks' = [locks EXCEPT ![r] = NoLock]
      BY <1>4 DEF ReleaseLock, Release
    <2> QED BY <1>0, <1>1, <2>1 DEF TypeOK
  <1>5. ASSUME NEW a \in Agents, NEW req \in MultiRequests, NEW ttl \in TTLs,
               MultiStart(a, req, ttl)
        PROVE  OrderInv'
    BY <1>0, <1>5, MultiStartOrder
  <1>6. ASSUME NEW a \in Agents, MultiAcquire(a)
        PROVE  OrderInv'
    <2> DEFINE r == Head(multi[a].todo)
    <2>1. multi[a].stage = "acquire" /\ Underway(multi[a])
      BY <1>6 DEF MultiAcquire, Underway
    <2>2. r \in Resources
      <3>1. multi[a].todo \in Seq(Resources) /\ multi[a].todo # <<>>
        BY <1>0, <2>1, UnderwayType DEF TypeOK
      <3> QED BY <3>1
    <2>3. CASE Extend(r, a, multi[a].ttl) /\ MultiGot(a, r, locks[r].id)
      BY <1>0, <2>1, <2>2, <2>3, ExtendMove, MultiGotOrder
    <2>4. ASSUME NEW id \in LockIds, Create(r, a, multi[a].ttl, id), MultiGot(a, r, id)
          PROVE  OrderInv'
      BY <1>0, <2>1, <2>2, <2>4, CreateMove, MultiGotOrder
    <2> QED BY <1>6, <2>3, <2>4 DEF MultiAcquire
  <1>7. ASSUME NEW a \in Agents, MultiRefused(a) \/ MultiRelease(a)
        PROVE  OrderInv'
    BY <1>0, <1>7, MultiRefusedOrder, MultiReleaseOrder
  <1>8. CASE CleanupDelete
    BY <1>1, <1>8 DEF CleanupDelete
  <1>9. ASSUME NEW g \in Goroutines, StorageStep(g) \/ PersistError(g)
        PROVE  OrderInv'
    <2>1. CASE Rollback(g)
      BY <1>0, <1>1, <2>1 DEF Rollback, TypeOK
    <2>2. CASE ~Rollback(g)
      BY <1>1, <1>9, <2>2 DEF StorageStep, PersistRefused, PersistExtends,
           PersistCreates, PersistStores, PersistError, StorageRelease
    <2> QED BY <2>1, <2>2
  <1>10. CASE Restart
    <2>1. (\A r \in Resources : locks'[r] = NoLock)
          /\ (\A a \in Agents : multi'[a] = NoMulti)
      BY <1>10 DEF Restart
    <2>2. IdsKnown'
      BY <2>1 DEF IdsKnown, Refers, Current, CallRefers, Underway
    <2>3. (\A a \in Agents : CallOrdered(a, multi'[a], locks')) /\ NoMutualRefusal'
      BY <2>1 DEF CallOrdered, Underway, NoMutualRefusal
    <2> QED BY <1>0, <2>2, <2>3 DEF OrderInv
  <1> QED BY <1>2, <1>3, <1>4, <1>5, <1>6, <1>7, <1>8, <1>9, <1>10 DEF Next

\* Calls of AcquireMultipleLocks never roll back because of each other's locks,
\* whatever lists they are given, with duplicates too, and whatever locks expire,
\* are swept, extended or released while they run.
THEOREM OneCallGetsThrough == Spec => []NoMutualRefusal
  <1>1. OrderInv => NoMutualRefusal
    BY DEF OrderInv
  <1> QED BY <1>1, InitOrderInv, NextOrderInv, PTL DEF Spec

\* A call of AcquireMultipleLocks that fails has released, when it returns, every
\* lock it took: its rollback skips none, and nobody brings one back.
THEOREM FailedCallLeavesNothing == Spec => MultiAllOrNothing
  <1>1. ASSUME OrderInv, [Next]_vars
        PROVE  [\A a \in Agents :
                  multi[a].stage = "release" /\ multi'[a] = NoMulti =>
                      \A i \in DOMAIN multi[a].got :
                          LET h == multi[a].got[i] IN locks'[h.resource].id # h.id]_vars
    <2> SUFFICES ASSUME NEW a \in Agents, multi[a].stage = "release", multi'[a] = NoMulti,
                        NEW i \in DOMAIN multi[a].got
                 PROVE  locks'[multi[a].got[i].resource].id # multi[a].got[i].id
      OBVIOUS
    <2> DEFINE m == multi[a]
               h == m.got[i]
    <2>0. TypeOK /\ TypeOK'
      BY <1>1, NextType DEF OrderInv
    <2>1. m.got \in Seq(Handle) /\ m.next \in 1..Len(m.got) /\ h \in Handle
      BY <2>0, ReleasingType
    <2>2. h.resource \in Resources /\ h.id \in LockIds
      BY <2>1 DEF Handle
    <2>3. SUFFICES ~Current(h.resource, h.id, locks')
      BY <2>2, AgentsAssumption DEF Current
    <2>4. m # NoMulti
      BY DEF NoMulti
    <2>5. CASE MultiRelease(a)
      <3>1. m.next = Len(m.got)
        <4> SUFFICES ASSUME m.next # Len(m.got) PROVE FALSE
          OBVIOUS
        <4>1. multi'[a] = [m EXCEPT !.next = m.next + 1]
          BY <2>0, <2>5 DEF MultiRelease, TypeOK
        <4>2. m \in Multi
          BY <2>0, ReleasingType
        <4>3. multi'[a].stage = "release"
          BY <4>1, <4>2 DEF Multi
        <4> QED BY <4>3
      <3>2. i <= m.next
        BY <2>1, <3>1
      <3> QED BY <1>1, <2>0, <2>5, <3>2, MultiReleaseOrder
    <2>6. CASE Restart
      BY <2>2, <2>6 DEF Restart, Current
    <2>7. CASE ~MultiRelease(a) /\ ~Restart
      <3>1. multi'[a] = multi[a]
        <4>1. ASSUME NEW b \in Agents, MultiAcquire(b) \/ MultiRefused(b) \/ MultiRelease(b)
              PROVE  multi'[a] = multi[a]
          <5>1. CASE b = a
            BY <2>7, <4>1, <5>1 DEF MultiAcquire, MultiRefused
          <5>2. CASE b # a
            BY <2>0, <4>1, <5>2 DEF MultiAcquire, MultiRefused, MultiRelease, MultiGot, TypeOK
          <5> QED BY <5>1, <5>2
        <4>2. ASSUME NEW b \in Agents, NEW req \in MultiRequests, NEW ttl \in TTLs,
                     MultiStart(b, req, ttl)
              PROVE  multi'[a] = multi[a]
          <5>1. b # a
            BY <2>4, <4>2 DEF MultiStart
          <5> QED BY <2>0, <4>2, <5>1 DEF MultiStart, TypeOK
        <4>3. ASSUME NEW g \in Goroutines, StorageStep(g) \/ PersistError(g)
              PROVE  multi' = multi
          BY <4>3 DEF StorageStep, PersistRefused, PersistExtends, PersistCreates,
               PersistStores, PersistError, StorageRelease, Rollback
        <4>4. CASE UNCHANGED vars
          BY <4>4 DEF vars
        <4> QED BY <1>1, <2>7, <4>1, <4>2, <4>3, <4>4 DEF Next, Tick, AcquireLock,
               ReleaseLock, CleanupBegin, CleanupScan, CleanupDelete
      <3> QED BY <2>4, <3>1
    <2> QED BY <2>5, <2>6, <2>7
  <1> QED BY <1>1, InitOrderInv, NextOrderInv, PTL DEF Spec, MultiAllOrNothing

=============================================================================
