--------------------- MODULE EnhancedLockManagerProofs ---------------------
(***************************************************************************)
(* Proofs about EnhancedLockManager, for every set of agents, resources,   *)
(* UUIDs and calls, every request list and all durations and limits.       *)
(***************************************************************************)
EXTENDS EnhancedLockManager, SequenceTheorems, TLAPS

\* A call in progress: something is left to acquire.
OpenCall(x) == x \in Call /\ x.todo # <<>>

----------------------------------------------------------------------------
\* The waiting requests

\* A granting goroutine that has somebody to answer is the only one that will:
\* its call is in the select statement or on its way out of it, has no answer
\* and is no longer registered.
GrantInv ==
    \A t \in tasks : t.kind = "grant" /\ t.call # "none" =>
        /\ calls[t.call].stage \in {"wait", "leave"}
        /\ calls[t.call].result = "none"
        /\ \A r \in Resources : waiting[r] # t.call
        /\ \A u \in tasks : u.kind = "grant" /\ u.call = t.call => u = t

\* A call that rolls back has something to release.
HasToUndo(x) == x.stage = "undo" => x.got # <<>>

\* The result channel of a call that has not yet waited is empty.
StageOK(x) ==
    /\ x.stage \in {"try", "register"} => x.result = "none"
    /\ HasToUndo(x)

StagesOK == \A c \in Calls : StageOK(calls[c])

USE DEF StageOK

WaitInv == TypeOK /\ RegisteredWaits /\ GrantInv /\ StagesOK

----------------------------------------------------------------------------
\* Handles and locks

\* Claims end with the clock, and a sweep never judges by a later instant.
ClockInv ==
    /\ \A c \in claims : c.expires > clock
    /\ sweep # NoSweep => sweep.now <= clock

LocksInv == LocksCoherent /\ ClockInv

----------------------------------------------------------------------------
\* The order of acquisition

\* The resources left come in order, after the ones got.
Ordered(x) ==
    /\ \A i, j \in 1..Len(x.todo) : i <= j => x.todo[i] <= x.todo[j]
    /\ \A i \in 1..Len(x.got), j \in 1..Len(x.todo) : x.got[i].resource <= x.todo[j]

\* With the locks lk and the UUIDs u: a handle of the call still in m.locks is
\* its agent's; a call that waits does not hold what it waits for.
Holds(x, lk, u) ==
    \A i \in 1..Len(x.got) :
        LET h == x.got[i]
        IN /\ h.id \in u
           /\ lk[h.resource].id = h.id =>
                 /\ lk[h.resource].agent = x.agent
                 /\ x.stage \in {"register", "wait"} => h.resource # Head(x.todo)

IdsUsed == \A r \in Resources : locks[r] # NoLock => locks[r].id \in used

OrderInv ==
    /\ IdsUsed
    /\ \A c \in Calls : calls[c] # NoCall => Ordered(calls[c]) /\ Holds(calls[c], locks, used)

----------------------------------------------------------------------------
\* What the operators return

\* The absent values are of no type of theirs.
LEMMA AbsentValues ==
  /\ NoCall \notin Call
  /\ NoLock \notin Lock
  /\ NoSweep \notin Sweep
  <1>1. NoCall \notin Call
    BY DEF NoCall, Call
  <1>2. NoLock \notin Lock
    BY NoneIsReserved DEF NoLock, Lock
  <1>3. NoSweep \notin Sweep
    BY DEF NoSweep, Sweep
  <1> QED BY <1>1, <1>2, <1>3

\* A call in any stage but none is in progress.
LEMMA StageIsOpen ==
  ASSUME TypeOK, NEW c \in Calls, calls[c] # NoCall
  PROVE  OpenCall(calls[c])
  BY DEF TypeOK, OpenCall

\* The resource in hand.
LEMMA HeadOfCall ==
  ASSUME NEW x, OpenCall(x)
  PROVE  /\ Len(x.todo) \in Nat \ {0}
         /\ Head(x.todo) \in Resources
         /\ Head(x.todo) = x.todo[1]
         /\ Tail(x.todo) \in Seq(Resources)
         /\ Len(Tail(x.todo)) = Len(x.todo) - 1
         /\ \A i \in 1..(Len(x.todo) - 1) : Tail(x.todo)[i] = x.todo[i+1]
         /\ x.agent \in Agents
         /\ x.got \in Seq(Handle)
  <1>1. x.todo \in Seq(Resources) /\ x.todo # <<>> /\ x.agent \in Agents
        /\ x.got \in Seq(Handle)
    BY DEF OpenCall, Call
  <1>2. /\ Len(x.todo) \in Nat \ {0}
        /\ Head(x.todo) \in Resources
        /\ Head(x.todo) = x.todo[1]
    BY <1>1
  <1>3. /\ Tail(x.todo) \in Seq(Resources)
        /\ Len(Tail(x.todo)) = Len(x.todo) - 1
        /\ \A i \in 1..(Len(x.todo) - 1) : Tail(x.todo)[i] = x.todo[i+1]
    BY <1>1, HeadTailProperties
  <1> QED BY <1>1, <1>2, <1>3

\* A call that changes its stage and nothing it holds.
LEMMA StageChanged ==
  ASSUME NEW x, OpenCall(x),
         NEW s \in {"try", "register", "wait", "retry", "leave", "undo"},
         NEW f \in BOOLEAN, NEW d \in Nat, NEW v \in {"none", "available", "error"},
         NEW y,
         y = [x EXCEPT !.stage = s, !.failed = f, !.deadline = d, !.result = v]
  PROVE  /\ OpenCall(y)
         /\ y.stage = s /\ y.result = v
         /\ y.agent = x.agent /\ y.todo = x.todo /\ y.got = x.got
  BY DEF OpenCall, Call

\* What Returned makes of a call.
LEMMA ReturnedCall ==
  ASSUME NEW x, OpenCall(x), NEW y, y = Returned(x, TRUE) \/ y = Returned(x, FALSE)
  PROVE  \/ y = NoCall
         \/ /\ OpenCall(y)
            /\ y.stage \in {"try", "undo"}
            /\ y.stage = "try" => y.result = "none"
            /\ y.agent = x.agent /\ y.got = x.got
            /\ y.todo \in {x.todo, Tail(x.todo)}
            /\ HasToUndo(y)
  <1>0. x.todo \in Seq(Resources) /\ x \in Call
    BY DEF OpenCall, Call
  <1> DEFINE z == [x EXCEPT !.stage = "try", !.todo = Tail(x.todo),
                          !.result = "none", !.failed = FALSE, !.deadline = 0]
             w == [x EXCEPT !.stage = "undo"]
  <1>1. CASE y = Returned(x, TRUE) /\ Len(x.todo) # 1
    <2>1. y = z
      BY <1>1 DEF Returned
    <2>2. Tail(x.todo) \in Seq(Resources) /\ Tail(x.todo) # <<>>
      <3>1. /\ Len(x.todo) \in Nat \ {0}
            /\ Tail(x.todo) \in Seq(Resources)
            /\ Len(Tail(x.todo)) = Len(x.todo) - 1
        BY HeadOfCall
      <3>2. Len(Tail(x.todo)) # 0
        BY <1>1, <3>1
      <3> QED BY <3>1, <3>2, EmptySeq
    <2>3. z \in Call /\ z.todo = Tail(x.todo) /\ z.stage = "try" /\ z.result = "none"
          /\ z.agent = x.agent /\ z.got = x.got
      BY <1>0, <2>2 DEF Call
    <2> HIDE DEF z
    <2> QED BY <2>1, <2>2, <2>3 DEF OpenCall, HasToUndo
  <1>2. CASE y = Returned(x, FALSE) /\ x.got # <<>>
    <2>1. y = w
      BY <1>2 DEF Returned
    <2>2. w \in Call /\ w.todo = x.todo /\ w.stage = "undo" /\ w.agent = x.agent
          /\ w.got = x.got
      BY <1>0 DEF Call
    <2> HIDE DEF w
    <2> QED BY <1>2, <2>1, <2>2 DEF OpenCall, HasToUndo
  <1>3. CASE \/ y = Returned(x, TRUE) /\ Len(x.todo) = 1
             \/ y = Returned(x, FALSE) /\ x.got = <<>>
    BY <1>3 DEF Returned
  <1> QED BY <1>1, <1>2, <1>3

\* The call that was given a handle.
LEMMA GotCall ==
  ASSUME TypeOK, NEW c \in Calls, calls[c] # NoCall, NEW id \in LockIds,
         NEW s \in {"try", "leave"}, NEW y, y = Got(c, s, id)
  PROVE  /\ OpenCall(y)
         /\ y.stage = s /\ y.result = calls[c].result /\ y.agent = calls[c].agent
         /\ y.todo = calls[c].todo
         /\ y.got = Append(calls[c].got,
                           [resource |-> Head(calls[c].todo), id |-> id])
  <1> DEFINE x == calls[c]
             h == [resource |-> Head(x.todo), id |-> id]
  <1>1. OpenCall(x)
    BY StageIsOpen
  <1>2. h \in Handle /\ x.got \in Seq(Handle)
    BY <1>1, HeadOfCall DEF Handle
  <1>3. Append(x.got, h) \in Seq(Handle)
    BY <1>2
  <1>4. y = [x EXCEPT !.stage = s, !.got = Append(x.got, h)]
    BY <1>1 DEF Got, OpenCall, Call
  <1> HIDE DEF x, h
  <1>5. OpenCall(y) /\ y.stage = s /\ y.result = x.result /\ y.agent = x.agent
        /\ y.todo = x.todo /\ y.got = Append(x.got, h)
    BY <1>1, <1>3, <1>4 DEF OpenCall, Call
  <1> QED BY <1>5 DEF x, h

\* The call after a successful tryAcquireLock.
LEMMA SucceededCall ==
  ASSUME TypeOK, NEW c \in Calls, calls[c].stage \in {"try", "retry"},
         NEW id \in LockIds, NEW y, y = Succeeded(c, id)
  PROVE  \/ y = NoCall
         \/ /\ OpenCall(y)
            /\ y.stage \in {"try", "leave"}
            /\ y.stage = "try" => y.result = "none"
            /\ y.agent = calls[c].agent
            /\ y.got = Append(calls[c].got,
                              [resource |-> Head(calls[c].todo), id |-> id])
            /\ y.todo \in {calls[c].todo, Tail(calls[c].todo)}
  <1> DEFINE x == Got(c, "leave", id)
  <1>0. calls[c] # NoCall
    BY DEF NoCall
  <1>1. /\ OpenCall(x)
        /\ x.stage = "leave" /\ x.agent = calls[c].agent
        /\ x.todo = calls[c].todo
        /\ x.got = Append(calls[c].got,
                           [resource |-> Head(calls[c].todo), id |-> id])
    BY <1>0, GotCall
  <1>2. y = IF calls[c].stage = "try" THEN Returned(x, TRUE) ELSE x
    BY DEF Succeeded
  <1> HIDE DEF x
  <1>3. CASE calls[c].stage = "try"
    <2>1. y = Returned(x, TRUE)
      BY <1>2, <1>3
    <2>2. y = NoCall \/ y.stage = "try"
      BY <2>1, <1>1 DEF Returned, OpenCall, Call
    <2> QED BY <1>1, <2>1, <2>2, ReturnedCall
  <1>4. CASE calls[c].stage # "try"
    BY <1>1, <1>2, <1>4
  <1> QED BY <1>3, <1>4

\* The call after an error that it does not wait for.
LEMMA FailedCall ==
  ASSUME TypeOK, NEW c \in Calls, calls[c].stage \in {"try", "retry"},
         NEW y, y = Failed(c)
  PROVE  \/ y = NoCall
         \/ /\ OpenCall(y)
            /\ y.stage \in {"leave", "undo"}
            /\ HasToUndo(y)
            /\ y.agent = calls[c].agent /\ y.got = calls[c].got
            /\ y.todo = calls[c].todo
  <1> DEFINE z == calls[c]
             x == [z EXCEPT !.stage = "leave", !.failed = TRUE]
  <1>0. OpenCall(z)
    BY StageIsOpen DEF NoCall
  <1>2. y = IF z.stage = "try" THEN Returned(x, FALSE) ELSE x
    BY DEF Failed
  <1> HIDE DEF z
  <1>1. /\ OpenCall(x)
        /\ x.stage = "leave" /\ x.agent = z.agent
        /\ x.todo = z.todo /\ x.got = z.got
    BY <1>0 DEF OpenCall, Call
  <1> HIDE DEF x
  <1>3. CASE z.stage = "try"
    <2>1. y = Returned(x, FALSE)
      BY <1>2, <1>3
    <2>2. y = NoCall \/ (y.stage = "undo" /\ y.todo = x.todo)
      BY <2>1, <1>1 DEF Returned, OpenCall, Call
    <2>3. \/ y = NoCall
          \/ /\ OpenCall(y)
             /\ y.stage \in {"try", "undo"}
             /\ y.stage = "try" => y.result = "none"
             /\ y.agent = x.agent /\ y.got = x.got
             /\ y.todo \in {x.todo, Tail(x.todo)}
             /\ HasToUndo(y)
      BY <1>1, <2>1, ReturnedCall
    <2> QED BY <1>1, <2>2, <2>3 DEF z
  <1>4. CASE z.stage # "try"
    BY <1>1, <1>2, <1>4 DEF z, HasToUndo
  <1> QED BY <1>3, <1>4

----------------------------------------------------------------------------
\* Type correctness and the waiting requests

\* The part of TypeOK about locks and handles.
LocksType ==
    /\ clock \in Nat
    /\ locks \in [Resources -> Lock \cup {NoLock}]
    /\ agentLocks \in [Agents -> SUBSET Resources]
    /\ used \in SUBSET LockIds
    /\ claims \in SUBSET Claim
    /\ revoked \in SUBSET LockIds

\* The part of TypeOK about calls.
CallsType ==
    /\ waiting \in [Resources -> Calls \cup {"none"}]
    /\ calls \in [Calls -> Call \cup {NoCall}]
    /\ \A c \in Calls : calls[c] = NoCall \/ calls[c].todo # <<>>

\* The part of TypeOK about goroutines.
TasksType ==
    /\ sweep \in Sweep \cup {NoSweep}
    /\ tasks \in SUBSET Task

\* TypeOK after a step is the conjunction of its parts.
LEMMA TypeParts == LocksType' /\ CallsType' /\ TasksType' => TypeOK'
  BY DEF TypeOK, LocksType, CallsType, TasksType

\* Parts that a step leaves alone stay what they are.
LEMMA TypePartsUnchanged ==
  ASSUME TypeOK
  PROVE  /\ UNCHANGED <<clock, locks, agentLocks, used, claims, revoked>> => LocksType'
         /\ UNCHANGED <<waiting, calls>> => CallsType'
         /\ UNCHANGED <<sweep, tasks>> => TasksType'
  BY DEF TypeOK, LocksType, CallsType, TasksType

\* The members of Task.
LEMMA TaskMembers ==
  ASSUME NEW r \in Resources, NEW a \in Agents, NEW id \in LockIds,
         NEW c \in Calls \cup {"none"}
  PROVE  /\ Persisting(r, a, id) \in Task
         /\ Persisting(r, a, id).kind = "persist"
         /\ [kind |-> "notify", resource |-> r, id |-> id] \in Task
         /\ [kind |-> "grant", call |-> c, resource |-> r, agent |-> a] \in Task
  BY DEF Task, Persisting

\* The fields of a goroutine.
LEMMA TaskFields ==
  ASSUME NEW t \in Task
  PROVE  /\ t.resource \in Resources
         /\ t.kind \in {"persist", "grant"} => t.agent \in Agents
         /\ t.kind \in {"persist", "notify"} => t.id \in LockIds
         /\ t.kind = "grant" => t.call \in Calls \cup {"none"}
  BY DEF Task

\* A lock in m.locks.
LEMMA LockFields ==
  ASSUME TypeOK, NEW r \in Resources, locks[r] # NoLock
  PROVE  /\ locks[r] \in Lock
         /\ locks[r].agent \in Agents /\ locks[r].id \in LockIds
         /\ locks[r].expires \in Nat
  BY DEF TypeOK, Lock

\* The claims after a handle was handed out or extended.
LEMMA ClaimsType ==
  ASSUME TypeOK, NEW r \in Resources, NEW a \in Agents, NEW id \in LockIds,
         NEW given \in BOOLEAN
  PROVE  Claims(r, a, id, given) \in SUBSET Claim
  <1>1. clock + TTL \in Nat
    BY Durations DEF TypeOK
  <1>2. [resource |-> r, agent |-> a, id |-> id, expires |-> clock + TTL] \in Claim
    BY <1>1 DEF Claim
  <1> QED BY <1>2 DEF Claims, TypeOK

\* The lock of one resource with its expiry moved.
LEMMA LockExtended ==
  ASSUME TypeOK, NEW r \in Resources, locks[r] # NoLock,
         locks' = [locks EXCEPT ![r].expires = clock + TTL]
  PROVE  /\ locks' \in [Resources -> Lock \cup {NoLock}]
         /\ \A s \in Resources \ {r} : locks'[s] = locks[s]
         /\ locks'[r] = [agent |-> locks[r].agent, expires |-> clock + TTL,
                         id |-> locks[r].id]
         /\ locks'[r] # NoLock
         /\ locks'[r].id = locks[r].id /\ locks'[r].agent = locks[r].agent
         /\ locks'[r].expires = clock + TTL
  <1>1. clock + TTL \in Nat /\ locks \in [Resources -> Lock \cup {NoLock}]
    BY Durations DEF TypeOK
  <1> DEFINE l == [locks[r] EXCEPT !.expires = clock + TTL]
  <1>2. l \in Lock
        /\ l = [agent |-> locks[r].agent, expires |-> clock + TTL, id |-> locks[r].id]
        /\ l.id = locks[r].id /\ l.agent = locks[r].agent /\ l.expires = clock + TTL
    BY <1>1, LockFields DEF Lock
  <1>3. locks' = [locks EXCEPT ![r] = l]
    BY <1>1
  <1> HIDE DEF l
  <1>4. locks'[r] = l /\ locks' \in [Resources -> Lock \cup {NoLock}]
        /\ \A s \in Resources \ {r} : locks'[s] = locks[s]
    BY <1>1, <1>2, <1>3
  <1>5. l # NoLock
    BY <1>2, AbsentValues
  <1> QED BY <1>2, <1>4, <1>5

\* tryAcquireLock, extending.
LEMMA TryExtendsType ==
  ASSUME TypeOK, NEW r \in Resources, NEW a \in Agents, NEW given \in BOOLEAN,
         TryExtends(r, a, given)
  PROVE  LocksType' /\ locks[r].id \in LockIds /\ locks[r] # NoLock
  <1>1. locks[r] # NoLock
    BY DEF TryExtends, Valid
  <1>2. locks[r].id \in LockIds /\ locks' \in [Resources -> Lock \cup {NoLock}]
    BY <1>1, LockFields, LockExtended DEF TryExtends
  <1>3. claims' \in SUBSET Claim
    BY <1>2, ClaimsType DEF TryExtends
  <1> QED BY <1>1, <1>2, <1>3 DEF TryExtends, LocksType, TypeOK

\* tryAcquireLock, creating.
LEMMA TryCreatesType ==
  ASSUME TypeOK, NEW r \in Resources, NEW a \in Agents, NEW given \in BOOLEAN,
         NEW id \in LockIds, TryCreates(r, a, id, given)
  PROVE  LocksType'
  <1>1. clock + TTL \in Nat
    BY Durations DEF TypeOK
  <1>2. [agent |-> a, expires |-> clock + TTL, id |-> id] \in Lock
    BY <1>1 DEF Lock
  <1>3. claims' \in SUBSET Claim
    BY ClaimsType DEF TryCreates
  <1> QED BY <1>2, <1>3 DEF TryCreates, LocksType, TypeOK

\* One call is replaced.
LEMMA CallReplaced ==
  ASSUME TypeOK, NEW c \in Calls, NEW x, x = NoCall \/ OpenCall(x),
         calls' = [calls EXCEPT ![c] = x]
  PROVE  /\ calls' \in [Calls -> Call \cup {NoCall}]
         /\ \A d \in Calls : calls'[d] = NoCall \/ calls'[d].todo # <<>>
         /\ calls'[c] = x
         /\ \A d \in Calls \ {c} : calls'[d] = calls[d]
  BY DEF TypeOK, OpenCall

\* An answer is put in the channel of a call.
LEMMA CallAnswered ==
  ASSUME TypeOK, NEW c \in Calls, calls[c] # NoCall,
         NEW v \in {"available", "error"},
         calls' = [calls EXCEPT ![c].result = v]
  PROVE  /\ calls' \in [Calls -> Call \cup {NoCall}]
         /\ \A d \in Calls : calls'[d] = NoCall \/ calls'[d].todo # <<>>
         /\ OpenCall(calls'[c])
         /\ calls'[c].stage = calls[c].stage /\ calls'[c].agent = calls[c].agent
         /\ calls'[c].todo = calls[c].todo /\ calls'[c].got = calls[c].got
         /\ calls'[c].result = v
         /\ \A d \in Calls \ {c} : calls'[d] = calls[d]
  <1> DEFINE x == [calls[c] EXCEPT !.result = v]
  <1>1. OpenCall(calls[c]) /\ calls' = [calls EXCEPT ![c] = x]
    BY StageIsOpen DEF TypeOK
  <1>2. OpenCall(x) /\ x.stage = calls[c].stage /\ x.agent = calls[c].agent
        /\ x.todo = calls[c].todo /\ x.got = calls[c].got /\ x.result = v
    BY <1>1 DEF OpenCall, Call
  <1> HIDE DEF x
  <1> QED BY <1>1, <1>2, CallReplaced

\* sort.Strings returns a list of the same length, in order.
LEMMA SortingsType ==
  ASSUME NEW req \in Requests, NEW s \in Sortings(req)
  PROVE  /\ s \in Seq(Resources) /\ s # <<>>
         /\ \A i, j \in 1..Len(s) : i < j => s[i] <= s[j]
  <1>1. req \in Seq(Resources) /\ req # <<>>
    BY RequestsAreLists
  <1>2. Len(req) \in Nat \ {0}
    BY <1>1
  <1>3. s \in [1..Len(req) -> Resources]
        /\ \A i, j \in 1..Len(req) : i < j => s[i] <= s[j]
    BY DEF Sortings
  <1>4. s \in Seq(Resources) /\ Len(s) = Len(req)
    BY <1>2, <1>3
  <1> QED BY <1>2, <1>3, <1>4

\* Nothing will be put in the channel of the call.
Quiet(c) ==
    /\ \A r \in Resources : waiting[r] # c
    /\ \A t \in tasks : t.kind = "grant" => t.call # c

\* A call outside the select statement, or with an answer, gets no other.
LEMMA QuietCall ==
  ASSUME WaitInv, NEW c \in Calls,
         calls[c].stage \notin {"wait", "leave"} \/ calls[c].result # "none"
  PROVE  Quiet(c)
  BY NoneIsReserved DEF WaitInv, RegisteredWaits, GrantInv, Quiet

\* A step of a quiet call.
LEMMA QuietStep ==
  ASSUME WaitInv, TypeOK', waiting' = waiting, NEW c \in Calls, Quiet(c),
         \A t \in tasks' : t.kind = "grant" => t \in tasks,
         \A d \in Calls \ {c} : calls'[d] = calls[d],
         StageOK(calls'[c])
  PROVE  WaitInv'
  <1>1. RegisteredWaits'
    BY DEF WaitInv, RegisteredWaits, Quiet, TypeOK
  <1>2. GrantInv'
    <2> SUFFICES ASSUME NEW t \in tasks', t.kind = "grant", t.call # "none"
                 PROVE  /\ calls'[t.call].stage \in {"wait", "leave"}
                        /\ calls'[t.call].result = "none"
                        /\ \A r \in Resources : waiting'[r] # t.call
                        /\ \A u \in tasks' : u.kind = "grant" /\ u.call = t.call => u = t
      BY DEF GrantInv
    <2>1. t \in tasks /\ t \in Task
      BY DEF WaitInv, TypeOK
    <2>2. t.call \in Calls \ {c}
      BY <2>1, TaskFields DEF Quiet
    <2> QED BY <2>1, <2>2 DEF WaitInv, GrantInv
  <1>3. StagesOK'
    BY DEF WaitInv, StagesOK
  <1> QED BY <1>1, <1>2, <1>3 DEF WaitInv

\* A step that touches no call.
LEMMA NoCallStep ==
  ASSUME WaitInv, TypeOK', waiting' = waiting, calls' = calls,
         \A t \in tasks' : t.kind = "grant" => t \in tasks
  PROVE  WaitInv'
  <1>1. RegisteredWaits'
    BY DEF WaitInv, RegisteredWaits
  <1>2. GrantInv'
    BY DEF WaitInv, GrantInv
  <1>3. StagesOK'
    BY DEF WaitInv, StagesOK
  <1> QED BY <1>1, <1>2, <1>3 DEF WaitInv

\* A new lock manager has nobody waiting.
LEMMA InitWaitInv == Init => WaitInv
  <1> SUFFICES ASSUME Init PROVE WaitInv
    OBVIOUS
  <1>1. TypeOK
    BY DEF Init, TypeOK
  <1>2. RegisteredWaits
    BY DEF Init, RegisteredWaits
  <1>3. GrantInv /\ StagesOK
    BY DEF Init, GrantInv, StagesOK, NoCall, HasToUndo
  <1> QED BY <1>1, <1>2, <1>3 DEF WaitInv

\* The clock moves.
LEMMA TickWaitInv == WaitInv /\ Tick => WaitInv'
  <1> SUFFICES ASSUME WaitInv, Tick PROVE WaitInv'
    OBVIOUS
  <1>0. TypeOK
    BY DEF WaitInv
  <1>1. LocksType'
    BY <1>0 DEF Tick, TypeOK, LocksType
  <1>2. TypeOK'
    BY <1>0, <1>1, TypePartsUnchanged, TypeParts DEF Tick
  <1> QED BY <1>2, NoCallStep DEF Tick

\* A call begins.
LEMMA BeginWaitInv ==
  ASSUME WaitInv, NEW c \in Calls, NEW a \in Agents, NEW req \in Requests,
         Begin(c, a, req)
  PROVE  WaitInv'
  <1>0. TypeOK
    BY DEF WaitInv
  <1>1. PICK s \in Sortings(req) : calls' = [calls EXCEPT ![c] =
              [stage |-> "try", agent |-> a, todo |-> s, got |-> <<>>,
               result |-> "none", failed |-> FALSE, deadline |-> 0]]
    BY DEF Begin
  <1> DEFINE x == [stage |-> "try", agent |-> a, todo |-> s, got |-> <<>>,
               result |-> "none", failed |-> FALSE, deadline |-> 0]
  <1>2. s \in Seq(Resources) /\ s # <<>>
    BY SortingsType
  <1>3. OpenCall(x) /\ x.stage = "try" /\ x.result = "none"
    BY <1>2 DEF OpenCall, Call
  <1> HIDE DEF x
  <1>4. /\ calls' \in [Calls -> Call \cup {NoCall}]
        /\ \A d \in Calls : calls'[d] = NoCall \/ calls'[d].todo # <<>>
        /\ calls'[c] = x
        /\ \A d \in Calls \ {c} : calls'[d] = calls[d]
    BY <1>0, <1>1, <1>3, CallReplaced DEF x
  <1>5. TypeOK'
    BY <1>0, <1>4 DEF Begin, TypeOK
  <1>6. Quiet(c)
    BY QuietCall DEF Begin, NoCall
  <1> QED BY <1>3, <1>4, <1>5, <1>6, QuietStep DEF Begin, HasToUndo

\* A call tries to acquire the resource in hand.
LEMMA TryWaitInv ==
  ASSUME WaitInv, NEW c \in Calls, Try(c)
  PROVE  WaitInv'
  <1> DEFINE x == calls[c]
             r == Head(x.todo)
  <1>0. TypeOK /\ x.stage \in {"try", "retry"} /\ waiting' = waiting
    BY DEF WaitInv, Try
  <1>1. x # NoCall /\ OpenCall(x)
    BY <1>0, StageIsOpen DEF NoCall
  <1>2. r \in Resources /\ x.agent \in Agents
    BY <1>1, HeadOfCall
  <1>3. Quiet(c)
    BY <1>0, QuietCall
  <1>4. ASSUME NEW y, y = NoCall \/ OpenCall(y),
               StageOK(y),
               calls' = [calls EXCEPT ![c] = y], LocksType', TasksType',
               \A t \in tasks' : t.kind = "grant" => t \in tasks
        PROVE  WaitInv'
    <2>1. /\ calls' \in [Calls -> Call \cup {NoCall}]
          /\ \A d \in Calls : calls'[d] = NoCall \/ calls'[d].todo # <<>>
          /\ calls'[c] = y
          /\ \A d \in Calls \ {c} : calls'[d] = calls[d]
      BY <1>0, <1>4, CallReplaced
    <2>2. TypeOK'
      BY <1>0, <1>4, <2>1, TypeParts DEF CallsType, TypeOK
    <2> QED BY <1>0, <1>3, <1>4, <2>1, <2>2, QuietStep
  <1>5. CASE /\ TryExtends(r, x.agent, TRUE)
             /\ calls' = [calls EXCEPT ![c] = Succeeded(c, locks[r].id)]
             /\ UNCHANGED tasks
    <2>1. LocksType' /\ locks[r].id \in LockIds
      BY <1>0, <1>2, <1>5, TryExtendsType
    <2>2. TasksType'
      BY <1>0, <1>5, TypePartsUnchanged DEF TryExtends
    <2> DEFINE y == Succeeded(c, locks[r].id)
    <2> HIDE DEF y
    <2>3. /\ y = NoCall \/ OpenCall(y)
          /\ StageOK(y)
      <3>1. y = Succeeded(c, locks[r].id)
        BY DEF y
      <3>2. y = NoCall \/ (OpenCall(y) /\ y.stage \in {"try", "leave"}
                            /\ (y.stage = "try" => y.result = "none"))
        BY <1>0, <2>1, <3>1, SucceededCall
      <3> QED BY <3>2 DEF NoCall, HasToUndo
    <2> QED BY <1>4, <1>5, <2>1, <2>2, <2>3 DEF y
  <1>6. ASSUME NEW id \in LockIds, TryCreates(r, x.agent, id, TRUE),
               calls' = [calls EXCEPT ![c] = Succeeded(c, id)],
               Spawn({}, {Persisting(r, x.agent, id)})
        PROVE  WaitInv'
    <2>1. LocksType'
      BY <1>0, <1>2, <1>6, TryCreatesType
    <2> DEFINE p == Persisting(r, x.agent, id)
    <2>2. p \in Task /\ p.kind = "persist"
      BY <1>2, TaskMembers
    <2>3. tasks' = tasks \cup {p}
      BY <1>6 DEF Spawn
    <2> HIDE DEF p
    <2>4. TasksType' /\ \A t \in tasks' : t.kind = "grant" => t \in tasks
      BY <1>0, <1>6, <2>2, <2>3 DEF TasksType, TypeOK, TryCreates
    <2> DEFINE y == Succeeded(c, id)
    <2> HIDE DEF y
    <2>5. /\ y = NoCall \/ OpenCall(y)
          /\ StageOK(y)
      <3>1. y = Succeeded(c, id)
        BY DEF y
      <3>2. y = NoCall \/ (OpenCall(y) /\ y.stage \in {"try", "leave"}
                            /\ (y.stage = "try" => y.result = "none"))
        BY <1>0, <3>1, SucceededCall
      <3> QED BY <3>2 DEF NoCall, HasToUndo
    <2> QED BY <1>4, <1>6, <2>1, <2>4, <2>5 DEF y
  <1>7. ASSUME UNCHANGED <<clock, locks, agentLocks, sweep, tasks, used, claims, revoked>>,
               calls' = [calls EXCEPT ![c] = Failed(c)]
        PROVE  WaitInv'
    <2>1. LocksType' /\ TasksType'
      BY <1>0, <1>7, TypePartsUnchanged
    <2> DEFINE y == Failed(c)
    <2>2. /\ y = NoCall \/ OpenCall(y)
          /\ StageOK(y)
      BY <1>0, FailedCall DEF NoCall, HasToUndo
    <2> HIDE DEF y
    <2> QED BY <1>4, <1>7, <2>1, <2>2 DEF y
  <1>8. CASE /\ Refused(r, x.agent) /\ x.stage = "try"
             /\ calls' = [calls EXCEPT ![c] = [x EXCEPT !.stage = "register"]]
             /\ UNCHANGED <<clock, locks, agentLocks, sweep, tasks, used, claims,
                            revoked>>
    <2>1. LocksType' /\ TasksType'
      BY <1>0, <1>8, TypePartsUnchanged
    <2> DEFINE y == [x EXCEPT !.stage = "register"]
    <2>2. x.result = "none"
      BY <1>8 DEF WaitInv, StagesOK
    <2>3. OpenCall(y) /\ y.result = x.result /\ y.stage = "register"
      BY <1>1 DEF OpenCall, Call
    <2> HIDE DEF y
    <2> QED BY <1>4, <1>8, <2>1, <2>2, <2>3 DEF y, HasToUndo
  <1> QED BY <1>0, <1>5, <1>6, <1>7, <1>8 DEF Try

\* A refused call registers itself, in whoever's place.
LEMMA RegisterWaitInv ==
  ASSUME WaitInv, NEW c \in Calls, Register(c)
  PROVE  WaitInv'
  <1> DEFINE x == calls[c]
             y == [x EXCEPT !.stage = "wait", !.deadline = clock + Timeout]
             q == Head(x.todo)
  <1>0. TypeOK /\ x.stage = "register" /\ x.result = "none"
    BY DEF WaitInv, Register, StagesOK
  <1>1. OpenCall(x)
    BY <1>0, StageIsOpen DEF NoCall
  <1>2. q \in Resources
    BY <1>1, HeadOfCall
  <1>3. clock + Timeout \in Nat
    BY <1>0, Durations DEF TypeOK
  <1>4. OpenCall(y) /\ y.stage = "wait" /\ y.result = x.result /\ y.todo = x.todo
    BY <1>1, <1>3 DEF OpenCall, Call
  <1>5. calls' = [calls EXCEPT ![c] = y] /\ waiting' = [waiting EXCEPT ![q] = c]
    BY DEF Register
  <1> HIDE DEF y
  <1>6. /\ calls' \in [Calls -> Call \cup {NoCall}]
        /\ \A d \in Calls : calls'[d] = NoCall \/ calls'[d].todo # <<>>
        /\ calls'[c] = y
        /\ \A d \in Calls \ {c} : calls'[d] = calls[d]
    BY <1>0, <1>4, <1>5, CallReplaced
  <1>7. /\ waiting' \in [Resources -> Calls \cup {"none"}]
        /\ waiting'[q] = c
        /\ \A r \in Resources \ {q} : waiting'[r] = waiting[r]
    BY <1>0, <1>2, <1>5 DEF TypeOK
  <1>8. TypeOK'
    BY <1>0, <1>6, <1>7 DEF Register, TypeOK
  <1>9. Quiet(c)
    BY <1>0, QuietCall
  <1>10. tasks' = tasks
    BY DEF Register
  <1>11. RegisteredWaits'
    <2> SUFFICES ASSUME NEW r \in Resources, waiting'[r] # "none"
                 PROVE  /\ calls'[waiting'[r]].stage \in {"wait", "leave"}
                        /\ Head(calls'[waiting'[r]].todo) = r
                        /\ calls'[waiting'[r]].result = "none"
      BY DEF RegisteredWaits
    <2>1. CASE r = q
      BY <1>0, <1>4, <1>6, <1>7, <2>1
    <2>2. CASE r # q
      <3>1. waiting'[r] = waiting[r] /\ waiting[r] \in Calls \ {c}
        BY <1>7, <1>9, <2>2 DEF Quiet
      <3> QED BY <1>6, <3>1 DEF WaitInv, RegisteredWaits
    <2> QED BY <2>1, <2>2
  <1>12. GrantInv'
    <2> SUFFICES ASSUME NEW t \in tasks, t.kind = "grant", t.call # "none"
                 PROVE  /\ calls'[t.call].stage \in {"wait", "leave"}
                        /\ calls'[t.call].result = "none"
                        /\ \A r \in Resources : waiting'[r] # t.call
                        /\ \A u \in tasks : u.kind = "grant" /\ u.call = t.call => u = t
      BY <1>10 DEF GrantInv
    <2>1. t.call \in Calls \ {c}
      BY <1>0, <1>9, TaskFields DEF Quiet, TypeOK
    <2> QED BY <1>6, <1>7, <2>1 DEF WaitInv, GrantInv
  <1>13. StagesOK'
    BY <1>4, <1>6 DEF WaitInv, StagesOK, HasToUndo
  <1> QED BY <1>8, <1>11, <1>12, <1>13 DEF WaitInv

\* A waiting call takes its answer.
LEMMA WokenWaitInv ==
  ASSUME WaitInv, NEW c \in Calls, Woken(c)
  PROVE  WaitInv'
  <1> DEFINE x == calls[c]
             y == IF x.result = "error"
                  THEN [x EXCEPT !.stage = "leave", !.failed = TRUE]
                  ELSE [x EXCEPT !.stage = "retry", !.result = "none"]
  <1>0. TypeOK /\ x.stage = "wait" /\ x.result # "none"
        /\ calls' = [calls EXCEPT ![c] = y]
    BY DEF WaitInv, Woken
  <1>1. OpenCall(x)
    BY <1>0, StageIsOpen DEF NoCall
  <1>2. OpenCall(y) /\ y.stage \in {"leave", "retry"}
    BY <1>1 DEF OpenCall, Call
  <1> HIDE DEF y
  <1>3. /\ calls' \in [Calls -> Call \cup {NoCall}]
        /\ \A d \in Calls : calls'[d] = NoCall \/ calls'[d].todo # <<>>
        /\ calls'[c] = y
        /\ \A d \in Calls \ {c} : calls'[d] = calls[d]
    BY <1>0, <1>2, CallReplaced
  <1>4. TypeOK'
    BY <1>0, <1>3 DEF Woken, TypeOK
  <1>5. Quiet(c)
    BY <1>0, QuietCall
  <1> QED BY <1>2, <1>3, <1>4, <1>5, QuietStep DEF Woken, HasToUndo

\* The context of a waiting call ends.
LEMMA ContextDoneWaitInv ==
  ASSUME WaitInv, NEW c \in Calls, ContextDone(c)
  PROVE  WaitInv'
  <1> DEFINE x == calls[c]
             y == [x EXCEPT !.stage = "leave", !.failed = TRUE]
  <1>0. TypeOK /\ x.stage = "wait" /\ calls' = [calls EXCEPT ![c] = y]
        /\ waiting' = waiting /\ tasks' = tasks
    BY DEF WaitInv, ContextDone, TypeOK
  <1>1. OpenCall(x)
    BY <1>0, StageIsOpen DEF NoCall
  <1>2. OpenCall(y) /\ y.stage = "leave" /\ y.result = x.result /\ y.todo = x.todo
    BY <1>1 DEF OpenCall, Call
  <1> HIDE DEF y
  <1>3. /\ calls' \in [Calls -> Call \cup {NoCall}]
        /\ \A d \in Calls : calls'[d] = NoCall \/ calls'[d].todo # <<>>
        /\ calls'[c] = y
        /\ \A d \in Calls \ {c} : calls'[d] = calls[d]
    BY <1>0, <1>2, CallReplaced
  <1>4. TypeOK'
    BY <1>0, <1>3 DEF ContextDone, TypeOK
  <1>5. \A d \in Calls : calls[d].stage \in {"wait", "leave"} =>
            /\ calls'[d].stage \in {"wait", "leave"}
            /\ calls'[d].result = calls[d].result
            /\ calls'[d].todo = calls[d].todo
    BY <1>2, <1>3
  <1>6. RegisteredWaits'
    BY <1>0, <1>5 DEF WaitInv, RegisteredWaits, TypeOK
  <1>7. GrantInv'
    <2> SUFFICES ASSUME NEW t \in tasks, t.kind = "grant", t.call # "none"
                 PROVE  /\ calls'[t.call].stage \in {"wait", "leave"}
                        /\ calls'[t.call].result = "none"
                        /\ \A r \in Resources : waiting[r] # t.call
                        /\ \A u \in tasks : u.kind = "grant" /\ u.call = t.call => u = t
      BY <1>0 DEF GrantInv
    <2>1. t.call \in Calls
      BY <1>0, TaskFields DEF TypeOK
    <2> QED BY <1>5, <2>1 DEF WaitInv, GrantInv
  <1>8. StagesOK'
    BY <1>2, <1>3 DEF WaitInv, StagesOK, HasToUndo
  <1> QED BY <1>4, <1>6, <1>7, <1>8 DEF WaitInv

\* A call leaves: its request and its claim to a grant go.
LEMMA LeaveWaitInv ==
  ASSUME WaitInv, NEW c \in Calls, Leave(c)
  PROVE  WaitInv'
  <1> DEFINE x == calls[c]
             y == Returned(x, ~x.failed)
             q == Head(x.todo)
             Orphan(t) == IF t.kind = "grant" /\ t.call = c
                          THEN [t EXCEPT !.call = "none"] ELSE t
  <1>0. TypeOK /\ x.stage = "leave" /\ calls' = [calls EXCEPT ![c] = y]
        /\ tasks' = {Orphan(t) : t \in tasks}
        /\ waiting' = IF waiting[q] = c THEN [waiting EXCEPT ![q] = "none"]
                      ELSE waiting
    BY DEF WaitInv, Leave
  <1>1. OpenCall(x)
    BY <1>0, StageIsOpen DEF NoCall
  <1>2. q \in Resources /\ (~x.failed) \in BOOLEAN
    BY <1>1, HeadOfCall
  <1>3. /\ y = NoCall \/ OpenCall(y)
        /\ StageOK(y)
    <2> HIDE DEF y
    <2>1. \/ y = NoCall
          \/ /\ OpenCall(y)
             /\ y.stage \in {"try", "undo"}
             /\ y.stage = "try" => y.result = "none"
             /\ y.agent = x.agent /\ y.got = x.got
             /\ y.todo \in {x.todo, Tail(x.todo)}
             /\ HasToUndo(y)
      <3>1. y = Returned(x, TRUE) \/ y = Returned(x, FALSE)
        BY DEF y, Returned
      <3> QED BY <1>1, <3>1, ReturnedCall
    <2> QED BY <2>1 DEF NoCall, HasToUndo
  <1> HIDE DEF y
  <1>4. /\ calls' \in [Calls -> Call \cup {NoCall}]
        /\ \A d \in Calls : calls'[d] = NoCall \/ calls'[d].todo # <<>>
        /\ calls'[c] = y
        /\ \A d \in Calls \ {c} : calls'[d] = calls[d]
    BY <1>0, <1>3, CallReplaced
  <1>5. /\ waiting' \in [Resources -> Calls \cup {"none"}]
        /\ \A r \in Resources : waiting'[r] # c
        /\ \A r \in Resources : waiting'[r] \in {waiting[r], "none"}
    <2>1. \A r \in Resources : waiting[r] = c => r = q
      BY NoneIsReserved DEF WaitInv, RegisteredWaits
    <2> QED BY <1>0, <1>2, <2>1, NoneIsReserved DEF TypeOK
  <1>6. \A t \in tasks : /\ Orphan(t) \in Task
                         /\ Orphan(t).kind = t.kind
                         /\ t.kind = "grant" => Orphan(t).call # c
                         /\ t.kind = "grant" /\ Orphan(t).call # "none" => Orphan(t) = t
    <2> SUFFICES ASSUME NEW t \in tasks
                 PROVE  /\ Orphan(t) \in Task
                        /\ Orphan(t).kind = t.kind
                        /\ t.kind = "grant" => Orphan(t).call # c
                        /\ t.kind = "grant" /\ Orphan(t).call # "none" => Orphan(t) = t
      OBVIOUS
    <2>1. t \in Task
      BY <1>0 DEF TypeOK
    <2>2. CASE t.kind = "grant" /\ t.call = c
      <3>1. t \in [kind : {"grant"}, call : Calls \cup {"none"}, resource : Resources,
                   agent : Agents]
        BY <2>1, <2>2 DEF Task
      <3>2. Orphan(t) = [t EXCEPT !.call = "none"]
        BY <2>2
      <3>3. Orphan(t) = [kind |-> "grant", call |-> "none", resource |-> t.resource,
                         agent |-> t.agent]
        BY <3>1, <3>2
      <3> HIDE DEF Orphan
      <3>4. Orphan(t) \in Task
        BY <3>1, <3>3, TaskMembers DEF Task
      <3> QED BY <2>2, <3>3, <3>4, NoneIsReserved
    <2>3. CASE ~(t.kind = "grant" /\ t.call = c)
      BY <2>1, <2>3
    <2> QED BY <2>2, <2>3
  <1> HIDE DEF Orphan
  <1>7. TypeOK'
    BY <1>0, <1>4, <1>5, <1>6 DEF Leave, TypeOK
  <1>8. RegisteredWaits'
    <2> SUFFICES ASSUME NEW r \in Resources, waiting'[r] # "none"
                 PROVE  /\ calls'[waiting'[r]].stage \in {"wait", "leave"}
                        /\ Head(calls'[waiting'[r]].todo) = r
                        /\ calls'[waiting'[r]].result = "none"
      BY DEF RegisteredWaits
    <2>1. waiting'[r] = waiting[r] /\ waiting[r] \in Calls \ {c}
      BY <1>5
    <2> QED BY <1>4, <2>1 DEF WaitInv, RegisteredWaits
  <1>9. GrantInv'
    <2> SUFFICES ASSUME NEW t \in tasks', t.kind = "grant", t.call # "none"
                 PROVE  /\ calls'[t.call].stage \in {"wait", "leave"}
                        /\ calls'[t.call].result = "none"
                        /\ \A r \in Resources : waiting'[r] # t.call
                        /\ \A u \in tasks' : u.kind = "grant" /\ u.call = t.call => u = t
      BY DEF GrantInv
    <2>1. \A u \in tasks' : u.kind = "grant" /\ u.call # "none" =>
             u \in tasks /\ u.call # c
      BY <1>0, <1>6
    <2>2. t \in tasks /\ t.call \in Calls \ {c}
      BY <1>0, <2>1, TaskFields DEF TypeOK
    <2> QED BY <1>4, <1>5, <2>1, <2>2 DEF WaitInv, GrantInv
  <1>10. StagesOK'
    BY <1>3, <1>4 DEF WaitInv, StagesOK
  <1> QED BY <1>7, <1>8, <1>9, <1>10 DEF WaitInv

\* What Release changes.
LEMMA ReleaseType ==
  ASSUME TypeOK, NEW r \in Resources, NEW a \in Agents, NEW id \in LockIds,
         Release(r, a, id)
  PROVE  /\ LocksType' /\ TasksType'
         /\ \A t \in tasks' : t.kind = "grant" => t \in tasks
         /\ waiting' = waiting
  <1> DEFINE n == [kind |-> "notify", resource |-> r, id |-> id]
  <1>1. n \in Task /\ n.kind = "notify"
    BY TaskMembers, NoneIsReserved
  <1>2. tasks' = tasks \cup {n}
    BY DEF Release, Spawn
  <1> HIDE DEF n
  <1>3. LocksType'
    BY DEF Release, TypeOK, LocksType
  <1> QED BY <1>1, <1>2, <1>3 DEF Release, TypeOK, TasksType

\* A lock is released.
LEMMA ReleaseLockWaitInv ==
  ASSUME WaitInv, NEW r \in Resources, NEW a \in Agents, NEW id \in used,
         ReleaseLock(r, a, id)
  PROVE  WaitInv'
  <1>0. TypeOK /\ id \in LockIds /\ calls' = calls
    BY DEF WaitInv, ReleaseLock, TypeOK
  <1>1. /\ LocksType' /\ TasksType'
        /\ \A t \in tasks' : t.kind = "grant" => t \in tasks
        /\ waiting' = waiting
    BY <1>0, ReleaseType DEF ReleaseLock
  <1>2. TypeOK'
    BY <1>0, <1>1, TypePartsUnchanged, TypeParts
  <1> QED BY <1>0, <1>1, <1>2, NoCallStep

\* A call rolls back one of its locks.
LEMMA UndoWaitInv ==
  ASSUME WaitInv, NEW c \in Calls, Undo(c)
  PROVE  WaitInv'
  <1> DEFINE x == calls[c]
             y == IF Len(x.got) = 1 THEN NoCall ELSE [x EXCEPT !.got = Tail(x.got)]
             h == Head(x.got)
  <1>0. TypeOK /\ x.stage = "undo" /\ x.got # <<>> /\ calls' = [calls EXCEPT ![c] = y]
    BY DEF WaitInv, Undo, StagesOK, HasToUndo
  <1>1. OpenCall(x)
    BY <1>0, StageIsOpen DEF NoCall
  <1>2. h \in Handle /\ Tail(x.got) \in Seq(Handle) /\ x.agent \in Agents
        /\ Len(Tail(x.got)) = Len(x.got) - 1 /\ Len(x.got) \in Nat
    BY <1>0, <1>1, HeadTailProperties DEF OpenCall, Call
  <1>3. y = NoCall \/ (OpenCall(y) /\ y.stage = "undo" /\ y.got # <<>>)
    <2>1. CASE Len(x.got) = 1
      BY <2>1
    <2>2. CASE Len(x.got) # 1
      <3>0. Len(Tail(x.got)) # 0
        BY <1>2, <2>2
      <3>1. Tail(x.got) # <<>>
        BY <1>2, <3>0, EmptySeq
      <3> QED BY <1>0, <1>1, <1>2, <2>2, <3>1 DEF OpenCall, Call
    <2> QED BY <2>1, <2>2
  <1> HIDE DEF y
  <1>4. /\ calls' \in [Calls -> Call \cup {NoCall}]
        /\ \A d \in Calls : calls'[d] = NoCall \/ calls'[d].todo # <<>>
        /\ calls'[c] = y
        /\ \A d \in Calls \ {c} : calls'[d] = calls[d]
    BY <1>0, <1>3, CallReplaced
  <1>5. /\ LocksType' /\ TasksType'
        /\ \A t \in tasks' : t.kind = "grant" => t \in tasks
        /\ waiting' = waiting
    <2>1. h.resource \in Resources /\ h.id \in LockIds
      BY <1>2 DEF Handle
    <2>2. CASE Release(h.resource, x.agent, h.id)
      BY <1>0, <1>2, <2>1, <2>2, ReleaseType
    <2>3. CASE UNCHANGED <<clock, locks, agentLocks, waiting, sweep, tasks, used,
                            claims, revoked>>
      BY <1>0, <2>3, TypePartsUnchanged
    <2> QED BY <2>2, <2>3 DEF Undo
  <1>6. TypeOK'
    BY <1>0, <1>4, <1>5, TypeParts DEF CallsType, TypeOK
  <1>7. Quiet(c)
    BY <1>0, QuietCall
  <1> QED BY <1>3, <1>4, <1>5, <1>6, <1>7, QuietStep DEF NoCall, HasToUndo

\* A lock is extended.
LEMMA ExtendLockWaitInv ==
  ASSUME WaitInv, NEW r \in Resources, NEW a \in Agents, NEW id \in used,
         ExtendLock(r, a, id)
  PROVE  WaitInv'
  <1>0. TypeOK /\ id \in LockIds
    BY DEF WaitInv, TypeOK
  <1>1. locks' \in [Resources -> Lock \cup {NoLock}]
    BY <1>0, LockExtended DEF ExtendLock
  <1>2. claims' \in SUBSET Claim
    BY <1>0, ClaimsType DEF ExtendLock
  <1>3. TypeOK'
    BY <1>0, <1>1, <1>2 DEF ExtendLock, TypeOK
  <1> QED BY <1>3, NoCallStep DEF ExtendLock

\* A persisting goroutine ends, and may drop its lock.
LEMMA PersistWaitInv ==
  ASSUME WaitInv, NEW t \in tasks, PersistFailed(t) \/ Persisted(t)
  PROVE  WaitInv'
  <1>0. TypeOK /\ t \in Task /\ t.kind = "persist"
    BY DEF WaitInv, TypeOK, PersistFailed, Persisted
  <1>1. t.resource \in Resources /\ t.agent \in Agents /\ t.id \in LockIds
    BY <1>0, TaskFields
  <1>2. LocksType'
    BY <1>0, <1>1 DEF PersistFailed, Persisted, LocksType, TypeOK
  <1>3. /\ tasks' = tasks \ {t} /\ UNCHANGED <<waiting, calls, sweep>>
    BY DEF PersistFailed, Persisted
  <1>4. TypeOK'
    BY <1>0, <1>2, <1>3, TypeParts DEF CallsType, TasksType, TypeOK
  <1> QED BY <1>3, <1>4, NoCallStep

\* An answer goes to a call that waits for one: it was registered or a grant was
\* under way for it, and that is over.
LEMMA AnsweredStep ==
  ASSUME WaitInv, LocksType', TasksType',
         waiting' \in [Resources -> Calls \cup {"none"}],
         \A r \in Resources : waiting'[r] \in {waiting[r], "none"},
         \A u \in tasks' : u.kind = "grant" => u \in tasks,
         NEW c \in Calls, calls[c].stage \in {"wait", "leave"},
         NEW v \in {"available", "error"},
         calls' = [calls EXCEPT ![c].result = v],
         \A r \in Resources : waiting'[r] # c,
         \A u \in tasks' : u.kind = "grant" => u.call # c
  PROVE  WaitInv'
  <1>0. TypeOK /\ calls[c] # NoCall
    BY DEF WaitInv, NoCall
  <1>1. /\ calls' \in [Calls -> Call \cup {NoCall}]
        /\ \A d \in Calls : calls'[d] = NoCall \/ calls'[d].todo # <<>>
        /\ calls'[c].stage = calls[c].stage
        /\ \A d \in Calls \ {c} : calls'[d] = calls[d]
    BY <1>0, CallAnswered
  <1>2. TypeOK'
    BY <1>0, <1>1, TypeParts DEF CallsType
  <1>3. RegisteredWaits'
    <2> SUFFICES ASSUME NEW r \in Resources, waiting'[r] # "none"
                 PROVE  /\ calls'[waiting'[r]].stage \in {"wait", "leave"}
                        /\ Head(calls'[waiting'[r]].todo) = r
                        /\ calls'[waiting'[r]].result = "none"
      BY DEF RegisteredWaits
    <2>1. waiting'[r] = waiting[r] /\ waiting[r] \in Calls \ {c}
      OBVIOUS
    <2> QED BY <1>1, <2>1 DEF WaitInv, RegisteredWaits
  <1>4. GrantInv'
    <2> SUFFICES ASSUME NEW t \in tasks', t.kind = "grant", t.call # "none"
                 PROVE  /\ calls'[t.call].stage \in {"wait", "leave"}
                        /\ calls'[t.call].result = "none"
                        /\ \A r \in Resources : waiting'[r] # t.call
                        /\ \A u \in tasks' : u.kind = "grant" /\ u.call = t.call => u = t
      BY DEF GrantInv
    <2>1. t \in tasks /\ t.call \in Calls \ {c}
      BY <1>0, TaskFields DEF TypeOK
    <2> QED BY <1>1, <2>1 DEF WaitInv, GrantInv
  <1>5. StagesOK'
    BY <1>1 DEF WaitInv, StagesOK, HasToUndo
  <1> QED BY <1>2, <1>3, <1>4, <1>5 DEF WaitInv

\* The registered request of a resource is notified.
LEMMA NotifyWaitInv ==
  ASSUME WaitInv, NEW t \in tasks, Notify(t)
  PROVE  WaitInv'
  <1> DEFINE c == waiting[t.resource]
  <1>0. TypeOK /\ t \in Task /\ t.kind = "notify" /\ t.resource \in Resources
    BY TaskFields DEF WaitInv, TypeOK, Notify
  <1>1. LocksType' /\ TasksType' /\ \A u \in tasks' : u.kind = "grant" => u \in tasks
    BY <1>0 DEF Notify, TypeOK, LocksType, TasksType
  <1>2. CASE c = "none"
    <2>1. UNCHANGED <<waiting, calls>>
      BY <1>2 DEF Notify
    <2>2. TypeOK'
      BY <1>0, <1>1, <2>1, TypePartsUnchanged, TypeParts
    <2> QED BY <1>1, <2>1, <2>2, NoCallStep
  <1>3. CASE c # "none"
    <2>1. waiting' = [waiting EXCEPT ![t.resource] = "none"]
          /\ calls' = [calls EXCEPT ![c].result = "available"]
      BY <1>3 DEF Notify
    <2>2. c \in Calls /\ calls[c].stage \in {"wait", "leave"}
          /\ Head(calls[c].todo) = t.resource
      BY <1>0, <1>3 DEF WaitInv, RegisteredWaits, TypeOK
    <2>3. /\ waiting' \in [Resources -> Calls \cup {"none"}]
          /\ \A r \in Resources : waiting'[r] \in {waiting[r], "none"}
          /\ waiting'[t.resource] = "none"
          /\ \A r \in Resources \ {t.resource} : waiting'[r] = waiting[r]
      BY <1>0, <2>1 DEF TypeOK
    <2>4. \A r \in Resources : waiting'[r] # c
      BY <1>3, <2>2, <2>3, NoneIsReserved DEF WaitInv, RegisteredWaits
    <2>5. \A u \in tasks' : u.kind = "grant" => u.call # c
      BY <1>0, <1>1, <1>3 DEF WaitInv, GrantInv
    <2> HIDE DEF c
    <2> QED BY <1>1, <2>1, <2>2, <2>3, <2>4, <2>5, AnsweredStep
  <1> QED BY <1>2, <1>3

\* The granting goroutine tries and answers, if there is somebody to answer.
LEMMA GrantWaitInv ==
  ASSUME WaitInv, NEW t \in tasks, Grant(t)
  PROVE  WaitInv'
  <1> DEFINE a == t.agent
             r == t.resource
             c == t.call
  <1>0. TypeOK /\ t \in Task /\ t.kind = "grant" /\ waiting' = waiting
    BY DEF WaitInv, TypeOK, Grant
  <1>1. a \in Agents /\ r \in Resources /\ c \in Calls \cup {"none"}
    BY <1>0, TaskFields
  <1>2. ASSUME NEW v \in {"available", "error"}, Answer(c, v), LocksType', TasksType',
               \A u \in tasks' : u.kind = "grant" => u \in tasks \ {t}
        PROVE  WaitInv'
    <2>1. CASE c = "none"
      <3>1. calls' = calls
        BY <1>2, <2>1 DEF Answer
      <3>2. TypeOK'
        BY <1>0, <1>2, <3>1, TypePartsUnchanged, TypeParts
      <3> QED BY <1>0, <1>2, <3>1, <3>2, NoCallStep
    <2>2. CASE c # "none"
      <3>1. calls' = [calls EXCEPT ![c].result = v] /\ c \in Calls
        BY <1>1, <1>2, <2>2 DEF Answer
      <3>2. /\ calls[c].stage \in {"wait", "leave"}
            /\ \A s \in Resources : waiting[s] # c
            /\ \A u \in tasks : u.kind = "grant" /\ u.call = c => u = t
        BY <1>0, <2>2 DEF WaitInv, GrantInv
      <3>3. \A u \in tasks' : u.kind = "grant" => u.call # c
        BY <1>2, <3>2
      <3>4. waiting' \in [Resources -> Calls \cup {"none"}]
        BY <1>0 DEF TypeOK
      <3> HIDE DEF c
      <3> QED BY <1>0, <1>2, <3>1, <3>2, <3>3, <3>4, AnsweredStep
    <2> QED BY <2>1, <2>2
  <1>3. CASE TryExtends(r, a, FALSE) /\ Answer(c, "available") /\ tasks' = tasks \ {t}
    <2>1. LocksType'
      BY <1>0, <1>1, <1>3, TryExtendsType
    <2>2. TasksType'
      BY <1>0, <1>3 DEF TasksType, TypeOK, TryExtends
    <2> QED BY <1>2, <1>3, <2>1, <2>2
  <1>4. ASSUME NEW id \in LockIds, TryCreates(r, a, id, FALSE), Answer(c, "available"),
               Spawn({t}, {Persisting(r, a, id)})
        PROVE  WaitInv'
    <2>1. LocksType'
      BY <1>0, <1>1, <1>4, TryCreatesType
    <2> DEFINE p == Persisting(r, a, id)
    <2>2. p \in Task /\ p.kind = "persist"
      BY <1>1, TaskMembers
    <2>3. tasks' = (tasks \ {t}) \cup {p}
      BY <1>4 DEF Spawn
    <2> HIDE DEF p
    <2>4. TasksType' /\ \A u \in tasks' : u.kind = "grant" => u \in tasks \ {t}
      BY <1>0, <1>4, <2>2, <2>3 DEF TasksType, TypeOK, TryCreates
    <2> QED BY <1>2, <1>4, <2>1, <2>4
  <1>5. CASE Answer(c, "error") /\ tasks' = tasks \ {t}
             /\ UNCHANGED <<clock, locks, agentLocks, sweep, used, claims, revoked>>
    <2>1. LocksType'
      BY <1>0, <1>5, TypePartsUnchanged
    <2>2. TasksType'
      BY <1>0, <1>5 DEF TasksType, TypeOK
    <2> QED BY <1>2, <1>5, <2>1, <2>2
  <1> QED BY <1>3, <1>4, <1>5 DEF Grant

\* The periodic look at the registered requests.
LEMMA CheckWaitingWaitInv == WaitInv /\ CheckWaiting => WaitInv'
  <1> SUFFICES ASSUME WaitInv, CheckWaiting PROVE WaitInv'
    OBVIOUS
  <1> DEFINE late == {r \in Resources : /\ waiting[r] # "none"
                                        /\ clock > calls[waiting[r]].deadline}
             free == {r \in Resources : waiting[r] # "none" /\ locks[r] = NoLock} \ late
             G(r) == [kind |-> "grant", call |-> waiting[r], resource |-> r,
                      agent |-> calls[waiting[r]].agent]
             Late(c) == \E r \in late : waiting[r] = c
  <1>0. TypeOK
    BY DEF WaitInv
  <1>1. \A r \in late \cup free : /\ r \in Resources
                                  /\ waiting[r] \in Calls
                                  /\ calls[waiting[r]].stage \in {"wait", "leave"}
                                  /\ Head(calls[waiting[r]].todo) = r
                                  /\ calls[waiting[r]].result = "none"
    BY <1>0 DEF WaitInv, RegisteredWaits, TypeOK
  <1>2. /\ waiting' = [r \in Resources |-> IF r \in late \cup free THEN "none"
                                          ELSE waiting[r]]
        /\ calls' = [c \in Calls |-> IF Late(c)
                                     THEN [calls[c] EXCEPT !.result = "error"]
                                     ELSE calls[c]]
        /\ tasks' = tasks \cup {G(r) : r \in free}
        /\ UNCHANGED <<clock, locks, agentLocks, sweep, used, claims, revoked>>
    BY DEF CheckWaiting, Spawn
  <1>3. /\ late \cap free = {} /\ late \subseteq Resources /\ free \subseteq Resources
    OBVIOUS
  <1> HIDE DEF late, free
  <1>4. \A c \in Calls : Late(c) => OpenCall(calls[c])
    BY <1>0, <1>1, StageIsOpen DEF NoCall
  <1>5. \A c \in Calls : Late(c) => /\ OpenCall(calls'[c])
                                    /\ calls'[c].stage = calls[c].stage
    BY <1>2, <1>4 DEF OpenCall, Call
  <1>6. \A c \in Calls : ~Late(c) => calls'[c] = calls[c]
    BY <1>2
  <1>7. /\ waiting' \in [Resources -> Calls \cup {"none"}]
        /\ \A r \in late \cup free : waiting'[r] = "none"
        /\ \A r \in Resources \ (late \cup free) : waiting'[r] = waiting[r]
    BY <1>0, <1>2, <1>3 DEF TypeOK
  <1>8. \A r \in free : /\ G(r) \in Task /\ G(r).kind = "grant"
                        /\ G(r).call = waiting[r]
    <2> SUFFICES ASSUME NEW r \in free
                 PROVE  G(r) \in Task
      OBVIOUS
    <2>1. calls[waiting[r]] \in Call
      BY <1>0, <1>1, StageIsOpen DEF NoCall, OpenCall
    <2>2. calls[waiting[r]].agent \in Agents
      BY <2>1 DEF Call
    <2> QED BY <1>1, <2>2 DEF Task
  <1> HIDE DEF G, Late
  <1>9. CallsType'
    <2>1. calls' \in [Calls -> Call \cup {NoCall}]
      <3>1. \A c \in Calls : calls'[c] \in Call \cup {NoCall}
        BY <1>0, <1>5, <1>6 DEF TypeOK, OpenCall
      <3> QED BY <1>2, <3>1
    <2>2. \A c \in Calls : calls'[c] = NoCall \/ calls'[c].todo # <<>>
      BY <1>0, <1>5, <1>6 DEF TypeOK, OpenCall
    <2> QED BY <1>7, <2>1, <2>2 DEF CallsType
  <1>10. TasksType'
    BY <1>0, <1>2, <1>8 DEF TasksType, TypeOK
  <1>11. TypeOK'
    BY <1>0, <1>2, <1>9, <1>10, TypePartsUnchanged, TypeParts
  \* A call is registered for one resource at most.
  <1>12. \A r, s \in Resources : waiting[r] # "none" /\ waiting[r] = waiting[s] => r = s
    BY DEF WaitInv, RegisteredWaits
  <1>13. RegisteredWaits'
    <2> SUFFICES ASSUME NEW r \in Resources, waiting'[r] # "none"
                 PROVE  /\ calls'[waiting'[r]].stage \in {"wait", "leave"}
                        /\ Head(calls'[waiting'[r]].todo) = r
                        /\ calls'[waiting'[r]].result = "none"
      BY DEF RegisteredWaits
    <2>1. r \notin late \cup free /\ waiting'[r] = waiting[r] /\ waiting[r] \in Calls
      BY <1>7
    <2>2. ~Late(waiting[r])
      BY <1>3, <1>12, <2>1 DEF Late
    <2> QED BY <1>6, <2>1, <2>2 DEF WaitInv, RegisteredWaits
  <1>14. GrantInv'
    <2> SUFFICES ASSUME NEW t \in tasks', t.kind = "grant", t.call # "none"
                 PROVE  /\ calls'[t.call].stage \in {"wait", "leave"}
                        /\ calls'[t.call].result = "none"
                        /\ \A r \in Resources : waiting'[r] # t.call
                        /\ \A u \in tasks' : u.kind = "grant" /\ u.call = t.call => u = t
      BY DEF GrantInv
    <2>1. CASE t \in tasks
      <3>1. t.call \in Calls /\ \A r \in Resources : waiting[r] # t.call
        BY <1>0, <2>1, TaskFields DEF TypeOK, WaitInv, GrantInv
      <3>2. ~Late(t.call)
        BY <1>3, <3>1 DEF Late
      <3>3. \A r \in Resources : waiting'[r] # t.call
        BY <1>7, <3>1
      <3>4. \A u \in tasks' : u.kind = "grant" /\ u.call = t.call => u = t
        <4>1. \A r \in free : G(r).call # t.call
          BY <1>3, <1>8, <3>1
        <4> QED BY <1>2, <2>1, <4>1 DEF WaitInv, GrantInv
      <3> QED BY <1>6, <2>1, <3>1, <3>2, <3>3, <3>4 DEF WaitInv, GrantInv
    <2>2. CASE t \notin tasks
      <3>1. PICK r \in free : t = G(r)
        BY <1>2, <2>2
      <3>2. r \in Resources /\ t.call = waiting[r] /\ waiting[r] \in Calls
            /\ calls[waiting[r]].stage \in {"wait", "leave"}
            /\ calls[waiting[r]].result = "none"
        BY <1>1, <1>8, <3>1
      <3>3. ~Late(waiting[r])
        BY <1>3, <1>12, <3>2 DEF Late
      <3>4. \A s \in Resources : waiting'[s] # t.call
        BY <1>7, <1>12, <3>2
      <3>5. \A u \in tasks' : u.kind = "grant" /\ u.call = t.call => u = t
        <4>1. \A u \in tasks : u.kind = "grant" => u.call # t.call
          BY <3>2 DEF WaitInv, GrantInv
        <4>2. \A s \in free : G(s).call = t.call => G(s) = t
          BY <1>3, <1>8, <1>12, <3>1, <3>2
        <4> QED BY <1>2, <4>1, <4>2
      <3> QED BY <1>6, <3>2, <3>3, <3>4, <3>5
    <2> QED BY <2>1, <2>2
  <1>15. StagesOK'
    <2> SUFFICES ASSUME NEW c \in Calls PROVE StageOK(calls'[c])
      BY DEF StagesOK
    <2>1. CASE ~Late(c)
      BY <1>6, <2>1 DEF WaitInv, StagesOK
    <2>2. CASE Late(c)
      BY <1>1, <1>5, <2>2 DEF Late, HasToUndo
    <2> QED BY <2>1, <2>2
  <1> QED BY <1>11, <1>13, <1>14, <1>15 DEF WaitInv

\* The sweep of expired locks.
LEMMA CleanupWaitInv ==
  WaitInv /\ (CleanupBegin \/ CleanupScan \/ CleanupDelete) => WaitInv'
  <1> SUFFICES ASSUME WaitInv, CleanupBegin \/ CleanupScan \/ CleanupDelete
               PROVE  WaitInv'
    OBVIOUS
  <1>0. TypeOK
    BY DEF WaitInv
  <1>1. CASE CleanupBegin
    <2>1. sweep' \in Sweep
      BY <1>0, <1>1 DEF CleanupBegin, Sweep, TypeOK
    <2>2. TypeOK'
      BY <1>0, <1>1, <2>1 DEF CleanupBegin, TypeOK
    <2> QED BY <1>1, <2>2, NoCallStep DEF CleanupBegin
  <1>2. CASE CleanupScan
    <2> DEFINE expired == {r \in Resources : Expired(locks[r], sweep.now)}
               e == {<<r, locks[r].agent>> : r \in expired}
    <2>1. sweep \in Sweep
      BY <1>0, <1>2 DEF CleanupScan, TypeOK, NoSweep
    <2>2. \A r \in expired : locks[r].agent \in Agents
      BY <1>0, LockFields DEF Expired
    <2>3. e \in SUBSET (Resources \X Agents)
      BY <2>2
    <2>4. sweep' = NoSweep \/ sweep' = [sweep EXCEPT !.stage = "delete", !.expired = e]
      BY <1>2 DEF CleanupScan
    <2> HIDE DEF e
    <2>5. sweep' \in Sweep \cup {NoSweep}
      BY <2>1, <2>3, <2>4 DEF Sweep
    <2>6. TypeOK'
      BY <1>0, <1>2, <2>5 DEF CleanupScan, TypeOK
    <2> QED BY <1>2, <2>6, NoCallStep DEF CleanupScan
  <1>3. CASE CleanupDelete
    <2> DEFINE gone == {r \in Resources : StillExpired(r)}
               N(r) == [kind |-> "notify", resource |-> r, id |-> locks[r].id]
    <2>1. \A r \in gone : locks[r].id \in LockIds
      BY <1>0, LockFields DEF StillExpired, Expired
    <2>2. \A r \in gone : N(r) \in Task /\ N(r).kind = "notify"
      BY <2>1 DEF Task
    <2>3. tasks' = tasks \cup {N(r) : r \in gone} /\ sweep' = NoSweep
      BY <1>3 DEF CleanupDelete, Spawn
    <2>4. LocksType'
      BY <1>0, <1>3 DEF CleanupDelete, LocksType, TypeOK
    <2> HIDE DEF gone, N
    <2>5. TasksType' /\ \A u \in tasks' : u.kind = "grant" => u \in tasks
      BY <1>0, <2>2, <2>3 DEF TasksType, TypeOK
    <2>6. TypeOK'
      BY <1>0, <1>3, <2>4, <2>5, TypePartsUnchanged, TypeParts DEF CleanupDelete
    <2> QED BY <1>3, <2>5, <2>6, NoCallStep DEF CleanupDelete
  <1> QED BY <1>1, <1>2, <1>3

\* The invariant about types and waiting requests is inductive.
LEMMA NextWaitInv == WaitInv /\ [Next]_vars => WaitInv'
  <1> SUFFICES ASSUME WaitInv, [Next]_vars PROVE WaitInv'
    OBVIOUS
  <1>1. CASE UNCHANGED vars
    BY <1>1 DEF WaitInv, TypeOK, RegisteredWaits, GrantInv, StagesOK, vars
  <1>2. CASE Tick
    BY <1>2, TickWaitInv
  <1>3. ASSUME NEW c \in Calls, NEW a \in Agents, NEW req \in Requests, Begin(c, a, req)
        PROVE  WaitInv'
    BY <1>3, BeginWaitInv
  <1>4. ASSUME NEW c \in Calls, Try(c) \/ Register(c) \/ Woken(c) \/ ContextDone(c)
                                 \/ Leave(c) \/ Undo(c)
        PROVE  WaitInv'
    BY <1>4, TryWaitInv, RegisterWaitInv, WokenWaitInv, ContextDoneWaitInv,
       LeaveWaitInv, UndoWaitInv
  <1>5. ASSUME NEW r \in Resources, NEW a \in Agents, NEW id \in used,
               ReleaseLock(r, a, id) \/ ExtendLock(r, a, id)
        PROVE  WaitInv'
    BY <1>5, ReleaseLockWaitInv, ExtendLockWaitInv
  <1>6. ASSUME NEW t \in tasks, PersistFailed(t) \/ Persisted(t) \/ Notify(t) \/ Grant(t)
        PROVE  WaitInv'
    BY <1>6, PersistWaitInv, NotifyWaitInv, GrantWaitInv
  <1>7. CASE CheckWaiting
    BY <1>7, CheckWaitingWaitInv
  <1>8. CASE CleanupBegin \/ CleanupScan \/ CleanupDelete
    BY <1>8, CleanupWaitInv
  <1> QED BY <1>1, <1>2, <1>3, <1>4, <1>5, <1>6, <1>7, <1>8 DEF Next

\* The invariant about types and waiting requests holds.
LEMMA AlwaysWaitInv == Spec => []WaitInv
  BY InitWaitInv, NextWaitInv, PTL DEF Spec

\* The state of the enhanced lock manager stays well formed: every call has a
\* resource to work on, every answer goes to a call in progress.
THEOREM EnhancedTypeCorrect == Spec => []TypeOK
  BY AlwaysWaitInv, PTL DEF WaitInv

\* A registered request is one that still waits, for that resource and without
\* an answer: notifyWaitingRequests, checkWaitingRequests, the grants they start
\* and the deferred clean-up of AcquireLock never leave one behind.
THEOREM RegisteredRequestsWait == Spec => []RegisteredWaits
  BY AlwaysWaitInv, PTL DEF WaitInv

----------------------------------------------------------------------------
\* Handles and locks: the inductive step

\* A valid lock is one that has not expired.
LEMMA RecordedIsValid ==
  ASSUME TypeOK, LocksInv, NEW k \in claims, k.id \notin revoked
  PROVE  /\ k.resource \in Resources /\ k.agent \in Agents /\ k.id \in LockIds
         /\ k.expires \in Nat
         /\ locks[k.resource] = [agent |-> k.agent, expires |-> k.expires, id |-> k.id]
         /\ locks[k.resource] # NoLock /\ Valid(locks[k.resource])
         /\ locks[k.resource].id = k.id /\ locks[k.resource].agent = k.agent
         /\ locks[k.resource].expires = k.expires
  <1>1. k \in Claim /\ k.expires > clock
    BY DEF TypeOK, LocksInv, ClockInv
  <1>2. k.resource \in Resources /\ k.agent \in Agents /\ k.id \in LockIds
        /\ k.expires \in Nat
    BY <1>1 DEF Claim
  <1>3. locks[k.resource] = [agent |-> k.agent, expires |-> k.expires, id |-> k.id]
    BY DEF LocksInv, LocksCoherent, HandleRecorded
  <1>4. locks[k.resource] \in Lock
    BY <1>2, <1>3 DEF Lock
  <1>5. locks[k.resource] # NoLock
    BY <1>4, AbsentValues
  <1> QED BY <1>1, <1>2, <1>3, <1>5 DEF Valid

\* A resource whose lock changes keeps its agent in the index, and the claims
\* are the ones that its lock backs, if any, and those of other locks.
LEMMA OneLockStep ==
  ASSUME TypeOK, TypeOK', LocksInv, NEW r \in Resources,
         \A s \in Resources \ {r} : locks'[s] = locks[s],
         \A b \in Agents : agentLocks[b] \ {r} \subseteq agentLocks'[b],
         locks'[r] # NoLock => r \in agentLocks'[locks'[r].agent],
         UNCHANGED <<clock, sweep>>,
         revoked \subseteq revoked',
         \A k \in claims' : k.id \notin revoked' =>
             \/ k \in claims /\ k.resource # r
             \/ /\ k.resource = r
                /\ locks'[r] = [agent |-> k.agent, expires |-> k.expires, id |-> k.id],
         \A k \in claims' : k \in claims \/ k.expires > clock
  PROVE  LocksInv'
  <1>1. HandleRecorded'
    <2> SUFFICES ASSUME NEW k \in claims', k.id \notin revoked'
                 PROVE  locks'[k.resource] =
                            [agent |-> k.agent, expires |-> k.expires, id |-> k.id]
      BY DEF HandleRecorded
    <2>1. CASE k \in claims /\ k.resource # r
      <3>1. k.id \notin revoked /\ k.resource \in Resources
        BY <2>1, RecordedIsValid
      <3> QED BY <2>1, <3>1, RecordedIsValid
    <2>2. CASE /\ k.resource = r
               /\ locks'[r] = [agent |-> k.agent, expires |-> k.expires, id |-> k.id]
      BY <2>2
    <2> QED BY <2>1, <2>2
  <1>2. IndexCoversLocks'
    <2> SUFFICES ASSUME NEW s \in Resources, locks'[s] # NoLock
                 PROVE  s \in agentLocks'[locks'[s].agent]
      BY DEF IndexCoversLocks
    <2>1. CASE s = r
      BY <2>1
    <2>2. CASE s # r
      <3>1. locks'[s] = locks[s] /\ locks[s].agent \in Agents
        BY <2>2, LockFields
      <3>2. s \in agentLocks[locks[s].agent]
        BY <3>1 DEF LocksInv, LocksCoherent, IndexCoversLocks
      <3> QED BY <2>2, <3>1, <3>2
    <2> QED BY <2>1, <2>2
  <1>3. ClockInv'
    BY DEF LocksInv, ClockInv
  <1> QED BY <1>1, <1>2, <1>3 DEF LocksInv, LocksCoherent

\* The claims that Claims builds.
LEMMA ClaimsMembers ==
  ASSUME NEW r, NEW a, NEW id, NEW given, NEW k \in Claims(r, a, id, given)
  PROVE  \/ k \in claims /\ k.id # id
         \/ k = [resource |-> r, agent |-> a, id |-> id, expires |-> clock + TTL]
  BY DEF Claims

\* Handles that a step on the lock of r with this ID leaves alone are of other
\* resources.
LEMMA OtherHandles ==
  ASSUME TypeOK, LocksInv, NEW r \in Resources, NEW k \in claims, k.id \notin revoked,
         ~Valid(locks[r]) \/ locks[r].id # k.id
  PROVE  k.resource # r
  BY RecordedIsValid

\* A handle is extended, or handed out for a valid lock of the same agent.
LEMMA ExtendedLocksInv ==
  ASSUME TypeOK, TypeOK', LocksInv, NEW r \in Resources, locks[r] # NoLock, NEW given,
         locks' = [locks EXCEPT ![r].expires = clock + TTL],
         claims' = Claims(r, locks[r].agent, locks[r].id, given),
         UNCHANGED <<clock, agentLocks, sweep, revoked>>
  PROVE  LocksInv'
  <1> DEFINE a == locks[r].agent
             id == locks[r].id
             new == [resource |-> r, agent |-> a, id |-> id, expires |-> clock + TTL]
  <1>1. /\ \A s \in Resources \ {r} : locks'[s] = locks[s]
        /\ locks'[r] = [agent |-> a, expires |-> clock + TTL, id |-> id]
        /\ locks'[r].agent = a
    BY LockExtended
  <1>2. \A k \in claims' : (k \in claims /\ k.id # id) \/ k = new
    BY ClaimsMembers
  <1>3. clock + TTL > clock
    BY Durations DEF TypeOK
  <1>4. r \in agentLocks'[locks'[r].agent]
    BY <1>1 DEF LocksInv, LocksCoherent, IndexCoversLocks
  <1>5. ASSUME NEW k \in claims', k.id \notin revoked'
        PROVE  \/ k \in claims /\ k.resource # r
               \/ /\ k.resource = r
                  /\ locks'[r] = [agent |-> k.agent, expires |-> k.expires, id |-> k.id]
    <2>1. CASE k \in claims /\ k.id # id
      BY <1>5, <2>1, OtherHandles
    <2>2. CASE k = new
      BY <1>1, <2>2
    <2> QED BY <1>2, <2>1, <2>2
  <1>6. \A k \in claims' : k \in claims \/ k.expires > clock
    BY <1>2, <1>3
  <1> HIDE DEF a, id, new
  <1> QED BY <1>1, <1>4, <1>5, <1>6, OneLockStep

\* tryAcquireLock keeps handles, locks and index together.
LEMMA TryExtendsLocksInv ==
  ASSUME TypeOK, TypeOK', LocksInv, NEW r \in Resources, NEW a \in Agents, NEW given,
         TryExtends(r, a, given)
  PROVE  LocksInv'
  BY ExtendedLocksInv DEF TryExtends, Valid

\* A free or expired lock is taken: no unexpired handle was for it.
LEMMA TryCreatesLocksInv ==
  ASSUME TypeOK, TypeOK', LocksInv, NEW r \in Resources, NEW a \in Agents,
         NEW id \in LockIds, NEW given, TryCreates(r, a, id, given)
  PROVE  LocksInv'
  <1> DEFINE l == [agent |-> a, expires |-> clock + TTL, id |-> id]
             new == [resource |-> r, agent |-> a, id |-> id, expires |-> clock + TTL]
  <1>1. /\ \A s \in Resources \ {r} : locks'[s] = locks[s]
        /\ locks'[r] = l /\ l.agent = a
    BY DEF TryCreates, TypeOK
  <1>2. \A k \in claims' : (k \in claims /\ k.id # id) \/ k = new
    BY ClaimsMembers DEF TryCreates
  <1>3. clock + TTL > clock
    BY Durations DEF TypeOK
  <1>4. /\ r \in agentLocks'[locks'[r].agent]
        /\ \A b \in Agents : agentLocks[b] \ {r} \subseteq agentLocks'[b]
    BY <1>1 DEF TryCreates, TypeOK
  <1>5. ASSUME NEW k \in claims', k.id \notin revoked'
        PROVE  \/ k \in claims /\ k.resource # r
               \/ /\ k.resource = r
                  /\ locks'[r] = [agent |-> k.agent, expires |-> k.expires, id |-> k.id]
    <2>1. CASE k \in claims /\ k.id # id
      BY <1>5, <2>1, OtherHandles DEF TryCreates
    <2>2. CASE k = new
      BY <1>1, <2>2
    <2> QED BY <1>2, <2>1, <2>2
  <1>6. \A k \in claims' : k \in claims \/ k.expires > clock
    BY <1>2, <1>3
  <1>7. UNCHANGED <<clock, sweep, revoked>>
    BY DEF TryCreates
  <1> HIDE DEF l, new
  <1> QED BY <1>1, <1>4, <1>5, <1>6, <1>7, OneLockStep

\* A lock is removed with its index entry; no handle that counts is left.
LEMMA RemovedLocksInv ==
  ASSUME TypeOK, TypeOK', LocksInv, NEW r \in Resources, NEW a \in Agents,
         locks' = [locks EXCEPT ![r] = NoLock],
         agentLocks' = [agentLocks EXCEPT ![a] = @ \ {r}],
         UNCHANGED <<clock, sweep>>, claims' \subseteq claims, revoked \subseteq revoked',
         \A k \in claims' : k.id \notin revoked' => k.id # locks[r].id
  PROVE  LocksInv'
  <1>1. (\A s \in Resources \ {r} : locks'[s] = locks[s]) /\ locks'[r] = NoLock
    BY DEF TypeOK
  <1>2. \A b \in Agents : agentLocks[b] \ {r} \subseteq agentLocks'[b]
    BY DEF TypeOK
  <1>3. \A k \in claims' : k.id \notin revoked' => k \in claims /\ k.resource # r
    BY OtherHandles
  <1> QED BY <1>1, <1>2, <1>3, OneLockStep

\* ReleaseLock and the rollback.
LEMMA ReleaseLocksInv ==
  ASSUME TypeOK, TypeOK', LocksInv, NEW r \in Resources, NEW a \in Agents, NEW id,
         Release(r, a, id)
  PROVE  LocksInv'
  BY RemovedLocksInv DEF Release

\* Steps that touch neither locks nor handles.
LEMMA NoLockStep ==
  ASSUME LocksInv, UNCHANGED <<clock, locks, agentLocks, claims, revoked>>,
         sweep' \in {sweep, NoSweep}
  PROVE  LocksInv'
  <1>1. HandleRecorded' /\ IndexCoversLocks'
    BY DEF LocksInv, LocksCoherent, HandleRecorded, IndexCoversLocks
  <1>2. ClockInv'
    BY DEF LocksInv, ClockInv
  <1> QED BY <1>1, <1>2 DEF LocksInv, LocksCoherent

\* The clock moves, and handles expire.
LEMMA TickLocksInv ==
  ASSUME TypeOK, LocksInv, Tick
  PROVE  LocksInv'
  <1>1. HandleRecorded' /\ IndexCoversLocks'
    BY DEF LocksInv, LocksCoherent, HandleRecorded, IndexCoversLocks, Tick
  <1>2. ClockInv'
    <2>1. sweep # NoSweep => sweep.now \in Nat
      BY DEF TypeOK, Sweep
    <2> QED BY <2>1 DEF LocksInv, ClockInv, Tick, TypeOK
  <1> QED BY <1>1, <1>2 DEF LocksInv, LocksCoherent

\* The sweep deletes only locks that nobody holds an unexpired handle of.
LEMMA CleanupDeleteLocksInv ==
  ASSUME TypeOK, LocksInv, CleanupDelete
  PROVE  LocksInv'
  <1> DEFINE gone == {r \in Resources : StillExpired(r)}
  <1>1. sweep \in Sweep /\ sweep # NoSweep
    BY DEF CleanupDelete, TypeOK, NoSweep
  <1>2. sweep.now \in Nat /\ sweep.now <= clock
    BY <1>1 DEF Sweep, LocksInv, ClockInv
  <1>3. \A r \in gone : r \in Resources /\ locks[r] # NoLock /\ locks[r].expires < sweep.now
    BY DEF StillExpired, Expired
  <1>4. /\ \A r \in Resources : locks'[r] = IF r \in gone THEN NoLock ELSE locks[r]
        /\ \A a \in Agents : agentLocks'[a]
                  = agentLocks[a] \ {r \in gone : <<r, a>> \in sweep.expired}
        /\ UNCHANGED <<clock, claims, revoked>> /\ sweep' = NoSweep
    BY DEF CleanupDelete
  <1> HIDE DEF gone
  <1>5. HandleRecorded'
    <2> SUFFICES ASSUME NEW k \in claims, k.id \notin revoked
                 PROVE  locks'[k.resource] =
                            [agent |-> k.agent, expires |-> k.expires, id |-> k.id]
      BY <1>4 DEF HandleRecorded
    <2>1. /\ k.resource \in Resources /\ k.expires \in Nat
          /\ locks[k.resource] = [agent |-> k.agent, expires |-> k.expires, id |-> k.id]
          /\ locks[k.resource].expires = k.expires /\ k.expires > clock
      BY RecordedIsValid DEF LocksInv, ClockInv
    <2>2. clock \in Nat
      BY DEF TypeOK
    <2>3. k.resource \notin gone
      BY <1>2, <1>3, <2>1, <2>2
    <2> QED BY <1>4, <2>1, <2>3
  <1>6. IndexCoversLocks'
    <2> SUFFICES ASSUME NEW r \in Resources, locks'[r] # NoLock
                 PROVE  r \in agentLocks'[locks'[r].agent]
      BY DEF IndexCoversLocks
    <2>1. r \notin gone /\ locks'[r] = locks[r]
      BY <1>4
    <2>2. locks[r].agent \in Agents /\ r \in agentLocks[locks[r].agent]
      BY <2>1, LockFields DEF LocksInv, LocksCoherent, IndexCoversLocks
    <2> QED BY <1>4, <2>1, <2>2
  <1>7. ClockInv'
    BY <1>4 DEF LocksInv, ClockInv
  <1> QED BY <1>5, <1>6, <1>7 DEF LocksInv, LocksCoherent

\* A new lock manager holds no lock.
LEMMA InitLocksInv == Init => LocksInv
  BY DEF Init, LocksInv, LocksCoherent, HandleRecorded, IndexCoversLocks, ClockInv

\* The invariant about handles and locks is inductive, given types and the
\* shape of calls.
LEMMA NextLocksInv == WaitInv /\ WaitInv' /\ LocksInv /\ [Next]_vars => LocksInv'
  <1> SUFFICES ASSUME WaitInv, WaitInv', LocksInv, [Next]_vars PROVE LocksInv'
    OBVIOUS
  <1>0. TypeOK /\ TypeOK'
    BY DEF WaitInv
  <1>1. CASE UNCHANGED vars
    BY <1>1, NoLockStep DEF vars
  <1>2. CASE Tick
    BY <1>0, <1>2, TickLocksInv
  <1>3. ASSUME NEW c \in Calls, NEW a \in Agents, NEW req \in Requests, Begin(c, a, req)
        PROVE  LocksInv'
    BY <1>3, NoLockStep DEF Begin
  <1>4. ASSUME NEW c \in Calls, Try(c)
        PROVE  LocksInv'
    <2> DEFINE x == calls[c]
               r == Head(x.todo)
    <2>1. x \in Call /\ OpenCall(x)
      BY <1>0, <1>4, StageIsOpen DEF Try, NoCall, OpenCall
    <2>2. r \in Resources /\ x.agent \in Agents
      BY <2>1, HeadOfCall
    <2>3. CASE TryExtends(r, x.agent, TRUE)
      BY <1>0, <2>2, <2>3, TryExtendsLocksInv
    <2>4. CASE \E id \in LockIds : TryCreates(r, x.agent, id, TRUE)
      BY <1>0, <2>2, <2>4, TryCreatesLocksInv
    <2>5. CASE UNCHANGED <<clock, locks, agentLocks, sweep, tasks, used, claims,
                            revoked>>
      BY <2>5, NoLockStep
    <2> QED BY <1>4, <2>3, <2>4, <2>5 DEF Try
  <1>5. ASSUME NEW c \in Calls, Register(c) \/ Woken(c) \/ ContextDone(c) \/ Leave(c)
        PROVE  LocksInv'
    BY <1>5, NoLockStep DEF Register, Woken, ContextDone, Leave
  <1>6. ASSUME NEW c \in Calls, Undo(c)
        PROVE  LocksInv'
    <2> DEFINE x == calls[c]
               h == Head(x.got)
    <2>1. OpenCall(x) /\ x.got # <<>>
      BY <1>0, <1>6, StageIsOpen DEF Undo, NoCall, WaitInv, StagesOK, HasToUndo
    <2>2. h \in Handle /\ x.agent \in Agents
      BY <2>1, HeadTailProperties DEF OpenCall, Call
    <2>3. h.resource \in Resources
      BY <2>2 DEF Handle
    <2>4. CASE Release(h.resource, x.agent, h.id)
      BY <1>0, <2>2, <2>3, <2>4, ReleaseLocksInv
    <2>5. CASE UNCHANGED <<clock, locks, agentLocks, waiting, sweep, tasks, used,
                            claims, revoked>>
      BY <2>5, NoLockStep
    <2> QED BY <1>6, <2>4, <2>5 DEF Undo
  <1>7. ASSUME NEW r \in Resources, NEW a \in Agents, NEW id \in used,
               ReleaseLock(r, a, id)
        PROVE  LocksInv'
    BY <1>0, <1>7, ReleaseLocksInv DEF ReleaseLock
  <1>8. ASSUME NEW r \in Resources, NEW a \in Agents, NEW id \in used,
               ExtendLock(r, a, id)
        PROVE  LocksInv'
    BY <1>0, <1>8, ExtendedLocksInv DEF ExtendLock
  <1>9. ASSUME NEW t \in tasks, PersistFailed(t)
        PROVE  LocksInv'
    <2>1. t.resource \in Resources /\ t.agent \in Agents
      BY <1>0, <1>9, TaskFields DEF PersistFailed, TypeOK
    <2>2. CASE UNCHANGED <<locks, agentLocks, revoked>>
      BY <1>9, <2>2, NoLockStep DEF PersistFailed
    <2>3. CASE /\ locks[t.resource].id = t.id
               /\ locks' = [locks EXCEPT ![t.resource] = NoLock]
               /\ agentLocks' = [agentLocks EXCEPT ![t.agent] = @ \ {t.resource}]
               /\ revoked' = revoked \cup {t.id}
      BY <1>0, <1>9, <2>1, <2>3, RemovedLocksInv DEF PersistFailed
    <2> QED BY <1>9, <2>2, <2>3 DEF PersistFailed
  <1>10. ASSUME NEW t \in tasks, Persisted(t) \/ Notify(t)
         PROVE  LocksInv'
    BY <1>10, NoLockStep DEF Persisted, Notify
  <1>11. ASSUME NEW t \in tasks, Grant(t)
         PROVE  LocksInv'
    <2>1. t.resource \in Resources /\ t.agent \in Agents
      BY <1>0, <1>11, TaskFields DEF Grant, TypeOK
    <2>2. CASE TryExtends(t.resource, t.agent, FALSE)
      BY <1>0, <2>1, <2>2, TryExtendsLocksInv
    <2>3. CASE \E id \in LockIds : TryCreates(t.resource, t.agent, id, FALSE)
      BY <1>0, <2>1, <2>3, TryCreatesLocksInv
    <2>4. CASE UNCHANGED <<clock, locks, agentLocks, sweep, used, claims, revoked>>
      BY <2>4, NoLockStep
    <2> QED BY <1>11, <2>2, <2>3, <2>4 DEF Grant
  <1>12. CASE CheckWaiting
    BY <1>12, NoLockStep DEF CheckWaiting
  <1>13. CASE CleanupBegin \/ CleanupScan
    <2>1. HandleRecorded' /\ IndexCoversLocks'
      BY <1>13 DEF LocksInv, LocksCoherent, HandleRecorded, IndexCoversLocks,
                   CleanupBegin, CleanupScan
    <2>2. sweep' # NoSweep => sweep'.now <= clock
      <3>1. CASE CleanupBegin
        BY <1>0, <3>1 DEF CleanupBegin, TypeOK
      <3>2. CASE CleanupScan
        <4>1. sweep \in Sweep /\ sweep # NoSweep
          BY <1>0, <3>2 DEF CleanupScan, TypeOK, NoSweep
        <4>2. sweep' # NoSweep => sweep'.now = sweep.now
          BY <3>2, <4>1 DEF CleanupScan, Sweep
        <4> QED BY <4>1, <4>2 DEF LocksInv, ClockInv
      <3> QED BY <1>13, <3>1, <3>2
    <2>3. clock' = clock /\ claims' = claims
      BY <1>13 DEF CleanupBegin, CleanupScan
    <2> QED BY <2>1, <2>2, <2>3 DEF LocksInv, LocksCoherent, ClockInv
  <1>14. CASE CleanupDelete
    BY <1>0, <1>14, CleanupDeleteLocksInv
  <1> QED BY <1>1, <1>2, <1>3, <1>4, <1>5, <1>6, <1>7, <1>8, <1>9, <1>10, <1>11, <1>12,
             <1>13, <1>14 DEF Next

\* An unexpired handle that was not released is the lock of its resource, so no
\* two agents hold one, and the index that limits an agent's locks misses none:
\* for any interleaving of acquisitions, waits, grants, releases, extensions,
\* sweeps, rollbacks and failures to persist, revoked locks excepted.
THEOREM HandlesStayRecorded == Spec => []LocksCoherent
  <1>1. LocksInv => LocksCoherent
    BY DEF LocksInv
  <1> QED BY <1>1, InitLocksInv, NextLocksInv, AlwaysWaitInv, PTL DEF Spec

----------------------------------------------------------------------------
\* The order of acquisition: the inductive step

\* What a step may do to the locks under UUIDs that were generated before.
NoNewHolder ==
    /\ used \subseteq used'
    /\ \A r \in Resources, id \in used :
          locks'[r].id = id => locks[r].id = id /\ locks'[r].agent = locks[r].agent

\* The same call, but for its answer and its deadline; or one out of its wait.
SameWork(x, y) ==
    /\ y.got = x.got /\ y.agent = x.agent /\ y.todo = x.todo
    /\ y.stage \in {"register", "wait"} => x.stage \in {"register", "wait"}

\* Such a call holds nothing new.
LEMMA SameWorkHolds ==
  ASSUME TypeOK, NoNewHolder, NEW x \in Call, NEW y, SameWork(x, y),
         Ordered(x), Holds(x, locks, used)
  PROVE  Ordered(y) /\ Holds(y, locks', used')
  <1>1. Ordered(y)
    BY DEF Ordered, SameWork
  <1>2. ASSUME NEW i \in 1..Len(y.got)
        PROVE  /\ y.got[i].id \in used'
               /\ locks'[y.got[i].resource].id = y.got[i].id =>
                     /\ locks'[y.got[i].resource].agent = y.agent
                     /\ y.stage \in {"register", "wait"} =>
                            y.got[i].resource # Head(y.todo)
    <2>1. x.got \in Seq(Handle) /\ y.got = x.got /\ i \in 1..Len(x.got)
      BY <1>2 DEF Call, SameWork
    <2>2. x.got[i] \in Handle
      BY <2>1
    <2>3. x.got[i].resource \in Resources
      BY <2>2 DEF Handle
    <2>4. /\ x.got[i].id \in used
          /\ locks[x.got[i].resource].id = x.got[i].id =>
                     /\ locks[x.got[i].resource].agent = x.agent
                     /\ x.stage \in {"register", "wait"} =>
                            x.got[i].resource # Head(x.todo)
      BY <2>1 DEF Holds
    <2> QED BY <2>1, <2>3, <2>4 DEF NoNewHolder, SameWork
  <1>3. Holds(y, locks', used')
    BY <1>2 DEF Holds
  <1> QED BY <1>1, <1>3

\* A step keeps the order when every call does the same work or is shown to.
LEMMA OrderStep ==
  ASSUME TypeOK, OrderInv, IdsUsed', NoNewHolder,
         \A d \in Calls : calls'[d] # NoCall =>
             \/ calls[d] # NoCall /\ SameWork(calls[d], calls'[d])
             \/ Ordered(calls'[d]) /\ Holds(calls'[d], locks', used')
  PROVE  OrderInv'
  <1>1. ASSUME NEW d \in Calls, calls'[d] # NoCall
        PROVE  Ordered(calls'[d]) /\ Holds(calls'[d], locks', used')
    <2>1. CASE calls[d] # NoCall /\ SameWork(calls[d], calls'[d])
      <3>1. calls[d] \in Call /\ Ordered(calls[d]) /\ Holds(calls[d], locks, used)
        BY <2>1 DEF TypeOK, OrderInv
      <3> QED BY <2>1, <3>1, SameWorkHolds
    <2> QED BY <1>1, <2>1
  <1> QED BY <1>1 DEF OrderInv

\* A call that a step leaves alone does the same work.
LEMMA SameWorkRefl == \A x : SameWork(x, x)
  BY DEF SameWork

\* A step that keeps every lock's ID and agent or removes the lock.
LEMMA OldLocks ==
  ASSUME TypeOK, OrderInv, used' = used,
         \A r \in Resources : \/ locks'[r] = NoLock
                              \/ /\ locks[r] # NoLock
                                 /\ locks'[r].id = locks[r].id
                                 /\ locks'[r].agent = locks[r].agent
  PROVE  IdsUsed' /\ NoNewHolder
  <1>1. "none" \notin used
    BY NoneIsReserved DEF TypeOK
  <1>2. IdsUsed'
    BY DEF OrderInv, IdsUsed
  <1>3. NoLock.id = "none"
    BY DEF NoLock
  <1>4. NoNewHolder
    BY <1>1, <1>3 DEF NoNewHolder
  <1> QED BY <1>2, <1>4

\* The locks after tryAcquireLock.
LEMMA TryLocks ==
  ASSUME TypeOK, OrderInv, NEW r \in Resources, NEW a \in Agents, NEW given
  PROVE  /\ TryExtends(r, a, given) =>
               /\ IdsUsed' /\ NoNewHolder
               /\ locks'[r].id = locks[r].id /\ locks'[r].agent = a
               /\ locks[r].id \in used' /\ locks[r].id \in LockIds
         /\ \A id \in LockIds : TryCreates(r, a, id, given) =>
               /\ IdsUsed' /\ NoNewHolder
               /\ locks'[r].id = id /\ locks'[r].agent = a
               /\ id \in used'
  <1>1. ASSUME TryExtends(r, a, given)
        PROVE  /\ IdsUsed' /\ NoNewHolder
               /\ locks'[r].id = locks[r].id /\ locks'[r].agent = a
               /\ locks[r].id \in used' /\ locks[r].id \in LockIds
    <2>1. locks[r] # NoLock /\ locks[r].agent = a /\ used' = used
      BY <1>1 DEF TryExtends, Valid
    <2>2. /\ \A s \in Resources \ {r} : locks'[s] = locks[s]
          /\ locks'[r].id = locks[r].id /\ locks'[r].agent = locks[r].agent
      BY <1>1, <2>1, LockExtended DEF TryExtends
    <2>3. IdsUsed' /\ NoNewHolder
      BY <2>1, <2>2, OldLocks
    <2> QED BY <2>1, <2>2, <2>3, LockFields DEF OrderInv, IdsUsed
  <1>2. ASSUME NEW id \in LockIds, TryCreates(r, a, id, given)
        PROVE  /\ IdsUsed' /\ NoNewHolder
               /\ locks'[r].id = id /\ locks'[r].agent = a
               /\ id \in used'
    <2>1. /\ \A s \in Resources \ {r} : locks'[s] = locks[s]
          /\ locks'[r].id = id /\ locks'[r].agent = a
          /\ used' = used \cup {id} /\ id \notin used
      BY <1>2 DEF TryCreates, TypeOK
    <2>2. IdsUsed'
      BY <2>1 DEF OrderInv, IdsUsed
    <2>3. NoNewHolder
      BY <2>1 DEF NoNewHolder
    <2> QED BY <2>1, <2>2, <2>3
  <1> QED BY <1>1, <1>2

\* A call that was given its next handle.
LEMMA GotHolds ==
  ASSUME TypeOK, NoNewHolder, NEW x, OpenCall(x), Ordered(x), Holds(x, locks, used),
         NEW id \in used', locks'[Head(x.todo)].id = id,
         locks'[Head(x.todo)].agent = x.agent,
         NEW y, y.got = Append(x.got, [resource |-> Head(x.todo), id |-> id]),
         y.agent = x.agent, y.todo \in {x.todo, Tail(x.todo)},
         y.stage \notin {"register", "wait"}
  PROVE  Ordered(y) /\ Holds(y, locks', used')
  <1> DEFINE h == [resource |-> Head(x.todo), id |-> id]
             n == Len(x.todo)
             m == Len(x.got)
  <1>1. /\ n \in Nat \ {0}
        /\ Head(x.todo) \in Resources
        /\ Head(x.todo) = x.todo[1]
        /\ Len(Tail(x.todo)) = n - 1
        /\ \A i \in 1..(n - 1) : Tail(x.todo)[i] = x.todo[i+1]
        /\ x.got \in Seq(Handle)
    BY HeadOfCall
  <1>2. /\ m \in Nat /\ Len(y.got) = m + 1
        /\ \A i \in 1..m : y.got[i] = x.got[i]
        /\ y.got[m+1] = h
    BY <1>1
  <1>4. \A j \in 1..Len(y.todo) : \E k \in 1..n : y.todo[j] = x.todo[k]
    <2>1. CASE y.todo = x.todo
      BY <1>1, <2>1
    <2>2. CASE y.todo = Tail(x.todo)
      <3> SUFFICES ASSUME NEW j \in 1..Len(y.todo)
                   PROVE  j+1 \in 1..n /\ y.todo[j] = x.todo[j+1]
        OBVIOUS
      <3> QED BY <1>1, <2>2
    <2> QED BY <2>1, <2>2
  <1>5. \A i, j \in 1..Len(y.todo) : i <= j => y.todo[i] <= y.todo[j]
    <2>1. CASE y.todo = x.todo
      BY <2>1 DEF Ordered
    <2>2. CASE y.todo = Tail(x.todo)
      <3> SUFFICES ASSUME NEW i \in 1..Len(y.todo), NEW j \in 1..Len(y.todo), i <= j
                   PROVE  y.todo[i] <= y.todo[j]
        OBVIOUS
      <3>1. i+1 \in 1..n /\ j+1 \in 1..n /\ i+1 <= j+1
            /\ y.todo[i] = x.todo[i+1] /\ y.todo[j] = x.todo[j+1]
        BY <1>1, <2>2
      <3> QED BY <3>1 DEF Ordered
    <2> QED BY <2>1, <2>2
  <1>6. \A i \in 1..Len(y.got), k \in 1..n : y.got[i].resource <= x.todo[k]
    <2> SUFFICES ASSUME NEW i \in 1..Len(y.got), NEW k \in 1..n
                 PROVE  y.got[i].resource <= x.todo[k]
      OBVIOUS
    <2>1. CASE i \in 1..m
      BY <1>2, <2>1 DEF Ordered
    <2>2. CASE i = m+1
      <3>1. 1 \in 1..n /\ 1 <= k
        BY <1>1
      <3>2. x.todo[1] <= x.todo[k]
        BY <3>1 DEF Ordered
      <3> QED BY <1>1, <1>2, <2>2, <3>2
    <2> QED BY <1>2, <2>1, <2>2
  <1>7. Ordered(y)
    BY <1>4, <1>5, <1>6 DEF Ordered
  <1>8. ASSUME NEW i \in 1..Len(y.got)
        PROVE  /\ y.got[i].id \in used'
               /\ locks'[y.got[i].resource].id = y.got[i].id =>
                     /\ locks'[y.got[i].resource].agent = y.agent
    <2>1. CASE i \in 1..m
      <3>1. x.got[i] \in Handle
        BY <1>1, <2>1
      <3>2. x.got[i].resource \in Resources
        BY <3>1 DEF Handle
      <3>3. /\ x.got[i].id \in used
            /\ locks[x.got[i].resource].id = x.got[i].id =>
                   locks[x.got[i].resource].agent = x.agent
        BY <2>1 DEF Holds
      <3> QED BY <1>2, <2>1, <3>2, <3>3 DEF NoNewHolder
    <2>2. CASE i = m+1
      BY <1>2, <2>2
    <2> QED BY <1>2, <2>1, <2>2
  <1>9. Holds(y, locks', used')
    BY <1>8 DEF Holds
  <1> QED BY <1>7, <1>9

\* A call that returned from one AcquireLock.
LEMMA ReturnedHolds ==
  ASSUME TypeOK, NoNewHolder, NEW x, OpenCall(x), Ordered(x), Holds(x, locks, used),
         NEW y, y.got = x.got, y.agent = x.agent, y.todo \in {x.todo, Tail(x.todo)},
         y.stage \notin {"register", "wait"}
  PROVE  Ordered(y) /\ Holds(y, locks', used')
  <1> DEFINE n == Len(x.todo)
  <1>1. /\ n \in Nat \ {0}
        /\ Len(Tail(x.todo)) = n - 1
        /\ \A i \in 1..(n - 1) : Tail(x.todo)[i] = x.todo[i+1]
        /\ x.got \in Seq(Handle)
    BY HeadOfCall
  <1>2. CASE y.todo = x.todo
    <2>1. x \in Call /\ SameWork(x, y)
      BY <1>2 DEF OpenCall, SameWork
    <2> QED BY <2>1, SameWorkHolds
  <1>3. CASE y.todo = Tail(x.todo)
    <2>1. \A j \in 1..Len(y.todo) : j+1 \in 1..n /\ y.todo[j] = x.todo[j+1]
      BY <1>1, <1>3
    <2>2. ASSUME NEW i \in 1..Len(y.todo), NEW j \in 1..Len(y.todo), i <= j
          PROVE  y.todo[i] <= y.todo[j]
      <3>1. i+1 \in 1..n /\ j+1 \in 1..n /\ i+1 <= j+1
            /\ y.todo[i] = x.todo[i+1] /\ y.todo[j] = x.todo[j+1]
        BY <1>1, <1>3, <2>2
      <3> QED BY <3>1 DEF Ordered
    <2>3. \A i \in 1..Len(y.got), j \in 1..Len(y.todo) : y.got[i].resource <= y.todo[j]
      BY <2>1 DEF Ordered
    <2>4. Ordered(y)
      BY <2>2, <2>3 DEF Ordered
    <2>5. ASSUME NEW i \in 1..Len(y.got)
          PROVE  /\ y.got[i].id \in used'
                 /\ locks'[y.got[i].resource].id = y.got[i].id =>
                        locks'[y.got[i].resource].agent = y.agent
      <3>1. x.got[i] \in Handle
        BY <1>1, <2>5
      <3>2. x.got[i].resource \in Resources
        BY <3>1 DEF Handle
      <3>3. /\ x.got[i].id \in used
            /\ locks[x.got[i].resource].id = x.got[i].id =>
                   locks[x.got[i].resource].agent = x.agent
        BY <2>5 DEF Holds
      <3> QED BY <3>2, <3>3 DEF NoNewHolder
    <2>6. Holds(y, locks', used')
      BY <2>5 DEF Holds
    <2> QED BY <2>4, <2>6
  <1> QED BY <1>2, <1>3

\* A call that released its first lock.
LEMMA UndoneHolds ==
  ASSUME TypeOK, NoNewHolder, NEW x, OpenCall(x), x.got # <<>>, Ordered(x),
         Holds(x, locks, used),
         NEW y, y.got = Tail(x.got), y.agent = x.agent, y.todo = x.todo,
         y.stage = "undo"
  PROVE  Ordered(y) /\ Holds(y, locks', used')
  <1>1. x.got \in Seq(Handle)
    BY DEF OpenCall, Call
  <1>2. /\ Len(x.got) \in Nat /\ Len(y.got) = Len(x.got) - 1
        /\ \A i \in 1..Len(y.got) : y.got[i] = x.got[i+1]
    BY <1>1, HeadTailProperties
  <1>3. \A i \in 1..Len(y.got) : i+1 \in 1..Len(x.got)
    BY <1>2
  <1>4. Ordered(y)
    BY <1>2, <1>3 DEF Ordered
  <1>5. ASSUME NEW i \in 1..Len(y.got)
        PROVE  /\ y.got[i].id \in used'
               /\ locks'[y.got[i].resource].id = y.got[i].id =>
                      locks'[y.got[i].resource].agent = y.agent
    <2> DEFINE g == x.got[i+1]
    <2>1. y.got[i] = g /\ g \in Handle
      BY <1>1, <1>2, <1>3
    <2>2. g.resource \in Resources
      BY <2>1 DEF Handle
    <2>3. /\ g.id \in used
          /\ locks[g.resource].id = g.id => locks[g.resource].agent = x.agent
      BY <1>3 DEF Holds
    <2> QED BY <2>1, <2>2, <2>3 DEF NoNewHolder
  <1>6. Holds(y, locks', used')
    BY <1>5 DEF Holds
  <1> QED BY <1>4, <1>6

\* Steps that leave the locks alone.
LEMMA SameLocks ==
  ASSUME OrderInv, locks' = locks, used' = used
  PROVE  IdsUsed' /\ NoNewHolder
  BY DEF OrderInv, IdsUsed, NoNewHolder

\* Steps that leave the calls alone.
LEMMA SameCalls ==
  ASSUME TypeOK, OrderInv, IdsUsed', NoNewHolder, calls' = calls
  PROVE  OrderInv'
  BY OrderStep, SameWorkRefl

\* A step of one call.
LEMMA OneCallStep ==
  ASSUME TypeOK, OrderInv, IdsUsed', NoNewHolder, NEW c \in Calls, NEW y,
         calls' = [calls EXCEPT ![c] = y],
         \/ y = NoCall
         \/ calls[c] # NoCall /\ SameWork(calls[c], y)
         \/ Ordered(y) /\ Holds(y, locks', used')
  PROVE  OrderInv'
  <1>1. calls'[c] = y /\ \A d \in Calls \ {c} : calls'[d] = calls[d]
    BY DEF TypeOK
  <1> QED BY <1>1, OrderStep, SameWorkRefl

\* A release leaves the other locks alone.
LEMMA ReleaseOrder ==
  ASSUME TypeOK, OrderInv, NEW r \in Resources, NEW a, NEW id, Release(r, a, id)
  PROVE  IdsUsed' /\ NoNewHolder
  <1>1. used' = used /\ \A s \in Resources : locks'[s] = NoLock \/ locks'[s] = locks[s]
    BY DEF Release, TypeOK
  <1> QED BY <1>1, OldLocks

\* An answer changes no call's work.
LEMMA AnswerOrder ==
  ASSUME WaitInv, OrderInv, IdsUsed', NoNewHolder, NEW c \in Calls,
         calls[c].stage \in {"wait", "leave"}, NEW v \in {"available", "error"},
         calls' = [calls EXCEPT ![c].result = v]
  PROVE  OrderInv'
  <1>0. TypeOK /\ calls[c] # NoCall
    BY DEF WaitInv, NoCall
  <1>1. /\ SameWork(calls[c], calls'[c])
        /\ \A d \in Calls \ {c} : calls'[d] = calls[d]
    BY <1>0, CallAnswered DEF SameWork
  <1> QED BY <1>0, <1>1, OrderStep, SameWorkRefl

\* The first step of a multi-lock call: its resources are sorted.
LEMMA BeginOrder ==
  ASSUME TypeOK, OrderInv, NEW c \in Calls, NEW a \in Agents, NEW req \in Requests,
         Begin(c, a, req)
  PROVE  OrderInv'
  <1>1. PICK s \in Sortings(req) : calls' = [calls EXCEPT ![c] =
              [stage |-> "try", agent |-> a, todo |-> s, got |-> <<>>,
               result |-> "none", failed |-> FALSE, deadline |-> 0]]
    BY DEF Begin
  <1> DEFINE x == [stage |-> "try", agent |-> a, todo |-> s, got |-> <<>>,
               result |-> "none", failed |-> FALSE, deadline |-> 0]
  <1>2. s \in Seq(Resources) /\ \A i, j \in 1..Len(s) : i < j => s[i] <= s[j]
    BY SortingsType
  <1>3. \A i \in 1..Len(s) : s[i] \in Nat
    <2>1. \A i \in 1..Len(s) : s[i] \in Resources
      BY <1>2
    <2> QED BY <2>1, ResourcesAreOrdered
  <1>4. x.todo = s /\ x.got = <<>> /\ Len(x.got) = 0
    OBVIOUS
  <1> HIDE DEF x
  <1>5. \A i, j \in 1..Len(s) : i <= j => s[i] <= s[j]
    BY <1>2, <1>3
  <1>6. Ordered(x) /\ Holds(x, locks', used')
    BY <1>4, <1>5 DEF Ordered, Holds
  <1>7. IdsUsed' /\ NoNewHolder
    BY SameLocks DEF Begin
  <1> QED BY <1>1, <1>6, <1>7, OneCallStep DEF x

\* A call tries to acquire the resource in hand.
LEMMA TryOrder ==
  ASSUME WaitInv, OrderInv, NEW c \in Calls, Try(c)
  PROVE  OrderInv'
  <1> DEFINE x == calls[c]
             r == Head(x.todo)
  <1>0. TypeOK /\ x.stage \in {"try", "retry"}
    BY DEF WaitInv, Try
  <1>1. x # NoCall /\ OpenCall(x)
    BY <1>0, StageIsOpen DEF NoCall
  <1>2. r \in Resources /\ x.agent \in Agents
    BY <1>1, HeadOfCall
  <1>3. Ordered(x) /\ Holds(x, locks, used)
    BY <1>1 DEF OrderInv
  <1>4. ASSUME NEW id \in LockIds, IdsUsed', NoNewHolder, id \in used',
               locks'[r].id = id, locks'[r].agent = x.agent,
               calls' = [calls EXCEPT ![c] = Succeeded(c, id)]
        PROVE  OrderInv'
    <2> DEFINE y == Succeeded(c, id)
    <2> HIDE DEF y
    <2>1. \/ y = NoCall
          \/ /\ OpenCall(y)
             /\ y.stage \in {"try", "leave"}
             /\ y.stage = "try" => y.result = "none"
             /\ y.agent = x.agent
             /\ y.got = Append(x.got, [resource |-> Head(x.todo), id |-> id])
             /\ y.todo \in {x.todo, Tail(x.todo)}
      BY <1>0, SucceededCall DEF y
    <2>2. y = NoCall \/ (Ordered(y) /\ Holds(y, locks', used'))
      BY <1>0, <1>1, <1>3, <1>4, <2>1, GotHolds
    <2> QED BY <1>0, <1>4, <2>2, OneCallStep DEF y
  <1>5. CASE /\ TryExtends(r, x.agent, TRUE)
             /\ calls' = [calls EXCEPT ![c] = Succeeded(c, locks[r].id)]
    <2> DEFINE id == locks[r].id
    <2>1. /\ IdsUsed' /\ NoNewHolder
          /\ locks'[r].id = id /\ locks'[r].agent = x.agent
          /\ id \in used' /\ id \in LockIds
      BY <1>0, <1>2, <1>5, TryLocks
    <2>2. calls' = [calls EXCEPT ![c] = Succeeded(c, id)]
      BY <1>5
    <2> HIDE DEF id
    <2> QED BY <1>4, <2>1, <2>2
  <1>6. ASSUME NEW id \in LockIds, TryCreates(r, x.agent, id, TRUE),
               calls' = [calls EXCEPT ![c] = Succeeded(c, id)]
        PROVE  OrderInv'
    <2>1. /\ IdsUsed' /\ NoNewHolder
          /\ locks'[r].id = id /\ locks'[r].agent = x.agent
          /\ id \in used'
      BY <1>0, <1>2, <1>6, TryLocks
    <2> QED BY <1>4, <1>6, <2>1
  <1>7. ASSUME locks' = locks, used' = used, calls' = [calls EXCEPT ![c] = Failed(c)]
        PROVE  OrderInv'
    <2> DEFINE y == Failed(c)
    <2> HIDE DEF y
    <2>1. \/ y = NoCall
          \/ /\ OpenCall(y)
             /\ y.stage \in {"leave", "undo"}
             /\ HasToUndo(y)
             /\ y.agent = x.agent /\ y.got = x.got
             /\ y.todo = x.todo
      BY <1>0, FailedCall DEF y
    <2>2. y = NoCall \/ SameWork(x, y)
      BY <2>1 DEF SameWork
    <2>3. IdsUsed' /\ NoNewHolder
      BY <1>7, SameLocks
    <2> QED BY <1>0, <1>1, <1>7, <2>2, <2>3, OneCallStep DEF y
  <1>8. CASE /\ Refused(r, x.agent) /\ x.stage = "try" /\ locks' = locks /\ used' = used
             /\ calls' = [calls EXCEPT ![c] = [x EXCEPT !.stage = "register"]]
    <2> DEFINE y == [x EXCEPT !.stage = "register"]
    <2>1. y.got = x.got /\ y.todo = x.todo /\ y.agent = x.agent
      BY <1>1 DEF OpenCall, Call
    <2> HIDE DEF y
    <2>2. locks[r].agent # x.agent
      BY <1>8 DEF Refused
    <2>3. Ordered(y)
      BY <1>3, <2>1 DEF Ordered
    <2>4. Holds(y, locks, used)
      BY <1>3, <2>1, <2>2 DEF Holds
    <2>5. Holds(y, locks', used')
      BY <1>8, <2>4
    <2>6. IdsUsed' /\ NoNewHolder
      BY <1>8, SameLocks
    <2> QED BY <1>0, <1>8, <2>3, <2>5, <2>6, OneCallStep DEF y
  <1> QED BY <1>0, <1>5, <1>6, <1>7, <1>8 DEF Try

\* A call registers, is woken, gives up or returns.
LEMMA WaitOrder ==
  ASSUME WaitInv, OrderInv, NEW c \in Calls,
         Register(c) \/ Woken(c) \/ ContextDone(c) \/ Leave(c)
  PROVE  OrderInv'
  <1> DEFINE x == calls[c]
  <1>0. TypeOK /\ x # NoCall /\ OpenCall(x)
    BY StageIsOpen DEF WaitInv, Register, Woken, ContextDone, Leave, NoCall
  <1>1. Ordered(x) /\ Holds(x, locks, used)
    BY <1>0 DEF OrderInv
  <1>2. IdsUsed' /\ NoNewHolder
    BY SameLocks DEF Register, Woken, ContextDone, Leave
  <1>3. CASE Register(c)
    <2> DEFINE y == [x EXCEPT !.stage = "wait", !.deadline = clock + Timeout]
    <2>1. SameWork(x, y)
      BY <1>0, <1>3 DEF OpenCall, Call, SameWork, Register
    <2>2. calls' = [calls EXCEPT ![c] = y]
      BY <1>3 DEF Register
    <2> HIDE DEF y
    <2> QED BY <1>0, <1>2, <2>1, <2>2, OneCallStep
  <1>4. CASE Woken(c)
    <2> DEFINE y == IF x.result = "error"
                    THEN [x EXCEPT !.stage = "leave", !.failed = TRUE]
                    ELSE [x EXCEPT !.stage = "retry", !.result = "none"]
    <2>1. SameWork(x, y)
      BY <1>0 DEF OpenCall, Call, SameWork
    <2>2. calls' = [calls EXCEPT ![c] = y]
      BY <1>4 DEF Woken
    <2> HIDE DEF y
    <2> QED BY <1>0, <1>2, <2>1, <2>2, OneCallStep
  <1>5. CASE ContextDone(c)
    <2> DEFINE y == [x EXCEPT !.stage = "leave", !.failed = TRUE]
    <2>1. SameWork(x, y)
      BY <1>0 DEF OpenCall, Call, SameWork
    <2>2. calls' = [calls EXCEPT ![c] = y]
      BY <1>0, <1>5 DEF ContextDone, TypeOK
    <2> HIDE DEF y
    <2> QED BY <1>0, <1>2, <2>1, <2>2, OneCallStep
  <1>6. CASE Leave(c)
    <2> DEFINE y == Returned(x, ~x.failed)
    <2>1. calls' = [calls EXCEPT ![c] = y]
      BY <1>6 DEF Leave
    <2> HIDE DEF y
    <2>2. \/ y = NoCall
          \/ /\ OpenCall(y)
             /\ y.stage \in {"try", "undo"}
             /\ y.stage = "try" => y.result = "none"
             /\ y.agent = x.agent /\ y.got = x.got
             /\ y.todo \in {x.todo, Tail(x.todo)}
             /\ HasToUndo(y)
      <3>1. y = Returned(x, TRUE) \/ y = Returned(x, FALSE)
        BY DEF y, Returned
      <3> QED BY <1>0, <3>1, ReturnedCall
    <2>3. y = NoCall \/ (Ordered(y) /\ Holds(y, locks', used'))
      BY <1>0, <1>1, <1>2, <2>2, ReturnedHolds
    <2> QED BY <1>0, <1>2, <2>1, <2>3, OneCallStep
  <1> QED BY <1>3, <1>4, <1>5, <1>6

\* A call rolls back one of its locks.
LEMMA UndoOrder ==
  ASSUME WaitInv, OrderInv, NEW c \in Calls, Undo(c)
  PROVE  OrderInv'
  <1> DEFINE x == calls[c]
             h == Head(x.got)
             z == [x EXCEPT !.got = Tail(x.got)]
             y == IF Len(x.got) = 1 THEN NoCall ELSE z
  <1>0. TypeOK /\ x # NoCall /\ OpenCall(x) /\ x.stage = "undo" /\ x.got # <<>>
        /\ calls' = [calls EXCEPT ![c] = y]
    BY StageIsOpen DEF WaitInv, Undo, NoCall, StagesOK, HasToUndo
  <1>1. Ordered(x) /\ Holds(x, locks, used)
    BY <1>0 DEF OrderInv
  <1>2. h \in Handle
    BY <1>0, HeadTailProperties DEF OpenCall, Call
  <1>3. h.resource \in Resources
    BY <1>2 DEF Handle
  <1>4. IdsUsed' /\ NoNewHolder
    <2>1. CASE Release(h.resource, x.agent, h.id)
      BY <1>0, <1>3, <2>1, ReleaseOrder
    <2>2. CASE locks' = locks /\ used' = used
      BY <2>2, SameLocks
    <2> QED BY <2>1, <2>2 DEF Undo
  <1>5. z.got = Tail(x.got) /\ z.agent = x.agent /\ z.todo = x.todo /\ z.stage = "undo"
    BY <1>0 DEF OpenCall, Call
  <1> HIDE DEF z
  <1>6. Ordered(z) /\ Holds(z, locks', used')
    BY <1>0, <1>1, <1>4, <1>5, UndoneHolds
  <1>7. y = NoCall \/ y = z
    OBVIOUS
  <1> HIDE DEF y
  <1> QED BY <1>0, <1>4, <1>6, <1>7, OneCallStep

\* A new lock manager has no call.
LEMMA InitOrderInv == Init => OrderInv
  BY DEF Init, OrderInv, IdsUsed

\* The invariant about the order of acquisition is inductive, given the shape
\* of calls.
LEMMA NextOrderInv == WaitInv /\ OrderInv /\ [Next]_vars => OrderInv'
  <1> SUFFICES ASSUME WaitInv, OrderInv, [Next]_vars PROVE OrderInv'
    OBVIOUS
  <1>0. TypeOK
    BY DEF WaitInv
  <1>1. ASSUME locks' = locks, used' = used, calls' = calls
        PROVE  OrderInv'
    BY <1>0, <1>1, SameLocks, SameCalls
  <1>2. CASE UNCHANGED vars \/ Tick \/ CleanupBegin \/ CleanupScan
    BY <1>1, <1>2 DEF vars, Tick, CleanupBegin, CleanupScan
  <1>3. ASSUME NEW c \in Calls, NEW a \in Agents, NEW req \in Requests, Begin(c, a, req)
        PROVE  OrderInv'
    BY <1>0, <1>3, BeginOrder
  <1>4. ASSUME NEW c \in Calls, Try(c) \/ Register(c) \/ Woken(c) \/ ContextDone(c)
                                 \/ Leave(c) \/ Undo(c)
        PROVE  OrderInv'
    BY <1>4, TryOrder, WaitOrder, UndoOrder
  <1>5. ASSUME NEW r \in Resources, NEW a \in Agents, NEW id \in used,
               ReleaseLock(r, a, id)
        PROVE  OrderInv'
    BY <1>0, <1>5, ReleaseOrder, SameCalls DEF ReleaseLock
  <1>6. ASSUME NEW r \in Resources, NEW a \in Agents, NEW id \in used,
               ExtendLock(r, a, id)
        PROVE  OrderInv'
    <2>1. /\ \A s \in Resources \ {r} : locks'[s] = locks[s]
          /\ locks'[r].id = locks[r].id /\ locks'[r].agent = locks[r].agent
          /\ locks[r] # NoLock /\ used' = used /\ calls' = calls
      BY <1>0, <1>6, LockExtended DEF ExtendLock
    <2>2. IdsUsed' /\ NoNewHolder
      BY <1>0, <2>1, OldLocks
    <2> QED BY <1>0, <2>1, <2>2, SameCalls
  <1>7. ASSUME NEW t \in tasks, PersistFailed(t) \/ Persisted(t)
        PROVE  OrderInv'
    <2>1. t.resource \in Resources
      BY <1>0, TaskFields DEF TypeOK
    <2>2. /\ used' = used /\ calls' = calls
          /\ \A s \in Resources : locks'[s] = NoLock \/ locks'[s] = locks[s]
      BY <1>0, <1>7, <2>1 DEF PersistFailed, Persisted, TypeOK
    <2> QED BY <1>0, <2>2, OldLocks, SameCalls
  <1>8. ASSUME NEW t \in tasks, Notify(t)
        PROVE  OrderInv'
    <2>1. t.resource \in Resources
      BY <1>0, TaskFields DEF TypeOK
    <2>2. IdsUsed' /\ NoNewHolder
      BY <1>8, SameLocks DEF Notify
    <2> DEFINE c == waiting[t.resource]
    <2>3. CASE c = "none"
      BY <1>0, <1>8, <2>2, <2>3, SameCalls DEF Notify
    <2>4. CASE c # "none"
      <3>1. calls' = [calls EXCEPT ![c].result = "available"]
        BY <1>8, <2>4 DEF Notify
      <3>2. c \in Calls /\ calls[c].stage \in {"wait", "leave"}
        BY <1>0, <2>1, <2>4 DEF WaitInv, RegisteredWaits, TypeOK
      <3> HIDE DEF c
      <3> QED BY <2>2, <3>1, <3>2, AnswerOrder
    <2> QED BY <2>3, <2>4
  <1>9. ASSUME NEW t \in tasks, Grant(t)
        PROVE  OrderInv'
    <2>1. t.resource \in Resources /\ t.agent \in Agents /\ t.kind = "grant"
          /\ t.call \in Calls \cup {"none"}
      BY <1>0, <1>9, TaskFields DEF TypeOK, Grant
    <2>2. IdsUsed' /\ NoNewHolder
      <3>1. CASE TryExtends(t.resource, t.agent, FALSE)
        BY <1>0, <2>1, <3>1, TryLocks
      <3>2. CASE \E id \in LockIds : TryCreates(t.resource, t.agent, id, FALSE)
        BY <1>0, <2>1, <3>2, TryLocks
      <3>3. CASE locks' = locks /\ used' = used
        BY <3>3, SameLocks
      <3> QED BY <1>9, <3>1, <3>2, <3>3 DEF Grant
    <2>3. \E v \in {"available", "error"} : Answer(t.call, v)
      BY <1>9 DEF Grant
    <2>4. CASE t.call = "none"
      BY <1>0, <2>2, <2>3, <2>4, SameCalls DEF Answer
    <2>5. CASE t.call # "none"
      <3>1. PICK v \in {"available", "error"} :
                 calls' = [calls EXCEPT ![t.call].result = v]
        BY <2>3, <2>5 DEF Answer
      <3>2. t.call \in Calls /\ calls[t.call].stage \in {"wait", "leave"}
        BY <2>1, <2>5 DEF WaitInv, GrantInv
      <3> QED BY <2>2, <3>1, <3>2, AnswerOrder
    <2> QED BY <2>4, <2>5
  <1>10. CASE CheckWaiting
    <2>1. IdsUsed' /\ NoNewHolder
      BY <1>10, SameLocks DEF CheckWaiting
    <2> DEFINE late == {r \in Resources : /\ waiting[r] # "none"
                                          /\ clock > calls[waiting[r]].deadline}
               Late(c) == \E r \in late : waiting[r] = c
    <2>2. calls' = [c \in Calls |-> IF Late(c)
                                    THEN [calls[c] EXCEPT !.result = "error"]
                                    ELSE calls[c]]
      BY <1>10 DEF CheckWaiting
    <2>3. \A c \in Calls : Late(c) => OpenCall(calls[c]) /\ calls[c] # NoCall
      <3>1. \A c \in Calls : Late(c) => calls[c].stage \in {"wait", "leave"}
        BY NoneIsReserved DEF WaitInv, RegisteredWaits
      <3> HIDE DEF Late
      <3> QED BY <1>0, <3>1, StageIsOpen DEF NoCall
    <2> HIDE DEF Late
    <2>4. \A c \in Calls : Late(c) => SameWork(calls[c], calls'[c])
      BY <2>2, <2>3 DEF OpenCall, Call, SameWork
    <2>5. \A c \in Calls : ~Late(c) => calls'[c] = calls[c]
      BY <2>2
    <2> QED BY <1>0, <2>1, <2>3, <2>4, <2>5, OrderStep, SameWorkRefl
  <1>11. CASE CleanupDelete
    <2>1. /\ used' = used /\ calls' = calls
          /\ \A s \in Resources : locks'[s] = NoLock \/ locks'[s] = locks[s]
      BY <1>11 DEF CleanupDelete
    <2> QED BY <1>0, <2>1, OldLocks, SameCalls
  <1> QED BY <1>2, <1>3, <1>4, <1>5, <1>6, <1>7, <1>8, <1>9, <1>10, <1>11 DEF Next

\* Calls in order wait for nobody who waits for them.
LEMMA OrderAvoidsCycles == TypeOK /\ OrderInv => NoCircularWait
  <1> DEFINE WaitsFor(x, y, i) ==
               /\ i \in DOMAIN calls[y].got
               /\ calls[y].got[i].resource = Head(calls[x].todo)
               /\ locks[calls[y].got[i].resource].id = calls[y].got[i].id
  <1> SUFFICES ASSUME TypeOK, OrderInv, NEW c \in Calls, NEW d \in Calls,
                      calls[c].stage = "wait", calls[d].stage = "wait",
                      NEW i, NEW j, WaitsFor(c, d, i), WaitsFor(d, c, j)
               PROVE  FALSE
    BY DEF NoCircularWait
  <1>1. calls[c] # NoCall /\ calls[d] # NoCall
    BY DEF NoCall
  <1>2. OpenCall(calls[c]) /\ OpenCall(calls[d])
    BY <1>1, StageIsOpen
  <1> DEFINE x == calls[c]
             y == calls[d]
  <1>3. /\ Len(x.todo) \in Nat \ {0} /\ Head(x.todo) = x.todo[1]
        /\ Head(x.todo) \in Nat /\ x.got \in Seq(Handle)
        /\ Len(y.todo) \in Nat \ {0} /\ Head(y.todo) = y.todo[1]
        /\ Head(y.todo) \in Nat /\ y.got \in Seq(Handle)
    BY <1>2, HeadOfCall, ResourcesAreOrdered
  <1>4. i \in 1..Len(y.got) /\ j \in 1..Len(x.got) /\ 1 \in 1..Len(x.todo)
        /\ 1 \in 1..Len(y.todo)
    BY <1>3
  <1>5. Ordered(x) /\ Ordered(y) /\ Holds(y, locks, used)
    BY <1>1 DEF OrderInv
  <1>6. y.got[i].resource <= y.todo[1] /\ x.got[j].resource <= x.todo[1]
    BY <1>4, <1>5 DEF Ordered
  <1>7. y.got[i].resource = Head(y.todo)
    BY <1>3, <1>6
  <1>8. y.got[i].resource # Head(y.todo)
    BY <1>4, <1>5 DEF Holds
  <1> QED BY <1>7, <1>8

\* AcquireMultipleLocks waits while it holds locks; since every call takes its
\* locks in the one order of sort.Strings, two calls never wait for each other.
THEOREM NobodyWaitsInACircle == Spec => []NoCircularWait
  <1>1. WaitInv => TypeOK
    BY DEF WaitInv
  <1> QED BY <1>1, InitOrderInv, NextOrderInv, OrderAvoidsCycles, AlwaysWaitInv, PTL
          DEF Spec

=============================================================================
