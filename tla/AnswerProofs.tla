---------------------------- MODULE AnswerProofs ----------------------------
(***************************************************************************)
(* Proofs about the two components that answer queries.                    *)
(*                                                                         *)
(* SearchEngine, for every sequence of work units and every size of the    *)
(* queue and of a batch: the types, that no unit goes missing between the  *)
(* receiver, the queue, the batch and the index, that a query is answered  *)
(* by what the indexed units say, and that the pages of an answer are its  *)
(* parts.                                                                  *)
(*                                                                         *)
(* McpServer, for every set of contexts, messages and texts and every      *)
(* input: the types, and that the memory tools answer from what was        *)
(* acknowledged to the client.                                             *)
(***************************************************************************)
EXTENDS SearchEngine, McpServer, SequenceTheorems, FunctionTheorems, FiniteSetTheorems, TLAPS

----------------------------------------------------------------------------
(* SearchEngine *)

N == Len(Units)

\* The units are numbered.
LEMMA Numbered == N \in Nat /\ DOMAIN Units = 1..N
  <1>1. Units \in Seq(Range(Units))
    BY UnitsAssumption
  <1> QED BY <1>1 DEF N

\* What is written for a unit are keys of one of the units.
AllKeys == UNION {BackendKeys(Units[i]) : i \in 1..N}

\* The keys that one implementation writes.
LEMMA KeysAreKeys ==
  ASSUME NEW i \in 1..N
  PROVE  KeysOf(i) \subseteq AllKeys
  <1>1. KeysOf(i) \subseteq BackendKeys(Units[i])
    BY DEF KeysOf, BackendKeys, IndexKeys
  <1> QED BY <1>1 DEF AllKeys

\* The first element of a queue and the others.
LEMMA FirstOfQueue ==
  ASSUME NEW S, NEW s \in Seq(S), s # <<>>
  PROVE  /\ Head(s) \in S /\ Tail(s) \in Seq(S) /\ Len(Tail(s)) = Len(s) - 1
         /\ Elements(s) = {Head(s)} \cup Elements(Tail(s))
  <1>1. /\ Len(s) \in Nat /\ Len(s) >= 1 /\ DOMAIN s = 1..Len(s)
        /\ Head(s) = s[1] /\ s[1] \in S
    BY EmptySeq, ElementOfSeq
  <1>2. /\ Tail(s) \in Seq(S) /\ Len(Tail(s)) = Len(s) - 1
        /\ DOMAIN Tail(s) = 1..(Len(s) - 1)
        /\ \A i \in 1..(Len(s) - 1) : Tail(s)[i] = s[i + 1]
    BY <1>1, HeadTailProperties
  <1> DEFINE n == Len(s)
             t == Tail(s)
  <1>3. n \in Nat /\ n >= 1 /\ DOMAIN s = 1..n /\ DOMAIN t = 1..(n - 1)
        /\ \A i \in 1..(n - 1) : t[i] = s[i + 1]
    BY <1>1, <1>2
  <1> HIDE DEF n, t
  <1>4. Elements(s) = {s[1]} \cup Elements(t)
    <2>1. ASSUME NEW i \in 1..n PROVE s[i] \in {s[1]} \cup Elements(t)
      <3>1. CASE i = 1
        BY <3>1
      <3>2. CASE i # 1
        <4>1. i - 1 \in 1..(n - 1) /\ (i - 1) + 1 = i
          BY <1>3, <3>2
        <4>2. t[i - 1] = s[i]
          BY <1>3, <4>1
        <4> QED BY <1>3, <4>1, <4>2 DEF Elements
      <3> QED BY <3>1, <3>2
    <2>2. ASSUME NEW i \in 1..(n - 1) PROVE t[i] \in Elements(s)
      <3>1. i + 1 \in 1..n
        BY <1>3
      <3> QED BY <1>3, <3>1 DEF Elements
    <2>3. 1 \in 1..n
      BY <1>3
    <2> QED BY <1>3, <2>1, <2>2, <2>3 DEF Elements
  <1> QED BY <1>1, <1>2, <1>4 DEF t

\* One more element at the end.
LEMMA LastOfQueue ==
  ASSUME NEW S, NEW s \in Seq(S), NEW x \in S
  PROVE  /\ Append(s, x) \in Seq(S) /\ Len(Append(s, x)) = Len(s) + 1
         /\ Elements(Append(s, x)) = Elements(s) \cup {x}
  <1> DEFINE n == Len(s)
             t == Append(s, x)
  <1>1. /\ n \in Nat /\ DOMAIN s = 1..n /\ t \in Seq(S) /\ Len(t) = n + 1
        /\ DOMAIN t = 1..(n + 1) /\ t[n + 1] = x
        /\ \A i \in 1..n : t[i] = s[i]
    BY AppendProperties
  <1> HIDE DEF n, t
  <1>2. \A i \in 1..(n + 1) : i = n + 1 \/ i \in 1..n
    BY <1>1
  <1>3. n + 1 \in 1..(n + 1) /\ \A i \in 1..n : i \in 1..(n + 1)
    BY <1>1
  <1>4. \A i \in 1..(n + 1) : t[i] \in Elements(s) \cup {x}
    BY <1>1, <1>2 DEF Elements
  <1>5. x \in Elements(t) /\ \A i \in 1..n : s[i] \in Elements(t)
    BY <1>1, <1>3 DEF Elements
  <1>6. Elements(t) = Elements(s) \cup {x}
    <2>1. Elements(t) = {t[i] : i \in 1..(n + 1)} /\ Elements(s) = {s[i] : i \in 1..n}
      BY <1>1 DEF Elements
    <2> QED BY <1>4, <1>5, <2>1
  <1> QED BY <1>1, <1>6 DEF n, t

\* Short queues.
LEMMA ShortQueues ==
  ASSUME NEW S
  PROVE  /\ <<>> \in Seq(S) /\ Len(<<>>) = 0 /\ Elements(<<>>) = {}
         /\ \A x \in S : <<x>> \in Seq(S) /\ Elements(<<x>>) = {x}
  BY DEF Elements

\* An empty batch is one that may grow.
LEMMA EmptyBatch == <<>> \in Seq(1..N) /\ Len(<<>>) < BatchSize /\ Elements(<<>>) = {}
  <1>1. <<>> \in Seq(1..N) /\ Len(<<>>) = 0 /\ Elements(<<>>) = {}
    BY ShortQueues
  <1>2. 0 < BatchSize
    BY PipeAssumption
  <1> QED BY <1>1, <1>2

\* The elements of a queue.
LEMMA ElementsType ==
  ASSUME NEW S, NEW s \in Seq(S)
  PROVE  Elements(s) \subseteq S /\ Len(s) \in Nat
  BY ElementOfSeq DEF Elements

----------------------------------------------------------------------------
\* A write puts all keys of all its units in the index, or gives all of them up.
Written(ids) ==
    \/ dbOpen /\ index' = index \cup UNION {KeysOf(i) : i \in ids} /\ dropped' = dropped
    \/ ~dbOpen /\ dropped' = dropped \cup ids /\ index' = index

\* What a step of the pipe may do to the index and to the units given up.
LEMMA WriteStep ==
  ASSUME TypeOK, NEW s \in Seq(1..N), Write(s)
  PROVE  /\ Written(Elements(s))
         /\ index' \subseteq AllKeys /\ dropped' \subseteq 1..N
  <1>1. Elements(s) \subseteq 1..N
    BY ElementsType
  <1>2. Written(Elements(s))
    BY DEF Write, Written, Elements
  <1>3. index \subseteq AllKeys /\ dropped \subseteq 1..N
    BY Numbered DEF TypeOK, AllKeys, N
  <1>4. UNION {KeysOf(i) : i \in Elements(s)} \subseteq AllKeys
    BY <1>1, KeysAreKeys
  <1> QED BY <1>1, <1>2, <1>3, <1>4 DEF Written

\* The parts of the type.
LEMMA Parts ==
  ASSUME TypeOK
  PROVE  /\ received \in 0..N /\ N \in Nat
         /\ queue \in Seq(1..N) /\ Len(queue) \in Nat /\ Len(queue) <= QueueSize
         /\ batch \in Seq(1..N) /\ Len(batch) \in Nat /\ Len(batch) < BatchSize
         /\ index \subseteq AllKeys /\ dropped \subseteq 1..N
         /\ QueueSize \in Nat \ {0} /\ BatchSize \in Nat \ {0}
  <1>1. queue \in Seq(1..N) /\ batch \in Seq(1..N)
    BY DEF TypeOK, N
  <1>2. index \subseteq AllKeys
    BY Numbered DEF TypeOK, AllKeys
  <1> QED BY <1>1, <1>2, Numbered, ElementsType, PipeAssumption DEF TypeOK, N

\* The receiver's next unit.
LEMMA NextUnit ==
  ASSUME TypeOK, TakeUnit
  PROVE  received + 1 \in 1..N /\ received' = received + 1 /\ received' \in 0..N
  BY Parts DEF TakeUnit, N

----------------------------------------------------------------------------
\* Types, and what has been received

\* Shutdown closes the queue before the database.
DbClosesLast == dbOpen \in BOOLEAN /\ (~dbOpen => queueClosed)

PipeInv == TypeOK /\ DbClosesLast /\ NothingMissing

\* Where a unit that was received may be.
Placed(i) == Indexed(i) \/ i \in Elements(queue) \cup Elements(batch) \cup dropped

\* Nothing is stopping.
Running == ~cancelled /\ ~queueClosed

\* The types of a step of the pipe that leaves the life cycle alone.
LEMMA PipeTypes ==
  ASSUME TypeOK, kind' = kind, life' = life,
         received' \in 0..N, queue' \in Seq(1..N), Len(queue') <= QueueSize,
         batch' \in Seq(1..N), Len(batch') < BatchSize, loop' \in BOOLEAN,
         index' \subseteq AllKeys, dropped' \subseteq 1..N
  PROVE  TypeOK'
  <1>1. index' \subseteq UNION {BackendKeys(Units[i]) : i \in DOMAIN Units}
    BY Numbered DEF AllKeys
  <1>2. UNCHANGED <<cancelled, queueClosed, dbOpen, panic>>
    BY DEF life
  <1>3. kind' \in Kinds /\ {cancelled, queueClosed, dbOpen, panic}' \subseteq BOOLEAN
    BY <1>2 DEF TypeOK
  <1> QED BY <1>1, <1>3 DEF TypeOK, N

\* A step that places the units it takes up and removes none from its place.
LEMMA PipePlaces ==
  ASSUME PipeInv, TypeOK', kind' = kind, life' = life,
         Running => /\ \A i \in 1..N : Placed(i) => Placed(i)'
                    /\ \A i \in 1..received' : i \in 1..received \/ Placed(i)'
                    /\ dropped' = dropped \/ kind = "service"
  PROVE  PipeInv'
  <1>1. UNCHANGED <<cancelled, queueClosed, dbOpen, panic>>
    BY DEF life
  <1>2. DbClosesLast'
    BY <1>1 DEF PipeInv, DbClosesLast
  <1>3. received \in 0..N /\ N \in Nat
    BY Parts DEF PipeInv
  <1>4. \A i \in 1..received : i \in 1..N
    BY <1>3
  <1>5. ASSUME Running PROVE (\A i \in 1..received : Placed(i))
                             /\ (dropped # {} => kind = "service")
    BY <1>5 DEF PipeInv, NothingMissing, Running, Placed
  <1>6. ASSUME Running PROVE (\A i \in 1..received' : Placed(i)')
                             /\ (dropped' # {} => kind' = "service")
    BY <1>4, <1>5, <1>6
  <1>7. NothingMissing'
    BY <1>1, <1>6 DEF NothingMissing, Running, Placed
  <1> QED BY <1>2, <1>7 DEF PipeInv

\* A write while nothing is stopping: its units are in the index, and nothing leaves
\* it.
LEMMA WritePlaces ==
  ASSUME PipeInv, Running, kind' = kind, NEW ids, Written(ids)
  PROVE  /\ dropped' = dropped
         /\ \A i : Indexed(i) => Indexed(i)'
         /\ \A i \in ids : Indexed(i)'
  <1>1. dbOpen
    BY DEF PipeInv, DbClosesLast, Running
  <1>2. index' = index \cup UNION {KeysOf(i) : i \in ids} /\ dropped' = dropped
    BY <1>1 DEF Written
  <1>3. \A i : KeysOf(i)' = KeysOf(i)
    BY DEF KeysOf
  <1>4. \A i \in ids : KeysOf(i) \subseteq index'
    BY <1>2
  <1> QED BY <1>2, <1>3, <1>4 DEF Indexed

\* The index is left alone.
LEMMA SameIndex ==
  ASSUME kind' = kind, index' = index
  PROVE  \A i : Indexed(i)' <=> Indexed(i)
  BY DEF Indexed, KeysOf

\* The receiver queues the unit.
LEMMA EnqueueStep ==
  ASSUME PipeInv, kind' = kind, life' = life, TakeUnit, Enqueue,
         UNCHANGED <<batch, loop, index, dropped>>
  PROVE  PipeInv'
  <1> DEFINE u == received + 1
  <1>0. TypeOK
    BY DEF PipeInv
  <1>1. u \in 1..N /\ received' = u /\ received' \in 0..N
    BY <1>0, NextUnit
  <1>2. queue' = Append(queue, u) /\ Len(queue) < QueueSize
    BY DEF Enqueue
  <1>3. /\ queue' \in Seq(1..N) /\ Len(queue') = Len(queue) + 1
        /\ Elements(queue') = Elements(queue) \cup {u}
    BY <1>0, <1>1, <1>2, Parts, LastOfQueue
  <1>4. Len(queue') <= QueueSize
    BY <1>0, <1>2, <1>3, Parts
  <1>5. TypeOK'
    BY <1>0, <1>1, <1>3, <1>4, Parts, PipeTypes DEF TypeOK
  <1>6. \A i \in 1..received' : i \in 1..received \/ i = u
    BY <1>0, <1>1, Parts
  <1> HIDE DEF u
  <1>7. (\A i : Placed(i) => Placed(i)') /\ \A i \in {u} : Placed(i)'
    BY <1>3, SameIndex DEF Placed
  <1> QED BY <1>5, <1>6, <1>7, PipePlaces

\* The receiver writes the unit itself.
LEMMA DirectStep ==
  ASSUME PipeInv, kind' = kind, life' = life, TakeUnit, Write(<<received + 1>>),
         UNCHANGED <<queue, batch, loop>>
  PROVE  PipeInv'
  <1> DEFINE u == received + 1
  <1>0. TypeOK
    BY DEF PipeInv
  <1>1. u \in 1..N /\ received' = u /\ received' \in 0..N
    BY <1>0, NextUnit
  <1>2. <<u>> \in Seq(1..N) /\ Elements(<<u>>) = {u}
    BY <1>1, ShortQueues
  <1>3. Written({u}) /\ index' \subseteq AllKeys /\ dropped' \subseteq 1..N
    BY <1>0, <1>2, WriteStep
  <1>4. TypeOK'
    BY <1>0, <1>1, <1>3, Parts, PipeTypes DEF TypeOK
  <1>5. \A i \in 1..received' : i \in 1..received \/ i = u
    BY <1>0, <1>1, Parts
  <1> HIDE DEF u
  <1>6. ASSUME Running
        PROVE  /\ \A i : Placed(i) => Placed(i)'
               /\ \A i \in {u} : Placed(i)'
               /\ dropped' = dropped
    BY <1>3, <1>6, WritePlaces DEF Placed
  <1> QED BY <1>4, <1>5, <1>6, PipePlaces

\* The receiver gives the unit up, which only the service does before the context ends.
LEMMA GiveUpStep ==
  ASSUME PipeInv, kind' = kind, life' = life, TakeUnit, dropped' = dropped \cup {received + 1},
         kind = "service" \/ cancelled, UNCHANGED <<queue, batch, loop, index>>
  PROVE  PipeInv'
  <1> DEFINE u == received + 1
  <1>0. TypeOK
    BY DEF PipeInv
  <1>1. u \in 1..N /\ received' = u /\ received' \in 0..N
    BY <1>0, NextUnit
  <1>2. dropped' \subseteq 1..N
    BY <1>0, <1>1, Parts
  <1>3. TypeOK'
    BY <1>0, <1>1, <1>2, Parts, PipeTypes DEF TypeOK
  <1>4. \A i \in 1..received' : i \in 1..received \/ i = u
    BY <1>0, <1>1, Parts
  <1>5. dropped' = dropped \cup {u}
    OBVIOUS
  <1> HIDE DEF u
  <1>6. (\A i : Placed(i) => Placed(i)') /\ \A i \in {u} : Placed(i)'
    BY <1>5, SameIndex DEF Placed
  <1> QED BY <1>3, <1>4, <1>6, PipePlaces DEF Running

\* A unit joins the batch, and a full batch is written.
LEMMA LoopTakeStep ==
  ASSUME PipeInv, LoopTake
  PROVE  PipeInv'
  <1> DEFINE u == Head(queue)
             units == Append(batch, u)
  <1>0. /\ TypeOK /\ kind' = kind /\ life' = life /\ received' = received /\ loop' = loop
        /\ queue # <<>> /\ queue' = Tail(queue)
    BY DEF PipeInv, LoopTake
  <1>1. /\ u \in 1..N /\ Elements(queue) = {u} \cup Elements(queue')
        /\ queue' \in Seq(1..N) /\ Len(queue') = Len(queue) - 1
    BY <1>0, Parts, FirstOfQueue
  <1>2. /\ units \in Seq(1..N) /\ Len(units) = Len(batch) + 1
        /\ Elements(units) = Elements(batch) \cup {u}
    BY <1>0, <1>1, Parts, LastOfQueue
  <1>3. Len(queue') <= QueueSize
    BY <1>0, <1>1, Parts
  <1>4. \/ batch' = <<>> /\ Write(units)
        \/ Len(units) < BatchSize /\ batch' = units /\ index' = index /\ dropped' = dropped
    BY <1>0, <1>2, Parts DEF LoopTake
  <1> HIDE DEF u, units
  <1>5. CASE batch' = <<>> /\ Write(units)
    <2>1. Written(Elements(units)) /\ index' \subseteq AllKeys /\ dropped' \subseteq 1..N
      BY <1>0, <1>2, <1>5, WriteStep
    <2>2. batch' \in Seq(1..N) /\ Len(batch') < BatchSize /\ Elements(batch') = {}
      BY <1>5, EmptyBatch
    <2>3. TypeOK'
      BY <1>0, <1>1, <1>3, <2>1, <2>2, Parts, PipeTypes DEF TypeOK
    <2>4. ASSUME Running PROVE (\A i : Placed(i) => Placed(i)') /\ dropped' = dropped
      BY <1>0, <1>1, <1>2, <2>1, <2>4, WritePlaces DEF Placed
    <2> QED BY <1>0, <2>3, <2>4, PipePlaces
  <1>6. CASE Len(units) < BatchSize /\ batch' = units /\ index' = index /\ dropped' = dropped
    <2>1. TypeOK'
      BY <1>0, <1>1, <1>2, <1>3, <1>6, Parts, PipeTypes DEF TypeOK
    <2>2. \A i : Placed(i) => Placed(i)'
      BY <1>0, <1>1, <1>2, <1>6, SameIndex DEF Placed
    <2> QED BY <1>0, <1>6, <2>1, <2>2, PipePlaces
  <1> QED BY <1>4, <1>5, <1>6

\* The batch is written, by the ticker or at the end of the loop.
LEMMA LoopWriteStep ==
  ASSUME PipeInv, LoopTick \/ LoopEnd
  PROVE  PipeInv'
  <1>0. /\ TypeOK /\ kind' = kind /\ life' = life /\ received' = received /\ queue' = queue
        /\ batch' = <<>> /\ loop' \in BOOLEAN
        /\ \/ Write(batch)
           \/ batch = <<>> /\ index' = index /\ dropped' = dropped
    BY DEF PipeInv, LoopTick, LoopEnd, TypeOK
  <1>1. batch' \in Seq(1..N) /\ Len(batch') < BatchSize /\ Elements(batch') = {}
    BY <1>0, EmptyBatch
  <1>2. CASE Write(batch)
    <2>1. Written(Elements(batch)) /\ index' \subseteq AllKeys /\ dropped' \subseteq 1..N
      BY <1>0, <1>2, Parts, WriteStep
    <2>2. TypeOK'
      BY <1>0, <1>1, <2>1, Parts, PipeTypes
    <2>3. ASSUME Running PROVE (\A i : Placed(i) => Placed(i)') /\ dropped' = dropped
      BY <1>0, <1>1, <2>1, <2>3, WritePlaces DEF Placed
    <2> QED BY <1>0, <2>2, <2>3, PipePlaces
  <1>3. CASE batch = <<>> /\ index' = index /\ dropped' = dropped
    <2>1. TypeOK'
      BY <1>0, <1>1, <1>3, Parts, PipeTypes
    <2>2. \A i : Placed(i) => Placed(i)'
      BY <1>0, <1>3, SameIndex DEF Placed
    <2> QED BY <1>0, <1>3, <2>1, <2>2, PipePlaces
  <1> QED BY <1>0, <1>2, <1>3

\* Cancelling and the two parts of Shutdown.
LEMMA StopStep ==
  ASSUME PipeInv, Cancel \/ ShutdownQueue \/ ShutdownDb \/ ReceivePanics
  PROVE  PipeInv'
  <1>0. /\ TypeOK /\ DbClosesLast /\ cancelled \in BOOLEAN /\ queueClosed \in BOOLEAN
        /\ dbOpen \in BOOLEAN /\ panic \in BOOLEAN
    BY DEF PipeInv, TypeOK
  <1>1. /\ UNCHANGED <<kind, queue, batch, loop, index, dropped>>
        /\ received' = received \/ TakeUnit
        /\ cancelled' \in BOOLEAN /\ queueClosed' \in BOOLEAN /\ dbOpen' \in BOOLEAN
        /\ panic' \in BOOLEAN
        /\ cancelled' \/ queueClosed'
        /\ ~dbOpen' => queueClosed'
    BY <1>0 DEF Cancel, ShutdownQueue, ShutdownDb, ReceivePanics, pipe, DbClosesLast
  <1>2. received' \in 0..Len(Units)
    BY <1>0, <1>1, NextUnit DEF TypeOK, N
  <1>3. {cancelled, queueClosed, dbOpen, panic}' \subseteq BOOLEAN
    BY <1>1
  <1>4. TypeOK'
    BY <1>0, <1>1, <1>2, <1>3 DEF TypeOK
  <1>5. DbClosesLast' /\ NothingMissing'
    BY <1>1 DEF DbClosesLast, NothingMissing
  <1> QED BY <1>4, <1>5 DEF PipeInv

\* Every step keeps the types and every unit in its place.
LEMMA NextPipe == PipeInv /\ [Next]_vars => PipeInv'
  <1> SUFFICES ASSUME PipeInv, [Next]_vars PROVE PipeInv'
    OBVIOUS
  <1>1. CASE UNCHANGED vars
    <2>1. UNCHANGED <<kind, received, queue, batch, loop, index, dropped>>
          /\ UNCHANGED <<cancelled, queueClosed, dbOpen, panic>>
      BY <1>1 DEF vars, pipe, life
    <2>2. TypeOK' /\ DbClosesLast'
      BY <2>1 DEF PipeInv, TypeOK, DbClosesLast
    <2>3. NothingMissing'
      BY <2>1, SameIndex DEF PipeInv, NothingMissing
    <2> QED BY <2>2, <2>3 DEF PipeInv
  <1>2. CASE ReceiveService
    BY <1>2, EnqueueStep, GiveUpStep DEF ReceiveService
  <1>3. CASE ReceiveWrapper
    BY <1>3, DirectStep DEF ReceiveWrapper
  <1>4. CASE ReceiveBadger
    BY <1>4, EnqueueStep, GiveUpStep, DirectStep DEF ReceiveBadger
  <1>5. CASE LoopStep
    BY <1>5, LoopTakeStep, LoopWriteStep DEF LoopStep
  <1>6. CASE ReceivePanics \/ Cancel \/ ShutdownQueue \/ ShutdownDb
    BY <1>6, StopStep
  <1> QED BY <1>1, <1>2, <1>3, <1>4, <1>5, <1>6 DEF Next, Step

\* The goroutines start with nothing received.
LEMMA InitPipe == Init => PipeInv
  <1> SUFFICES ASSUME Init PROVE PipeInv
    OBVIOUS
  <1>1. /\ <<>> \in Seq(1..Len(Units)) /\ Len(<<>>) = 0
        /\ received \in 0..Len(Units) /\ 0 <= QueueSize /\ 0 < BatchSize
    BY Numbered, ShortQueues, PipeAssumption DEF Init, N
  <1>2. loop \in BOOLEAN /\ {cancelled, queueClosed, dbOpen, panic} \subseteq BOOLEAN
    BY DEF Init
  <1>3. TypeOK
    BY <1>1, <1>2 DEF Init, TypeOK
  <1>4. DbClosesLast /\ NothingMissing
    BY DEF Init, DbClosesLast, NothingMissing
  <1> QED BY <1>3, <1>4 DEF PipeInv

----------------------------------------------------------------------------
\* Keys and their prefixes

\* Sequences, element by element.
LEMMA PrefixMeans ==
  ASSUME NEW S, NEW s \in Seq(S), NEW T, NEW t \in Seq(T)
  PROVE  IsPrefix(s, t) <=> /\ Len(s) <= Len(t)
                            /\ \A i \in 1..Len(s) : s[i] = t[i]
  <1>1. Len(s) \in Nat /\ Len(t) \in Nat
    OBVIOUS
  <1>2. ASSUME Len(s) <= Len(t)
        PROVE  /\ SubSeq(s, 1, Len(s)) = [i \in 1..Len(s) |-> s[i]]
               /\ SubSeq(t, 1, Len(s)) = [i \in 1..Len(s) |-> t[i]]
    BY <1>1, <1>2
  <1> QED BY <1>1, <1>2 DEF IsPrefix

\* Prefixes of one, two and three segments.
LEMMA Prefix1 ==
  ASSUME NEW T, NEW t \in Seq(T), NEW a
  PROVE  IsPrefix(<<a>>, t) <=> Len(t) >= 1 /\ t[1] = a
  <1> DEFINE s == <<a>>
  <1>1. s \in Seq({a}) /\ Len(s) = 1 /\ s[1] = a /\ Len(t) \in Nat
    OBVIOUS
  <1> HIDE DEF s
  <1>2. \A i \in 1..1 : i = 1
    OBVIOUS
  <1>3. IsPrefix(s, t) <=> Len(s) <= Len(t) /\ \A i \in 1..Len(s) : s[i] = t[i]
    <2>1. \E S : s \in Seq(S)
      BY <1>1
    <2> QED BY <2>1, PrefixMeans
  <1>4. IsPrefix(s, t) <=> Len(t) >= 1 /\ t[1] = a
    BY <1>1, <1>2, <1>3
  <1> QED BY <1>4 DEF s

\* Two segments.
LEMMA Prefix2 ==
  ASSUME NEW T, NEW t \in Seq(T), NEW a, NEW b
  PROVE  IsPrefix(<<a, b>>, t) <=> Len(t) >= 2 /\ t[1] = a /\ t[2] = b
  <1> DEFINE s == <<a, b>>
  <1>1. s \in Seq({a, b}) /\ Len(s) = 2 /\ s[1] = a /\ s[2] = b /\ Len(t) \in Nat
    OBVIOUS
  <1> HIDE DEF s
  <1>2. \A i \in 1..2 : i = 1 \/ i = 2
    OBVIOUS
  <1>3. IsPrefix(s, t) <=> Len(s) <= Len(t) /\ \A i \in 1..Len(s) : s[i] = t[i]
    <2>1. \E S : s \in Seq(S)
      BY <1>1
    <2> QED BY <2>1, PrefixMeans
  <1>4. IsPrefix(s, t) <=> Len(t) >= 2 /\ t[1] = a /\ t[2] = b
    BY <1>1, <1>2, <1>3
  <1> QED BY <1>4 DEF s

\* Three segments.
LEMMA Prefix3 ==
  ASSUME NEW T, NEW t \in Seq(T), NEW a, NEW b, NEW c
  PROVE  IsPrefix(<<a, b, c>>, t) <=> Len(t) >= 3 /\ t[1] = a /\ t[2] = b /\ t[3] = c
  <1> DEFINE s == <<a, b, c>>
  <1>1. s \in Seq({a, b, c}) /\ Len(s) = 3 /\ s[1] = a /\ s[2] = b /\ s[3] = c /\ Len(t) \in Nat
    OBVIOUS
  <1> HIDE DEF s
  <1>2. \A i \in 1..3 : i = 1 \/ i = 2 \/ i = 3
    OBVIOUS
  <1>3. IsPrefix(s, t) <=> Len(s) <= Len(t) /\ \A i \in 1..Len(s) : s[i] = t[i]
    <2>1. \E S : s \in Seq(S)
      BY <1>1
    <2> QED BY <2>1, PrefixMeans
  <1>4. IsPrefix(s, t) <=> Len(t) >= 3 /\ t[1] = a /\ t[2] = b /\ t[3] = c
    BY <1>1, <1>2, <1>3
  <1> QED BY <1>4 DEF s

\* A sequence is one over its own elements.
LEMMA SeqOfItsRange ==
  ASSUME NEW S, NEW s \in Seq(S)
  PROVE  s \in Seq(Range(s))
  <1>1. Len(s) \in Nat /\ s \in [1..Len(s) -> S]
    BY LenProperties
  <1>2. s \in [1..Len(s) -> Range(s)]
    BY <1>1 DEF Range
  <1> QED BY <1>1, <1>2, SeqDef

\* A key with the segments of a context in it.
CtxKeyOf(c, x) == <<"ctx">> \o c \o <<x>>
TsKeyOf(c, t, x) == <<"ts">> \o c \o <<t, x>>

\* The key of a context and an ID, segment by segment.
LEMMA ContextKey ==
  ASSUME NEW S, NEW c \in Seq(S), NEW x, NEW k, k = CtxKeyOf(c, x)
  PROVE  /\ k \in Seq(Range(k)) /\ Len(k) = Len(c) + 2
         /\ k[1] = "ctx" /\ Last(k) = x /\ \A i \in 1..Len(c) : k[i + 1] = c[i]
  <1> DEFINE S2 == S \cup {"ctx", x}
             a == "ctx"
  <1>1. <<a>> \in Seq(S2) /\ Len(<<a>>) = 1 /\ c \in Seq(S2) /\ <<x>> \in Seq(S2) /\ Len(<<x>>) = 1
        /\ Len(c) \in Nat
    OBVIOUS
  <1>2. /\ <<a>> \o c \in Seq(S2) /\ Len(<<a>> \o c) = 1 + Len(c) /\ (<<a>> \o c)[1] = a
        /\ \A i \in 1..Len(c) : (<<a>> \o c)[i + 1] = c[i]
    BY <1>1, ConcatProperties
  <1>3. /\ k \in Seq(S2) /\ Len(k) = Len(c) + 2
        /\ \A i \in 1..(1 + Len(c)) : k[i] = (<<a>> \o c)[i]
        /\ k[Len(c) + 2] = x
    BY <1>1, <1>2, ConcatProperties DEF CtxKeyOf
  <1>4. k \in Seq(Range(k))
    BY <1>3, SeqOfItsRange
  <1>5. \A i \in 1..Len(c) : k[i + 1] = c[i]
    BY <1>1, <1>2, <1>3
  <1> QED BY <1>1, <1>2, <1>3, <1>4, <1>5 DEF Last

\* A key with a context, a timestamp and an ID.
LEMMA TimeKey ==
  ASSUME NEW S, NEW c \in Seq(S), NEW t, NEW x, NEW k, k = TsKeyOf(c, t, x)
  PROVE  /\ k \in Seq(Range(k)) /\ Len(k) = Len(c) + 3
         /\ k[1] = "ts" /\ Last(k) = x /\ (Len(c) = 1 => k[3] = t)
  <1> DEFINE S2 == S \cup {"ts", t, x}
             a == "ts"
  <1>1. /\ <<a>> \in Seq(S2) /\ Len(<<a>>) = 1 /\ c \in Seq(S2)
        /\ <<t, x>> \in Seq(S2) /\ Len(<<t, x>>) = 2 /\ Len(c) \in Nat
    OBVIOUS
  <1>2. <<a>> \o c \in Seq(S2) /\ Len(<<a>> \o c) = 1 + Len(c) /\ (<<a>> \o c)[1] = a
    BY <1>1, ConcatProperties
  <1>3. /\ k \in Seq(S2) /\ Len(k) = Len(c) + 3 /\ k[1] = a
        /\ k[Len(c) + 2] = t /\ k[Len(c) + 3] = x
    BY <1>1, <1>2, ConcatProperties DEF TsKeyOf
  <1>4. k \in Seq(Range(k))
    BY <1>3, SeqOfItsRange
  <1>5. Len(c) = 1 => k[3] = t
    <2>1. Len(c) = 1 => Len(c) + 2 = 3
      OBVIOUS
    <2> QED BY <1>3, <2>1
  <1> QED BY <1>1, <1>3, <1>4, <1>5 DEF Last

----------------------------------------------------------------------------
\* The units and their keys

TheUnits == {Units[i] : i \in 1..N}

\* What is assumed of a unit.
LEMMA UnitFacts ==
  ASSUME NEW u \in TheUnits
  PROVE  /\ u.context \in Seq(Range(u.context)) /\ Len(u.context) \in Nat \ {0}
         /\ u.ts \in Nat \ {0}
         /\ \A p \in u.meta \cup u.rels : IsPair(p)
         /\ IsFiniteSet(u.rels)
         /\ \A v \in TheUnits : v.id = u.id => v = u
  <1>1. PICK i \in DOMAIN Units : u = Units[i]
    BY Numbered DEF TheUnits
  <1>2. u.context \in Seq(Range(u.context)) /\ u.context # <<>>
    BY <1>1, UnitsAssumption
  <1>3. Len(u.context) \in Nat \ {0}
    BY <1>2, EmptySeq
  <1>4. \A v \in TheUnits : v.id = u.id => v = u
    BY <1>1, Numbered, UnitsAssumption DEF TheUnits
  <1> QED BY <1>1, <1>2, <1>3, <1>4, UnitsAssumption

\* The forms that a key of a unit may have.
KeyForm(k, u) ==
    \/ k = <<"wu", u.id>>
    \/ k = CtxKeyOf(u.context, u.id)
    \/ k = <<"agent", u.agent, u.id>>
    \/ k = <<"type", u.type, u.id>>
    \/ k = TsKeyOf(u.context, u.ts, u.id)
    \/ \E w \in Searchable(u) : k = <<"text", w, u.id>>
    \/ \E m \in u.meta : k = <<"meta", m[1], m[2], u.id>>

RelForm(k, u) ==
    \/ \E r \in u.rels : k = <<"rel", r[1], r[2], u.id>>
    \/ \E r \in u.rels : k = <<"rrel", r[1], u.id, r[2]>>

\* What indexBatch and IndexBatch write for a unit, key by key.
LEMMA KeysHaveForms ==
  ASSUME NEW u
  PROVE  /\ \A k : k \in IndexKeys(u) <=> u.id # EmptyId /\ KeyForm(k, u)
         /\ \A k : k \in BackendKeys(u) <=> u.id # EmptyId /\ (KeyForm(k, u) \/ RelForm(k, u))
  BY DEF IndexKeys, BackendKeys, KeyForm, RelForm, CtxKeyOf, TsKeyOf

\* A key is told from its first segment, and all but the reverse ones end in the ID.
LEMMA KeyFacts ==
  ASSUME NEW u \in TheUnits, NEW k, KeyForm(k, u) \/ RelForm(k, u)
  PROVE  /\ k \in Seq(Range(k)) /\ Len(k) \in Nat /\ Len(k) >= 2
         /\ k[1] \in {"wu", "ctx", "agent", "type", "ts", "text", "meta", "rel", "rrel"}
         /\ k[1] # "rrel" => Last(k) = u.id
         /\ k[1] = "wu" => k = <<"wu", u.id>>
         /\ k[1] = "ctx" => k = CtxKeyOf(u.context, u.id)
         /\ k[1] = "agent" => k = <<"agent", u.agent, u.id>>
         /\ k[1] = "type" => k = <<"type", u.type, u.id>>
         /\ k[1] = "ts" => k = TsKeyOf(u.context, u.ts, u.id)
         /\ k[1] = "text" => \E w \in Searchable(u) : k = <<"text", w, u.id>>
         /\ k[1] = "meta" => \E m \in u.meta : k = <<"meta", m[1], m[2], u.id>>
         /\ k[1] = "rel" => \E r \in u.rels : k = <<"rel", r[1], r[2], u.id>>
         /\ k[1] = "rrel" => \E r \in u.rels : k = <<"rrel", r[1], u.id, r[2]>>
  <1>0. /\ u.context \in Seq(Range(u.context)) /\ Len(u.context) \in Nat \ {0}
    BY UnitFacts
  <1>1. CASE k = CtxKeyOf(u.context, u.id)
    <2>1. /\ k \in Seq(Range(k)) /\ Len(k) = Len(u.context) + 2
          /\ k[1] = "ctx" /\ Last(k) = u.id
      BY <1>0, <1>1, ContextKey
    <2> QED BY <1>0, <1>1, <2>1
  <1>2. CASE k = TsKeyOf(u.context, u.ts, u.id)
    <2>1. /\ k \in Seq(Range(k)) /\ Len(k) = Len(u.context) + 3
          /\ k[1] = "ts" /\ Last(k) = u.id
      BY <1>0, <1>2, TimeKey
    <2> QED BY <1>0, <1>2, <2>1
  <1>3. CASE k = <<"wu", u.id>>
    <2>1. k \in Seq(Range(k)) /\ Len(k) = 2 /\ k[1] = "wu" /\ k[2] = u.id
      BY <1>3 DEF Range
    <2> QED BY <1>3, <2>1 DEF Last
  <1>4. CASE k = <<"agent", u.agent, u.id>>
    <2>1. k \in Seq(Range(k)) /\ Len(k) = 3 /\ k[1] = "agent" /\ k[3] = u.id
      BY <1>4 DEF Range
    <2> QED BY <1>4, <2>1 DEF Last
  <1>5. CASE k = <<"type", u.type, u.id>>
    <2>1. k \in Seq(Range(k)) /\ Len(k) = 3 /\ k[1] = "type" /\ k[3] = u.id
      BY <1>5 DEF Range
    <2> QED BY <1>5, <2>1 DEF Last
  <1>6. CASE \E w \in Searchable(u) : k = <<"text", w, u.id>>
    <2>1. k \in Seq(Range(k)) /\ Len(k) = 3 /\ k[1] = "text" /\ k[3] = u.id
      BY <1>6 DEF Range
    <2> QED BY <1>6, <2>1 DEF Last
  <1>7. CASE \E m \in u.meta : k = <<"meta", m[1], m[2], u.id>>
    <2>1. k \in Seq(Range(k)) /\ Len(k) = 4 /\ k[1] = "meta" /\ k[4] = u.id
      BY <1>7 DEF Range
    <2> QED BY <1>7, <2>1 DEF Last
  <1>8. CASE \E r \in u.rels : k = <<"rel", r[1], r[2], u.id>>
    <2>1. k \in Seq(Range(k)) /\ Len(k) = 4 /\ k[1] = "rel" /\ k[4] = u.id
      BY <1>8 DEF Range
    <2> QED BY <1>8, <2>1 DEF Last
  <1>9. CASE \E r \in u.rels : k = <<"rrel", r[1], u.id, r[2]>>
    <2>1. k \in Seq(Range(k)) /\ Len(k) = 4 /\ k[1] = "rrel"
      BY <1>9 DEF Range
    <2> QED BY <1>9, <2>1
  <1> QED BY <1>1, <1>2, <1>3, <1>4, <1>5, <1>6, <1>7, <1>8, <1>9 DEF KeyForm, RelForm

----------------------------------------------------------------------------
\* What the index knows: it holds the keys of some units, all of them of each.

IndexWhole == \A k \in index : \E i \in 1..N : k \in KeysOf(i) /\ KeysOf(i) \subseteq index

\* The IDs of these units, and the unit of an ID.
Live == {u.id : u \in {v \in TheUnits : /\ v.id # EmptyId
                                        /\ \A k : KeyForm(k, v) => k \in index
                                        /\ \A k : kind = "badger" /\ RelForm(k, v) => k \in index}}
UnitOf(x) == CHOOSE u \in TheUnits : u.id = x

\* The same for the implementation that runs.
LEMMA KeysOfForms ==
  ASSUME NEW i \in 1..N
  PROVE  \A k : k \in KeysOf(i) <=> /\ Units[i].id # EmptyId
                                    /\ \/ KeyForm(k, Units[i])
                                       \/ kind = "badger" /\ RelForm(k, Units[i])
  BY KeysHaveForms DEF KeysOf

\* An ID names one unit.
LEMMA UnitOfUnit ==
  ASSUME NEW u \in TheUnits
  PROVE  UnitOf(u.id) = u
  <1>1. \A v \in TheUnits : v.id = u.id => v = u
    BY UnitFacts
  <1> QED BY <1>1 DEF UnitOf

\* An ID that is live is that of a unit with all its keys in the index.
LEMMA LiveUnit ==
  ASSUME NEW x \in Live
  PROVE  /\ UnitOf(x) \in TheUnits /\ UnitOf(x).id = x /\ x # EmptyId
         /\ \A k : KeyForm(k, UnitOf(x)) => k \in index
         /\ \A k : kind = "badger" /\ RelForm(k, UnitOf(x)) => k \in index
  <1>1. PICK u \in TheUnits : /\ x = u.id /\ u.id # EmptyId
                              /\ \A k : KeyForm(k, u) => k \in index
                              /\ \A k : kind = "badger" /\ RelForm(k, u) => k \in index
    BY DEF Live
  <1>2. UnitOf(x) = u
    BY <1>1, UnitOfUnit
  <1> QED BY <1>1, <1>2

\* Every key in the index is one of such a unit.
LEMMA KeyOfLive ==
  ASSUME IndexWhole, NEW k \in index
  PROVE  \E x \in Live : \/ KeyForm(k, UnitOf(x))
                         \/ kind = "badger" /\ RelForm(k, UnitOf(x))
  <1>1. PICK i \in 1..N : k \in KeysOf(i) /\ KeysOf(i) \subseteq index
    BY DEF IndexWhole
  <1>2. Units[i] \in TheUnits
    BY DEF TheUnits
  <1>3. Units[i].id \in Live
    BY <1>1, <1>2, KeysOfForms DEF Live
  <1>4. UnitOf(Units[i].id) = Units[i]
    BY <1>2, UnitOfUnit
  <1> QED BY <1>1, <1>3, <1>4, KeysOfForms

\* Every key in the index with what its first segment tells.
LEMMA LiveKeyFacts ==
  ASSUME IndexWhole, NEW k \in index
  PROVE  /\ k \in Seq(Range(k)) /\ Len(k) \in Nat /\ Len(k) >= 2
         /\ \E x \in Live :
             LET u == UnitOf(x) IN
             /\ k[1] # "rrel" => Last(k) = x
             /\ k[1] = "wu" => k = <<"wu", x>>
             /\ k[1] = "ctx" => k = CtxKeyOf(u.context, x)
             /\ k[1] = "agent" => k = <<"agent", u.agent, x>>
             /\ k[1] = "type" => k = <<"type", u.type, x>>
             /\ k[1] = "ts" => k = TsKeyOf(u.context, u.ts, x)
             /\ k[1] = "text" => \E w \in Searchable(u) : k = <<"text", w, x>>
             /\ k[1] = "meta" => \E m \in u.meta : k = <<"meta", m[1], m[2], x>>
             /\ k[1] = "rel" => kind = "badger" /\ \E r \in u.rels : k = <<"rel", r[1], r[2], x>>
             /\ k[1] = "rrel" => kind = "badger" /\ \E r \in u.rels : k = <<"rrel", r[1], x, r[2]>>
  <1>1. PICK x \in Live : \/ KeyForm(k, UnitOf(x))
                          \/ kind = "badger" /\ RelForm(k, UnitOf(x))
    BY KeyOfLive
  <1>2. UnitOf(x) \in TheUnits /\ UnitOf(x).id = x
    BY LiveUnit
  <1>3. KeyForm(k, UnitOf(x)) => k[1] \notin {"rel", "rrel"}
    BY <1>2, UnitFacts, ContextKey, TimeKey DEF KeyForm
  <1> QED BY <1>1, <1>2, <1>3, KeyFacts

\* The units that are indexed.
LEMMA AllLive ==
  ASSUME IndexWhole
  PROVE  /\ \A x : <<"wu", x>> \in index <=> x \in Live
         /\ AllUnits(index) = Live
  <1>1. ASSUME NEW x, <<"wu", x>> \in index PROVE x \in Live
    <2> DEFINE k == <<"wu", x>>
    <2>1. k[1] = "wu" /\ k[2] = x
      OBVIOUS
    <2>2. PICK y \in Live : k = <<"wu", y>>
      BY <1>1, <2>1, LiveKeyFacts
    <2>3. k[2] = y
      BY <2>2
    <2> QED BY <2>1, <2>3
  <1>2. ASSUME NEW x \in Live PROVE <<"wu", x>> \in index
    BY LiveUnit DEF KeyForm
  <1>3. ASSUME NEW k \in index, IsPrefix(<<"wu">>, k) PROVE Last(k) \in Live
    <2>1. k[1] = "wu"
      BY <1>3, LiveKeyFacts, Prefix1
    <2> QED BY <2>1, LiveKeyFacts
  <1>4. ASSUME NEW x PROVE IsPrefix(<<"wu">>, <<"wu", x>>) /\ Last(<<"wu", x>>) = x
    <2> DEFINE k == <<"wu", x>>
    <2>1. k \in Seq({"wu", x}) /\ Len(k) = 2 /\ k[1] = "wu" /\ k[2] = x
      OBVIOUS
    <2> HIDE DEF k
    <2>2. IsPrefix(<<"wu">>, k) /\ Last(k) = x
      BY <2>1, Prefix1 DEF Last
    <2> QED BY <2>2 DEF k
  <1> QED BY <1>1, <1>2, <1>3, <1>4 DEF AllUnits, Collect

\* The units of an agent.
LEMMA AgentKeys ==
  ASSUME IndexWhole, NEW a
  PROVE  /\ \A x : <<"agent", a, x>> \in index <=> x \in Live /\ UnitOf(x).agent = a
         /\ Collect(index, <<"agent", a>>) = {x \in Live : UnitOf(x).agent = a}
  <1>1. ASSUME NEW x, <<"agent", a, x>> \in index
        PROVE  x \in Live /\ UnitOf(x).agent = a
    <2> DEFINE k == <<"agent", a, x>>
    <2>1. k[1] = "agent" /\ k[2] = a /\ k[3] = x
      OBVIOUS
    <2>2. PICK y \in Live : k = <<"agent", UnitOf(y).agent, y>>
      BY <1>1, <2>1, LiveKeyFacts
    <2>3. k[2] = UnitOf(y).agent /\ k[3] = y
      BY <2>2
    <2> QED BY <2>1, <2>3
  <1>2. ASSUME NEW x \in Live, UnitOf(x).agent = a
        PROVE  <<"agent", a, x>> \in index
    BY <1>2, LiveUnit DEF KeyForm
  <1>3. ASSUME NEW k \in index, IsPrefix(<<"agent", a>>, k)
        PROVE  Last(k) \in Live /\ UnitOf(Last(k)).agent = a
    <2>1. k[1] = "agent" /\ k[2] = a
      BY <1>3, LiveKeyFacts, Prefix2
    <2>2. PICK y \in Live : k = <<"agent", UnitOf(y).agent, y>> /\ Last(k) = y
      BY <2>1, LiveKeyFacts
    <2> QED BY <2>1, <2>2
  <1>4. ASSUME NEW x, <<"agent", a, x>> \in index
        PROVE  IsPrefix(<<"agent", a>>, <<"agent", a, x>>) /\ Last(<<"agent", a, x>>) = x
    <2> DEFINE k == <<"agent", a, x>>
    <2>1. k \in Seq({"agent", a, x}) /\ Len(k) = 3 /\ k[1] = "agent" /\ k[2] = a /\ k[3] = x
      OBVIOUS
    <2> HIDE DEF k
    <2>2. IsPrefix(<<"agent", a>>, k) /\ Last(k) = x
      BY <2>1, Prefix2 DEF Last
    <2> QED BY <2>2 DEF k
  <1> QED BY <1>1, <1>2, <1>3, <1>4 DEF Collect

\* The units of a type.
LEMMA TypeKeys ==
  ASSUME IndexWhole, NEW a
  PROVE  /\ \A x : <<"type", a, x>> \in index <=> x \in Live /\ UnitOf(x).type = a
         /\ Collect(index, <<"type", a>>) = {x \in Live : UnitOf(x).type = a}
  <1>1. ASSUME NEW x, <<"type", a, x>> \in index
        PROVE  x \in Live /\ UnitOf(x).type = a
    <2> DEFINE k == <<"type", a, x>>
    <2>1. k[1] = "type" /\ k[2] = a /\ k[3] = x
      OBVIOUS
    <2>2. PICK y \in Live : k = <<"type", UnitOf(y).type, y>>
      BY <1>1, <2>1, LiveKeyFacts
    <2>3. k[2] = UnitOf(y).type /\ k[3] = y
      BY <2>2
    <2> QED BY <2>1, <2>3
  <1>2. ASSUME NEW x \in Live, UnitOf(x).type = a
        PROVE  <<"type", a, x>> \in index
    BY <1>2, LiveUnit DEF KeyForm
  <1>3. ASSUME NEW k \in index, IsPrefix(<<"type", a>>, k)
        PROVE  Last(k) \in Live /\ UnitOf(Last(k)).type = a
    <2>1. k[1] = "type" /\ k[2] = a
      BY <1>3, LiveKeyFacts, Prefix2
    <2>2. PICK y \in Live : k = <<"type", UnitOf(y).type, y>> /\ Last(k) = y
      BY <2>1, LiveKeyFacts
    <2> QED BY <2>1, <2>2
  <1>4. ASSUME NEW x, <<"type", a, x>> \in index
        PROVE  IsPrefix(<<"type", a>>, <<"type", a, x>>) /\ Last(<<"type", a, x>>) = x
    <2> DEFINE k == <<"type", a, x>>
    <2>1. k \in Seq({"type", a, x}) /\ Len(k) = 3 /\ k[1] = "type" /\ k[2] = a /\ k[3] = x
      OBVIOUS
    <2> HIDE DEF k
    <2>2. IsPrefix(<<"type", a>>, k) /\ Last(k) = x
      BY <2>1, Prefix2 DEF Last
    <2> QED BY <2>2 DEF k
  <1> QED BY <1>1, <1>2, <1>3, <1>4 DEF Collect

\* The units with a word.
LEMMA TextKeys ==
  ASSUME IndexWhole, NEW w
  PROVE  Collect(index, <<"text", w>>) = {x \in Live : w \in Searchable(UnitOf(x))}
  <1>2. ASSUME NEW x \in Live, w \in Searchable(UnitOf(x))
        PROVE  <<"text", w, x>> \in index
    BY <1>2, LiveUnit DEF KeyForm
  <1>3. ASSUME NEW k \in index, IsPrefix(<<"text", w>>, k)
        PROVE  Last(k) \in Live /\ w \in Searchable(UnitOf(Last(k)))
    <2>1. k[1] = "text" /\ k[2] = w
      BY <1>3, LiveKeyFacts, Prefix2
    <2>2. PICK y \in Live : Last(k) = y /\ \E v \in Searchable(UnitOf(y)) : k = <<"text", v, y>>
      BY <2>1, LiveKeyFacts
    <2> QED BY <2>1, <2>2
  <1>4. ASSUME NEW x
        PROVE  IsPrefix(<<"text", w>>, <<"text", w, x>>) /\ Last(<<"text", w, x>>) = x
    <2> DEFINE k == <<"text", w, x>>
    <2>1. k \in Seq({"text", w, x}) /\ Len(k) = 3 /\ k[1] = "text" /\ k[2] = w /\ k[3] = x
      OBVIOUS
    <2> HIDE DEF k
    <2>2. IsPrefix(<<"text", w>>, k) /\ Last(k) = x
      BY <2>1, Prefix2 DEF Last
    <2> QED BY <2>2 DEF k
  <1> QED BY <1>2, <1>3, <1>4 DEF Collect

\* The units with a metadata pair.
LEMMA MetaKeys ==
  ASSUME IndexWhole, NEW m, IsPair(m)
  PROVE  /\ \A x : <<"meta", m[1], m[2], x>> \in index <=> x \in Live /\ m \in UnitOf(x).meta
         /\ Collect(index, <<"meta", m[1], m[2]>>) = {x \in Live : m \in UnitOf(x).meta}
  <1>1. ASSUME NEW y \in Live, NEW p \in UnitOf(y).meta, p[1] = m[1], p[2] = m[2]
        PROVE  m \in UnitOf(y).meta
    <2>1. IsPair(p)
      BY LiveUnit, UnitFacts
    <2>2. p = <<p[1], p[2]>> /\ m = <<m[1], m[2]>>
      BY <2>1 DEF IsPair
    <2>3. p = m
      BY <1>1, <2>2, Zenon
    <2> QED BY <2>3
  <1> DEFINE a == m[1]
             b == m[2]
  <1>2. ASSUME NEW x, <<"meta", a, b, x>> \in index
        PROVE  x \in Live /\ m \in UnitOf(x).meta
    <2> DEFINE k == <<"meta", a, b, x>>
    <2>1. k[1] = "meta" /\ k[2] = a /\ k[3] = b /\ k[4] = x
      OBVIOUS
    <2>2. PICK y \in Live : \E p \in UnitOf(y).meta : k = <<"meta", p[1], p[2], y>>
      BY <1>2, <2>1, LiveKeyFacts
    <2>3. PICK p \in UnitOf(y).meta : k = <<"meta", p[1], p[2], y>>
      BY <2>2
    <2>4. k[2] = p[1] /\ k[3] = p[2] /\ k[4] = y
      BY <2>3
    <2> QED BY <1>1, <2>1, <2>4
  <1>3. ASSUME NEW x \in Live, m \in UnitOf(x).meta
        PROVE  <<"meta", a, b, x>> \in index
    BY <1>3, LiveUnit DEF KeyForm
  <1>4. ASSUME NEW k \in index, IsPrefix(<<"meta", a, b>>, k)
        PROVE  Last(k) \in Live /\ m \in UnitOf(Last(k)).meta
    <2>1. k[1] = "meta" /\ k[2] = a /\ k[3] = b
      BY <1>4, LiveKeyFacts, Prefix3
    <2>2. PICK y \in Live : Last(k) = y /\ \E p \in UnitOf(y).meta : k = <<"meta", p[1], p[2], y>>
      BY <2>1, LiveKeyFacts
    <2>3. PICK p \in UnitOf(y).meta : k = <<"meta", p[1], p[2], y>>
      BY <2>2
    <2>4. k[2] = p[1] /\ k[3] = p[2]
      BY <2>3
    <2> QED BY <1>1, <2>1, <2>2, <2>4
  <1>5. ASSUME NEW x
        PROVE  IsPrefix(<<"meta", a, b>>, <<"meta", a, b, x>>) /\ Last(<<"meta", a, b, x>>) = x
    <2> HIDE DEF a, b
    <2> DEFINE k == <<"meta", a, b, x>>
    <2>1. /\ k \in Seq({"meta", a, b, x}) /\ Len(k) = 4
          /\ k[1] = "meta" /\ k[2] = a /\ k[3] = b /\ k[4] = x
      OBVIOUS
    <2> HIDE DEF k
    <2>2. IsPrefix(<<"meta", a, b>>, k) /\ Last(k) = x
      BY <2>1, Prefix3 DEF Last
    <2> QED BY <2>2 DEF k
  <1>6. /\ \A x : <<"meta", a, b, x>> \in index <=> x \in Live /\ m \in UnitOf(x).meta
        /\ Collect(index, <<"meta", a, b>>) = {x \in Live : m \in UnitOf(x).meta}
    <2> HIDE DEF a, b
    <2> QED BY <1>2, <1>3, <1>4, <1>5 DEF Collect
  <1> QED BY <1>6 DEF a, b

\* The units of a context: an ID is tested with the whole context, and collected by it
\* as long as no other context begins with it.
LEMMA CtxKeys ==
  ASSUME IndexWhole, NEW S, NEW c \in Seq(S)
  PROVE  /\ \A x : CtxKeyOf(c, x) \in index <=> x \in Live /\ UnitOf(x).context = c
         /\ (\A k \in index : IsPrefix(<<"ctx">> \o c, k) => Len(k) = Len(c) + 2)
              => Collect(index, <<"ctx">> \o c) = {x \in Live : UnitOf(x).context = c}
  <1>1. ASSUME NEW y \in Live, NEW k, k = CtxKeyOf(UnitOf(y).context, y), Len(k) = Len(c) + 2,
               \A i \in 1..Len(c) : k[i + 1] = c[i]
        PROVE  UnitOf(y).context = c
    <2> DEFINE d == UnitOf(y).context
    <2>1. d \in Seq(Range(d))
      BY LiveUnit, UnitFacts
    <2> HIDE DEF d
    <2>2. Len(k) = Len(d) + 2 /\ \A i \in 1..Len(d) : k[i + 1] = d[i]
      BY <1>1, <2>1, ContextKey DEF d
    <2>3. Len(d) = Len(c) /\ \A i \in 1..Len(d) : d[i] = c[i]
      BY <1>1, <2>1, <2>2
    <2>4. d \in Seq(Range(d) \cup S) /\ c \in Seq(Range(d) \cup S)
      BY <2>1, SeqMonotonic
    <2>5. d = c
      BY <2>3, <2>4, SeqEqual
    <2> QED BY <2>5 DEF d
  <1>2. ASSUME NEW x, CtxKeyOf(c, x) \in index
        PROVE  x \in Live /\ UnitOf(x).context = c
    <2> DEFINE k == CtxKeyOf(c, x)
    <2>1. /\ Len(k) = Len(c) + 2 /\ k[1] = "ctx" /\ Last(k) = x
          /\ \A i \in 1..Len(c) : k[i + 1] = c[i]
      BY ContextKey
    <2>2. PICK y \in Live : k = CtxKeyOf(UnitOf(y).context, y) /\ Last(k) = y
      BY <1>2, <2>1, LiveKeyFacts
    <2> HIDE DEF k
    <2> QED BY <1>1, <2>1, <2>2
  <1>3. ASSUME NEW x \in Live, UnitOf(x).context = c
        PROVE  CtxKeyOf(c, x) \in index
    BY <1>3, LiveUnit DEF KeyForm
  <1>4. <<"ctx">> \o c \in Seq(S \cup {"ctx"}) /\ Len(<<"ctx">> \o c) = 1 + Len(c)
        /\ (<<"ctx">> \o c)[1] = "ctx"
        /\ \A i \in 1..Len(c) : (<<"ctx">> \o c)[i + 1] = c[i]
    <2>1. /\ <<"ctx">> \in Seq(S \cup {"ctx"}) /\ Len(<<"ctx">>) = 1 /\ c \in Seq(S \cup {"ctx"})
          /\ Len(c) \in Nat
      OBVIOUS
    <2> QED BY <2>1, ConcatProperties
  <1> DEFINE p == <<"ctx">> \o c
  <1>5. ASSUME NEW k \in index, IsPrefix(p, k), Len(k) = Len(c) + 2
        PROVE  Last(k) \in Live /\ UnitOf(Last(k)).context = c
    <2> HIDE DEF p
    <2>1. k \in Seq(Range(k))
      BY LiveKeyFacts
    <2>2. Len(p) <= Len(k) /\ \A i \in 1..Len(p) : p[i] = k[i]
      <3>1. \E T : p \in Seq(T)
        BY <1>4 DEF p
      <3> QED BY <1>5, <2>1, <3>1, PrefixMeans
    <2>3. k[1] = "ctx" /\ \A i \in 1..Len(c) : k[i + 1] = c[i]
      BY <1>4, <2>2 DEF p
    <2>4. PICK y \in Live : k = CtxKeyOf(UnitOf(y).context, y) /\ Last(k) = y
      BY <2>3, LiveKeyFacts
    <2> QED BY <1>1, <1>5, <2>3, <2>4
  <1>6. ASSUME NEW x
        PROVE  IsPrefix(p, CtxKeyOf(c, x)) /\ Last(CtxKeyOf(c, x)) = x
    <2> DEFINE k == CtxKeyOf(c, x)
    <2>1. /\ k \in Seq(Range(k)) /\ Len(k) = Len(c) + 2 /\ k[1] = "ctx" /\ Last(k) = x
          /\ \A i \in 1..Len(c) : k[i + 1] = c[i]
      BY ContextKey
    <2> HIDE DEF k, p
    <2>2. Len(p) <= Len(k) /\ \A i \in 1..Len(p) : p[i] = k[i]
      <3>1. Len(c) \in Nat /\ Len(p) = 1 + Len(c) /\ p[1] = "ctx"
            /\ \A i \in 1..Len(c) : p[i + 1] = c[i]
        BY <1>4 DEF p
      <3>2. ASSUME NEW i \in 1..Len(p), i # 1 PROVE p[i] = k[i]
        <4>1. i - 1 \in 1..Len(c) /\ (i - 1) + 1 = i
          BY <3>1, <3>2
        <4>2. p[(i - 1) + 1] = c[i - 1] /\ k[(i - 1) + 1] = c[i - 1]
          BY <2>1, <3>1, <4>1
        <4> QED BY <4>1, <4>2
      <3> QED BY <2>1, <3>1, <3>2
    <2>3. IsPrefix(p, k)
      <3>1. \E T : p \in Seq(T)
        BY <1>4 DEF p
      <3> QED BY <2>1, <2>2, <3>1, PrefixMeans
    <2> QED BY <2>1, <2>3 DEF k
  <1>7. (\A k \in index : IsPrefix(p, k) => Len(k) = Len(c) + 2)
           => Collect(index, p) = {x \in Live : UnitOf(x).context = c}
    <2> HIDE DEF p
    <2> QED BY <1>3, <1>5, <1>6 DEF Collect
  <1> QED BY <1>2, <1>3, <1>7

\* The relationships, which only the Badger backend indexes.
LEMMA RelKeys ==
  ASSUME IndexWhole, kind = "badger", NEW t, NEW g
  PROVE  /\ Collect(index, <<"rel", t>>) = {x \in Live : \E r \in UnitOf(x).rels : r[1] = t}
         /\ Collect(index, <<"rel", t, g>>) = {x \in Live : <<t, g>> \in UnitOf(x).rels}
         /\ \A y : y \in Collect(index, <<"rrel", t, g>>)
                     <=> g \in Live /\ <<t, y>> \in UnitOf(g).rels
  <1>0. ASSUME NEW x \in Live, NEW r \in UnitOf(x).rels
        PROVE  /\ r = <<r[1], r[2]>>
               /\ <<"rel", r[1], r[2], x>> \in index /\ <<"rrel", r[1], x, r[2]>> \in index
    <2>1. IsPair(r)
      BY LiveUnit, UnitFacts
    <2>2. <<"rel", r[1], r[2], x>> \in index
      BY LiveUnit DEF RelForm
    <2>3. <<"rrel", r[1], x, r[2]>> \in index
      BY LiveUnit DEF RelForm
    <2> QED BY <2>1, <2>2, <2>3 DEF IsPair
  <1>1. ASSUME NEW k, NEW a, NEW b, NEW c, NEW d, k = <<a, b, c, d>>
        PROVE  IsPrefix(<<a, b>>, k) /\ IsPrefix(<<a, b, c>>, k) /\ Last(k) = d
    <2>1. k \in Seq({a, b, c, d}) /\ Len(k) = 4 /\ k[1] = a /\ k[2] = b /\ k[3] = c /\ k[4] = d
      BY <1>1
    <2>2. IsPrefix(<<a, b>>, k)
      BY <2>1, Prefix2
    <2>3. IsPrefix(<<a, b, c>>, k) /\ Last(k) = d
      BY <2>1, Prefix3 DEF Last
    <2> QED BY <2>2, <2>3
  <1>2. ASSUME NEW k \in index, k[1] = "rel"
        PROVE  \E r \in UnitOf(Last(k)).rels : k = <<"rel", r[1], r[2], Last(k)>> /\ Last(k) \in Live
    BY <1>2, LiveKeyFacts
  <1>3. ASSUME NEW k \in index, k[1] = "rrel"
        PROVE  \E x \in Live : \E r \in UnitOf(x).rels : k = <<"rrel", r[1], x, r[2]>>
    BY <1>3, LiveKeyFacts
  <1>4. ASSUME NEW k \in index
        PROVE  /\ IsPrefix(<<"rel", t>>, k) => k[1] = "rel" /\ k[2] = t
               /\ IsPrefix(<<"rel", t, g>>, k) => k[1] = "rel" /\ k[2] = t /\ k[3] = g
               /\ IsPrefix(<<"rrel", t, g>>, k) => k[1] = "rrel" /\ k[2] = t /\ k[3] = g
    <2>1. \E T : k \in Seq(T)
      BY LiveKeyFacts
    <2> QED BY <2>1, Prefix2, Prefix3
  <1>5. Collect(index, <<"rel", t>>) = {x \in Live : \E r \in UnitOf(x).rels : r[1] = t}
    <2>1. ASSUME NEW k \in index, IsPrefix(<<"rel", t>>, k)
          PROVE  Last(k) \in Live /\ \E r \in UnitOf(Last(k)).rels : r[1] = t
      <3>1. k[1] = "rel" /\ k[2] = t
        BY <1>4, <2>1
      <3>2. PICK r \in UnitOf(Last(k)).rels : k = <<"rel", r[1], r[2], Last(k)>> /\ Last(k) \in Live
        BY <1>2, <3>1
      <3>3. k[2] = r[1]
        BY <3>2
      <3> QED BY <3>1, <3>2, <3>3
    <2>2. ASSUME NEW x \in Live, NEW r \in UnitOf(x).rels, r[1] = t
          PROVE  \E k \in index : IsPrefix(<<"rel", t>>, k) /\ Last(k) = x
      <3>1. <<"rel", t, r[2], x>> \in index
        BY <1>0, <2>2
      <3>2. PICK k \in index : \E z : k = <<"rel", t, z, x>>
        BY <3>1
      <3>3. IsPrefix(<<"rel", t>>, k) /\ Last(k) = x
        BY <1>1, <3>2, Zenon
      <3> QED BY <3>3
    <2> QED BY <2>1, <2>2 DEF Collect
  <1>6. Collect(index, <<"rel", t, g>>) = {x \in Live : <<t, g>> \in UnitOf(x).rels}
    <2>1. ASSUME NEW k \in index, IsPrefix(<<"rel", t, g>>, k)
          PROVE  Last(k) \in Live /\ <<t, g>> \in UnitOf(Last(k)).rels
      <3>1. k[1] = "rel" /\ k[2] = t /\ k[3] = g
        BY <1>4, <2>1
      <3>2. PICK r \in UnitOf(Last(k)).rels : k = <<"rel", r[1], r[2], Last(k)>> /\ Last(k) \in Live
        BY <1>2, <3>1
      <3>3. k[2] = r[1] /\ k[3] = r[2]
        BY <3>2
      <3>4. r = <<r[1], r[2]>>
        BY <1>0, <3>2
      <3>5. r = <<t, g>>
        BY <3>1, <3>3, <3>4
      <3> QED BY <3>2, <3>5
    <2>2. ASSUME NEW x \in Live, <<t, g>> \in UnitOf(x).rels
          PROVE  \E k \in index : IsPrefix(<<"rel", t, g>>, k) /\ Last(k) = x
      <3>1. <<t, g>>[1] = t /\ <<t, g>>[2] = g
        OBVIOUS
      <3>2. <<"rel", t, g, x>> \in index
        BY <1>0, <2>2, <3>1
      <3>3. PICK k \in index : k = <<"rel", t, g, x>>
        BY <3>2
      <3>4. IsPrefix(<<"rel", t, g>>, k) /\ Last(k) = x
        BY <1>1, <3>3, Zenon
      <3> QED BY <3>4
    <2> QED BY <2>1, <2>2 DEF Collect
  <1>7. ASSUME NEW y
        PROVE  y \in Collect(index, <<"rrel", t, g>>) <=> g \in Live /\ <<t, y>> \in UnitOf(g).rels
    <2>1. ASSUME NEW k \in index, IsPrefix(<<"rrel", t, g>>, k), Last(k) = y
          PROVE  g \in Live /\ <<t, y>> \in UnitOf(g).rels
      <3>1. k[1] = "rrel" /\ k[2] = t /\ k[3] = g
        BY <1>4, <2>1
      <3>2. PICK x \in Live : \E r \in UnitOf(x).rels : k = <<"rrel", r[1], x, r[2]>>
        BY <1>3, <3>1
      <3>3. PICK r \in UnitOf(x).rels : k = <<"rrel", r[1], x, r[2]>>
        BY <3>2
      <3>4. k[2] = r[1] /\ k[3] = x /\ Last(k) = r[2]
        <4>1. k[2] = r[1] /\ k[3] = x
          BY <3>3
        <4>2. Len(k) = 4 /\ k[4] = r[2]
          BY <3>3
        <4> QED BY <4>1, <4>2 DEF Last
      <3>5. r = <<r[1], r[2]>>
        BY <1>0, <3>3
      <3>6. r = <<t, y>> /\ x = g
        BY <2>1, <3>1, <3>4, <3>5
      <3> QED BY <3>3, <3>6
    <2>2. ASSUME g \in Live, <<t, y>> \in UnitOf(g).rels
          PROVE  \E k \in index : IsPrefix(<<"rrel", t, g>>, k) /\ Last(k) = y
      <3>1. <<t, y>>[1] = t /\ <<t, y>>[2] = y
        OBVIOUS
      <3>2. <<"rrel", t, g, y>> \in index
        BY <1>0, <2>2, <3>1
      <3>3. PICK k \in index : k = <<"rrel", t, g, y>>
        BY <3>2
      <3>4. IsPrefix(<<"rrel", t, g>>, k) /\ Last(k) = y
        BY <1>1, <3>3, Zenon
      <3> QED BY <3>4
    <2> QED BY <2>1, <2>2 DEF Collect
  <1> QED BY <1>5, <1>6, <1>7

----------------------------------------------------------------------------
\* The chain of filters

IsQuery(q) ==
    /\ q.text \in BOOLEAN
    /\ q.context \in Seq(Range(q.context))
    /\ \A m \in q.meta : IsPair(m)

\* The parts of Matches.
HasText(u, q) == q.text => /\ q.words \ ShortWords # {}
                           /\ q.words \ ShortWords \subseteq Searchable(u)
HasContext(u, q) == q.context # <<>> => u.context = q.context
HasAgent(u, q) == q.agents # {} => u.agent \in q.agents
HasType(u, q) == q.types # {} => u.type \in q.types

\* The words of a query, if all of them occur.
LEMMA TextExact ==
  ASSUME IndexWhole, NEW words, \A w \in words \ ShortWords : Collect(index, <<"text", w>>) # {}
  PROVE  TextMatches(index, words) =
           {x \in Live : words \ ShortWords # {} /\ words \ ShortWords \subseteq Searchable(UnitOf(x))}
  <1> DEFINE W == words \ ShortWords
             C(w) == Collect(index, <<"text", w>>)
             found == {w \in W : C(w) # {}}
  <1>1. found = W
    OBVIOUS
  <1>2. \A w : C(w) = {x \in Live : w \in Searchable(UnitOf(x))}
    BY TextKeys
  <1>3. TextMatches(index, words) =
          IF found = {} THEN {} ELSE {x \in UNION {C(w) : w \in found} : \A w \in found : x \in C(w)}
    BY DEF TextMatches
  <1> HIDE DEF found, W, C
  <1>4. TextMatches(index, words) = {x \in Live : W # {} /\ W \subseteq Searchable(UnitOf(x))}
    BY <1>1, <1>2, <1>3
  <1> QED BY <1>4 DEF W

\* The filters up to the context.
LEMMA ContextExact ==
  ASSUME IndexWhole, NEW q, IsQuery(q), Plain(q), q.text \/ q.context # <<>>
  PROVE  ByContext(index, q) = {x \in Live : HasText(UnitOf(x), q) /\ HasContext(UnitOf(x), q)}
  <1>1. ASSUME q.text
        PROVE  ByText(index, q) = {x \in Live : HasText(UnitOf(x), q)}
    BY <1>1, TextExact DEF Plain, ByText, HasText
  <1>2. \A x : <<"ctx">> \o q.context \o <<x>> \in index
                 <=> x \in Live /\ UnitOf(x).context = q.context
    BY CtxKeys DEF IsQuery, CtxKeyOf
  <1>3. CASE q.text
    BY <1>1, <1>2, <1>3 DEF ByContext, HasContext
  <1>4. CASE ~q.text
    <2>1. q.context # <<>>
      BY <1>4
    <2>2. \A k \in index : IsPrefix(<<"ctx">> \o q.context, k) => Len(k) = Len(q.context) + 2
      BY <1>4, <2>1 DEF Plain
    <2>3. Collect(index, <<"ctx">> \o q.context) = {x \in Live : UnitOf(x).context = q.context}
      BY <2>2, CtxKeys DEF IsQuery
    <2> QED BY <1>4, <2>1, <2>3 DEF ByContext, HasContext, HasText
  <1> QED BY <1>3, <1>4

\* The filters up to the agent.
LEMMA AgentExact ==
  ASSUME IndexWhole, NEW q, IsQuery(q), Plain(q), q.text \/ q.context # <<>> \/ q.agents # {}
  PROVE  ByAgent(index, q) = {x \in Live : /\ HasText(UnitOf(x), q) /\ HasContext(UnitOf(x), q)
                                           /\ HasAgent(UnitOf(x), q)}
  <1>1. \A a, x : <<"agent", a, x>> \in index <=> x \in Live /\ UnitOf(x).agent = a
    BY AgentKeys
  <1>2. UNION {Collect(index, <<"agent", a>>) : a \in q.agents} = {x \in Live : UnitOf(x).agent \in q.agents}
    <2> DEFINE C(a) == Collect(index, <<"agent", a>>)
    <2>1. \A a : C(a) = {x \in Live : UnitOf(x).agent = a}
      BY AgentKeys
    <2> HIDE DEF C
    <2>2. UNION {C(a) : a \in q.agents} = {x \in Live : UnitOf(x).agent \in q.agents}
      BY <2>1
    <2> QED BY <2>2 DEF C
  <1>3. CASE q.text \/ q.context # <<>>
    <2>1. ByContext(index, q) = {x \in Live : HasText(UnitOf(x), q) /\ HasContext(UnitOf(x), q)}
      BY <1>3, ContextExact
    <2>2. CASE q.agents = {}
      BY <2>1, <2>2 DEF ByAgent, HasAgent
    <2>3. CASE q.agents # {}
      <3>1. ByAgent(index, q) = {x \in ByContext(index, q) : \E a \in q.agents : <<"agent", a, x>> \in index}
        BY <1>3, <2>3 DEF ByAgent
      <3>2. \A x \in Live : (\E a \in q.agents : <<"agent", a, x>> \in index) <=> UnitOf(x).agent \in q.agents
        BY <1>1, Zenon
      <3>3. ByAgent(index, q) = {x \in ByContext(index, q) : UnitOf(x).agent \in q.agents}
        BY <2>1, <3>1, <3>2
      <3> QED BY <2>1, <2>3, <3>3 DEF HasAgent
    <2> QED BY <2>2, <2>3
  <1>4. CASE ~(q.text \/ q.context # <<>>)
    <2>1. ByAgent(index, q) = UNION {Collect(index, <<"agent", a>>) : a \in q.agents}
      BY <1>4 DEF ByAgent
    <2> QED BY <1>2, <1>4, <2>1 DEF HasText, HasContext, HasAgent
  <1> QED BY <1>3, <1>4

\* The filters up to the type.
LEMMA TypeExact ==
  ASSUME IndexWhole, NEW q, IsQuery(q), Plain(q), ~MetaOnly(q)
  PROVE  ByType(index, q) = {x \in Live : /\ HasText(UnitOf(x), q) /\ HasContext(UnitOf(x), q)
                                          /\ HasAgent(UnitOf(x), q) /\ HasType(UnitOf(x), q)}
  <1>1. \A t, x : <<"type", t, x>> \in index <=> x \in Live /\ UnitOf(x).type = t
    BY TypeKeys
  <1>2. UNION {Collect(index, <<"type", t>>) : t \in q.types} = {x \in Live : UnitOf(x).type \in q.types}
    <2> DEFINE C(t) == Collect(index, <<"type", t>>)
    <2>1. \A t : C(t) = {x \in Live : UnitOf(x).type = t}
      BY TypeKeys
    <2> HIDE DEF C
    <2>2. UNION {C(t) : t \in q.types} = {x \in Live : UnitOf(x).type \in q.types}
      BY <2>1
    <2> QED BY <2>2 DEF C
  <1>3. CASE q.text \/ q.context # <<>> \/ q.agents # {}
    <2>1. ByAgent(index, q) = {x \in Live : /\ HasText(UnitOf(x), q) /\ HasContext(UnitOf(x), q)
                                            /\ HasAgent(UnitOf(x), q)}
      BY <1>3, AgentExact
    <2>2. CASE q.types = {}
      BY <2>1, <2>2 DEF ByType, HasType
    <2>3. CASE q.types # {}
      <3>1. ByType(index, q) = {x \in ByAgent(index, q) : \E t \in q.types : <<"type", t, x>> \in index}
        BY <1>3, <2>3 DEF ByType
      <3>2. \A x \in Live : (\E t \in q.types : <<"type", t, x>> \in index) <=> UnitOf(x).type \in q.types
        BY <1>1, Zenon
      <3>3. ByType(index, q) = {x \in ByAgent(index, q) : UnitOf(x).type \in q.types}
        BY <2>1, <3>1, <3>2
      <3> QED BY <2>1, <2>3, <3>3 DEF HasType
    <2> QED BY <2>2, <2>3
  <1>4. CASE ~(q.text \/ q.context # <<>> \/ q.agents # {})
    <2>1. q.types # {}
      BY <1>4 DEF MetaOnly
    <2>2. ByType(index, q) = UNION {Collect(index, <<"type", t>>) : t \in q.types}
      BY <1>4, <2>1 DEF ByType
    <2>3. \A u : /\ HasText(u, q) /\ HasContext(u, q) /\ HasAgent(u, q)
                 /\ HasType(u, q) <=> u.type \in q.types
      BY <1>4, <2>1 DEF HasText, HasContext, HasAgent, HasType
    <2> QED BY <1>2, <2>2, <2>3
  <1> QED BY <1>3, <1>4

\* The pairs of the metadata, each tested in the index.
LEMMA WithMetaExact ==
  ASSUME IndexWhole, NEW ids, NEW meta, \A m \in meta : IsPair(m)
  PROVE  WithMeta(index, ids, meta) = {x \in ids : meta = {} \/ (x \in Live /\ meta \subseteq UnitOf(x).meta)}
  <1>1. \A m \in meta : \A x : <<"meta", m[1], m[2], x>> \in index <=> x \in Live /\ m \in UnitOf(x).meta
    BY MetaKeys
  <1> QED BY <1>1 DEF WithMeta

\* Every unit that is found satisfies every filter, and no other is found.
LEMMA FiltersExact ==
  ASSUME IndexWhole, NEW q, IsQuery(q), Plain(q), ~(MetaOnly(q) /\ q.meta = {})
  PROVE  ByMeta(index, q) = {x \in Live : Matches(UnitOf(x), q)}
  <1>1. CASE ~MetaOnly(q)
    <2>1. ByType(index, q) = {x \in Live : /\ HasText(UnitOf(x), q) /\ HasContext(UnitOf(x), q)
                                           /\ HasAgent(UnitOf(x), q) /\ HasType(UnitOf(x), q)}
      BY <1>1, TypeExact
    <2>2. ByMeta(index, q) = {x \in ByType(index, q) : q.meta \subseteq UnitOf(x).meta}
      <3>1. CASE q.meta = {}
        BY <3>1 DEF ByMeta
      <3>2. CASE q.meta # {}
        <4>1. ByMeta(index, q) = WithMeta(index, ByType(index, q), q.meta)
          BY <1>1, <3>2 DEF ByMeta
        <4>2. ByType(index, q) \subseteq Live
          BY <2>1
        <4> QED BY <3>2, <4>1, <4>2, WithMetaExact DEF IsQuery
      <3> QED BY <3>1, <3>2
    <2> QED BY <2>1, <2>2 DEF Matches, HasText, HasContext, HasAgent, HasType
  <1>2. CASE MetaOnly(q)
    <2>1. q.meta # {} /\ \A m \in q.meta : IsPair(m)
      BY <1>2 DEF IsQuery
    <2>2. \A m \in q.meta : Collect(index, <<"meta", m[1], m[2]>>) = {x \in Live : m \in UnitOf(x).meta}
      BY <2>1, MetaKeys
    <2> DEFINE C(m) == Collect(index, <<"meta", m[1], m[2]>>)
               ids == UNION {C(m) : m \in q.meta}
    <2>3. ids = {x \in Live : \E m \in q.meta : m \in UnitOf(x).meta}
      <3>1. \A m \in q.meta : C(m) = {x \in Live : m \in UnitOf(x).meta}
        BY <2>2
      <3> HIDE DEF C
      <3> QED BY <3>1
    <2>4. ByMeta(index, q) = WithMeta(index, ids, q.meta)
      BY <1>2, <2>1 DEF ByMeta
    <2> HIDE DEF ids
    <2>5. ByMeta(index, q) = {x \in ids : x \in Live /\ q.meta \subseteq UnitOf(x).meta}
      BY <2>1, <2>4, WithMetaExact
    <2>6. \A x : Matches(UnitOf(x), q) <=> q.meta \subseteq UnitOf(x).meta
      BY <1>2 DEF Matches, MetaOnly
    <2> QED BY <2>1, <2>3, <2>5, <2>6
  <1> QED BY <1>1, <1>2

\* The meaning of a query, in terms of the indexed units.
LEMMA MeaningLive ==
  ASSUME IndexWhole, NEW q
  PROVE  Meaning(q) = {x \in Live : Matches(UnitOf(x), q)}
  <1>1. ASSUME NEW j \in DOMAIN Units
        PROVE  UnitOf(Units[j].id) = Units[j]
    <2>1. Units[j] \in TheUnits
      BY Numbered DEF TheUnits
    <2> QED BY <2>1, UnitOfUnit
  <1>2. \A x : <<"wu", x>> \in index <=> x \in Live
    BY AllLive
  <1>3. \A x \in Live : x # EmptyId /\ \E j \in DOMAIN Units : x = Units[j].id
    <2>1. \A x \in Live : x # EmptyId /\ UnitOf(x) \in TheUnits /\ UnitOf(x).id = x
      BY LiveUnit
    <2> QED BY <2>1, Numbered DEF TheUnits
  <1>4. Meaning(q) = {Units[i].id : i \in {j \in DOMAIN Units :
                         Units[j].id # EmptyId /\ Units[j].id \in Live /\ Matches(Units[j], q)}}
    BY <1>2 DEF Meaning
  <1>5. ASSUME NEW x \in Meaning(q) PROVE x \in Live /\ Matches(UnitOf(x), q)
    BY <1>1, <1>4
  <1>6. ASSUME NEW x \in Live, Matches(UnitOf(x), q) PROVE x \in Meaning(q)
    BY <1>1, <1>3, <1>4, <1>6
  <1> QED BY <1>5, <1>6

----------------------------------------------------------------------------
\* A query without any filter is answered with every indexed unit.
LEMMA NoFilterMeaning ==
  ASSUME IndexWhole, NEW q, MetaOnly(q), q.meta = {}
  PROVE  Meaning(q) = Live
  <1>1. \A x : Matches(UnitOf(x), q)
    BY DEF Matches, MetaOnly
  <1> QED BY <1>1, MeaningLive

\* badger_backend.go, a search.
LEMMA BackendAnswers ==
  ASSUME IndexWhole, NEW q, IsQuery(q), Plain(q)
  PROVE  BackendIds(index, q) = Meaning(q) /\ BackendTotal(index, q) = Cardinality(Meaning(q))
  <1>1. BackendIds(index, q) = Meaning(q)
    BY FiltersExact, MeaningLive, NoFilterMeaning, AllLive DEF BackendIds
  <1> QED BY <1>1 DEF BackendTotal

\* search.go, a search.
LEMMA ServiceAnswers ==
  ASSUME IndexWhole, NEW q, IsQuery(q), Plain(q), FixedAnswer(q) = {},
         LooksUnfiltered(q) => q.meta = {}
  PROVE  SearchIds(index, q) = Meaning(q) /\ SearchTotal(index, q) = Cardinality(Meaning(q))
  <1>1. CASE LooksUnfiltered(q)
    <2>1. MetaOnly(q) /\ q.meta = {}
      BY <1>1 DEF LooksUnfiltered
    <2>2. ByMeta(index, q) = {}
      BY <2>1 DEF ByMeta, ByType, ByAgent, ByContext, ByText, MetaOnly
    <2>3. AllUnits(index) = Meaning(q)
      BY <2>1, NoFilterMeaning, AllLive
    <2>4. SearchIds(index, q) = Meaning(q)
      BY <1>1, <2>2, <2>3 DEF SearchIds
    <2> QED BY <2>3, <2>4 DEF SearchTotal
  <1>2. CASE ~LooksUnfiltered(q)
    <2>1. ~(MetaOnly(q) /\ q.meta = {})
      BY <1>2, FS_EmptySet DEF LooksUnfiltered
    <2>2. SearchIds(index, q) = Meaning(q)
      BY <1>2, <2>1, FiltersExact, MeaningLive DEF SearchIds
    <2> QED BY <1>2, <2>2 DEF SearchTotal
  <1> QED BY <1>1, <1>2

\* The queries of the model, and those that ask for a relationship as metadata.
LEMMA ModelQueries ==
  /\ \A q \in Queries : IsQuery(q)
  /\ \A q \in Queries, t \in RelTypes, target \in Targets : IsQuery(AsMetaQuery(t, target, q))
  <1>1. ASSUME NEW q \in Queries
        PROVE  IsQuery(q)
    BY QueryAssumption DEF IsQuery
  <1>2. ASSUME NEW q \in Queries, NEW t, NEW target
        PROVE  IsQuery(AsMetaQuery(t, target, q))
    <2> DEFINE r == AsMetaQuery(t, target, q)
    <2>1. q = [q EXCEPT !.meta = q.meta] /\ {"text", "context", "meta"} \subseteq DOMAIN q
      BY QueryAssumption
    <2>2. r.text = q.text /\ r.context = q.context
          /\ r.meta = {m \in q.meta : m[1] # t} \cup {<<t, target>>}
      BY <2>1 DEF AsMetaQuery
    <2>3. IsPair(<<t, target>>)
      BY DEF IsPair
    <2> HIDE DEF r
    <2> QED BY <1>1, <2>2, <2>3 DEF IsQuery, r
  <1> QED BY <1>1, <1>2

----------------------------------------------------------------------------
\* Relationships

Found(x) == {Units[i] : i \in {j \in DOMAIN Units : Units[j].id = x /\ x # EmptyId /\ Indexed(j)}}
Named == {r[2] : r \in UNION {Units[i].rels : i \in DOMAIN Units}}

\* Whether all the keys of a unit are there is told by its first key.
LEMMA FoundUnits ==
  ASSUME IndexWhole, NEW x
  PROVE  Found(x) = IF x \in Live THEN {UnitOf(x)} ELSE {}
  <1>1. ASSUME NEW j \in DOMAIN Units
        PROVE  /\ Units[j] \in TheUnits /\ UnitOf(Units[j].id) = Units[j]
               /\ Units[j].id # EmptyId => (Indexed(j) <=> Units[j].id \in Live)
    <2>1. j \in 1..N /\ Units[j] \in TheUnits
      BY Numbered DEF TheUnits
    <2>2. UnitOf(Units[j].id) = Units[j]
      BY <2>1, UnitOfUnit
    <2>3. ASSUME Units[j].id # EmptyId, Indexed(j) PROVE Units[j].id \in Live
      BY <2>1, <2>3, KeysOfForms DEF Indexed, Live
    <2>4. ASSUME Units[j].id \in Live PROVE Indexed(j)
      BY <2>1, <2>2, <2>4, KeysOfForms, LiveUnit DEF Indexed
    <2> QED BY <2>1, <2>2, <2>3, <2>4
  <1>2. \A y \in Live : y # EmptyId /\ \E j \in DOMAIN Units : y = Units[j].id
    <2>1. \A y \in Live : y # EmptyId /\ UnitOf(y) \in TheUnits /\ UnitOf(y).id = y
      BY LiveUnit
    <2> QED BY <2>1, Numbered DEF TheUnits
  <1> QED BY <1>1, <1>2 DEF Found

\* FindByRelationship of badger_backend.go.
LEMMA RelatedAnswers ==
  ASSUME IndexWhole, kind = "badger", NEW q \in Queries, NEW t, NEW g
  PROVE  RelatedIds(index, t, g, q) = RelatedMeaning(t, g, q)
  <1> DEFINE NoFilter == q.context = <<>> /\ q.agents = {} /\ q.types = {} /\ q.meta = {}
             q0 == [q EXCEPT !.text = FALSE]
             Points(u) == \E r \in u.rels : r[1] = t /\ (g = EmptyId \/ r[2] = g)
             Admits(x) == NoFilter \/ (x \in Live /\ Matches(UnitOf(x), q0))
  <1>1. RelatedMeaning(t, g, q) =
          {x \in AllUnits(index) \cup Named :
             /\ (\E u \in Found(x) : Points(u)) \/ (\E u \in Found(g) : <<t, x>> \in u.rels)
             /\ NoFilter \/ (\E u \in Found(x) : Matches(u, q0))}
    BY DEF RelatedMeaning, Found, Named
  <1>2. IsQuery(q)
    BY ModelQueries
  <1>3. \A u : Matches(u, q0) <=> /\ HasContext(u, q) /\ HasAgent(u, q) /\ HasType(u, q)
                                  /\ q.meta \subseteq u.meta
    <2>1. /\ q0.text = FALSE /\ q0.context = q.context /\ q0.agents = q.agents /\ q0.types = q.types
          /\ q0.meta = q.meta
      BY QueryAssumption
    <2> HIDE DEF q0
    <2> QED BY <2>1 DEF Matches, HasContext, HasAgent, HasType
  <1> HIDE DEF q0
  <1>4. \A ids : \A x : x \in RelatedFiltered(index, ids, q) <=> x \in ids /\ Admits(x)
    <2> DEFINE Tested(ids) == {id \in ids :
                /\ q.context = <<>> \/ <<"ctx">> \o q.context \o <<id>> \in index
                /\ q.agents = {} \/ \E a \in q.agents : <<"agent", a, id>> \in index
                /\ q.types = {} \/ \E ty \in q.types : <<"type", ty, id>> \in index}
    <2>1. \A ids : \A x : x \in Tested(ids) <=>
            /\ x \in ids
            /\ q.context = <<>> \/ (x \in Live /\ HasContext(UnitOf(x), q))
            /\ q.agents = {} \/ (x \in Live /\ HasAgent(UnitOf(x), q))
            /\ q.types = {} \/ (x \in Live /\ HasType(UnitOf(x), q))
      <3>1. \A x : <<"ctx">> \o q.context \o <<x>> \in index
                     <=> x \in Live /\ UnitOf(x).context = q.context
        BY <1>2, CtxKeys DEF IsQuery, CtxKeyOf
      <3>2. \A a, x : <<"agent", a, x>> \in index <=> x \in Live /\ UnitOf(x).agent = a
        BY AgentKeys
      <3>3. \A ty, x : <<"type", ty, x>> \in index <=> x \in Live /\ UnitOf(x).type = ty
        BY TypeKeys
      <3>4. \A x : (\E a \in q.agents : <<"agent", a, x>> \in index)
                      <=> x \in Live /\ UnitOf(x).agent \in q.agents
        BY <3>2, Zenon
      <3>5. \A x : (\E ty \in q.types : <<"type", ty, x>> \in index)
                      <=> x \in Live /\ UnitOf(x).type \in q.types
        BY <3>3, Zenon
      <3> QED BY <3>1, <3>4, <3>5, Zenon DEF HasContext, HasAgent, HasType
    <2>2. \A ids : RelatedFiltered(index, ids, q) = WithMeta(index, Tested(ids), q.meta)
      BY DEF RelatedFiltered
    <2> HIDE DEF Tested
    <2>3. \A ids : \A x : x \in WithMeta(index, Tested(ids), q.meta) <=>
            x \in Tested(ids) /\ (q.meta = {} \/ (x \in Live /\ q.meta \subseteq UnitOf(x).meta))
      BY <1>2, WithMetaExact DEF IsQuery
    <2> QED BY <1>3, <2>1, <2>2, <2>3 DEF HasContext, HasAgent, HasType
  <1>5. \A x : (\E u \in Found(x) : Matches(u, q0)) <=> x \in Live /\ Matches(UnitOf(x), q0)
    BY FoundUnits
  <1>6. \A x : (\E u \in Found(x) : Points(u)) <=> x \in Live /\ Points(UnitOf(x))
    <2> HIDE DEF Points
    <2> QED BY FoundUnits
  <1>7. \A x : (\E u \in Found(g) : <<t, x>> \in u.rels) <=> g \in Live /\ <<t, x>> \in UnitOf(g).rels
    BY FoundUnits
  <1>8. \A x : x \in Related(index, t, g)
                 <=> \/ x \in Live /\ Points(UnitOf(x))
                     \/ g \in Live /\ <<t, x>> \in UnitOf(g).rels
    <2> DEFINE A == Collect(index, <<"rel", t>>)
               B == Collect(index, <<"rel", t, g>>)
               C == Collect(index, <<"rrel", t, g>>)
               p == <<t, g>>
               Back(x) == <<t, x>> \in UnitOf(g).rels
    <2>0. /\ Related(index, t, g) = IF g = EmptyId THEN A ELSE B \cup C
          /\ A = {x \in Live : \E r \in UnitOf(x).rels : r[1] = t}
          /\ B = {x \in Live : p \in UnitOf(x).rels}
          /\ \A x : x \in C <=> g \in Live /\ Back(x)
      BY RelKeys DEF Related
    <2> HIDE DEF A, B, C, p, Back
    <2> SUFFICES \A x : x \in Related(index, t, g)
                        <=> (x \in Live /\ Points(UnitOf(x))) \/ (g \in Live /\ Back(x))
      BY DEF Back
    <2>1. CASE g = EmptyId
      <3>1. g \notin Live
        BY <2>1, LiveUnit
      <3> QED BY <2>0, <2>1, <3>1
    <2>2. CASE g # EmptyId
      <3>1. \A x \in Live : Points(UnitOf(x)) <=> <<t, g>> \in UnitOf(x).rels
        <4>1. ASSUME NEW x \in Live, NEW r \in UnitOf(x).rels, r[1] = t, r[2] = g
              PROVE  r = <<t, g>>
          <5>1. r = <<r[1], r[2]>>
            BY LiveUnit, UnitFacts DEF IsPair
          <5> QED BY <4>1, <5>1
        <4>2. <<t, g>>[1] = t /\ <<t, g>>[2] = g
          OBVIOUS
        <4> QED BY <2>2, <4>1, <4>2
      <3>2. \A x \in Live : Points(UnitOf(x)) <=> p \in UnitOf(x).rels
        BY <3>1 DEF p
      <3> HIDE DEF Points
      <3> QED BY <2>0, <2>2, <3>2
    <2> QED BY <2>1, <2>2
  <1>9. \A x : g \in Live /\ <<t, x>> \in UnitOf(g).rels => x \in Named
    <2>1. ASSUME NEW x, g \in Live, <<t, x>> \in UnitOf(g).rels
          PROVE  x \in Named
      <3>1. PICK i \in DOMAIN Units : UnitOf(g) = Units[i]
        BY <2>1, LiveUnit, Numbered DEF TheUnits
      <3>2. <<t, x>>[2] = x
        OBVIOUS
      <3> QED BY <2>1, <3>1, <3>2 DEF Named
    <2> QED BY <2>1
  <1>10. AllUnits(index) = Live
    BY AllLive
  <1> HIDE DEF NoFilter, Points
  <1>11. \A x : x \in RelatedIds(index, t, g, q) <=> x \in Related(index, t, g) /\ Admits(x)
    BY <1>4 DEF RelatedIds
  <1> DEFINE Back(x) == <<t, x>> \in UnitOf(g).rels
  <1>12. \A x : x \in RelatedMeaning(t, g, q) <=>
           /\ x \in Live \cup Named
           /\ (x \in Live /\ Points(UnitOf(x))) \/ (g \in Live /\ Back(x))
           /\ Admits(x)
    <2> DEFINE F(x) == \E u \in Found(x) : Points(u)
               B(x) == \E u \in Found(g) : <<t, x>> \in u.rels
               M(x) == \E u \in Found(x) : Matches(u, q0)
    <2>1. RelatedMeaning(t, g, q) =
            {x \in AllUnits(index) \cup Named : (F(x) \/ B(x)) /\ (NoFilter \/ M(x))}
      BY <1>1
    <2>2. \A x : /\ F(x) <=> x \in Live /\ Points(UnitOf(x))
                 /\ B(x) <=> g \in Live /\ Back(x)
                 /\ M(x) <=> x \in Live /\ Matches(UnitOf(x), q0)
      BY <1>5, <1>6, <1>7
    <2> HIDE DEF F, B, M, Back
    <2>3. \A x : x \in RelatedMeaning(t, g, q) <=>
             x \in Live \cup Named /\ (F(x) \/ B(x)) /\ (NoFilter \/ M(x))
      BY <1>10, <2>1
    <2> QED BY <2>2, <2>3, Zenon
  <1>13. \A x : x \in RelatedIds(index, t, g, q) <=>
           /\ (x \in Live /\ Points(UnitOf(x))) \/ (g \in Live /\ Back(x))
           /\ Admits(x)
    BY <1>8, <1>11
  <1>14. \A x : g \in Live /\ Back(x) => x \in Named
    BY <1>9
  <1> HIDE DEF Admits, Back
  <1>15. \A x : x \in RelatedIds(index, t, g, q) <=> x \in RelatedMeaning(t, g, q)
    BY <1>12, <1>13, <1>14
  <1>16. RelatedIds(index, t, g, q) \subseteq RelatedMeaning(t, g, q)
    BY <1>15
  <1>17. RelatedMeaning(t, g, q) \subseteq RelatedIds(index, t, g, q)
    BY <1>15
  <1> QED BY <1>16, <1>17

\* What is in the index decides every answer.
LEMMA AnswersFromWholeIndex ==
  ASSUME IndexWhole
  PROVE  AnswersExact
  <1>1. SearchExact
    BY ModelQueries, ServiceAnswers DEF SearchExact
  <1>2. BackendExact
    BY ModelQueries, BackendAnswers, RelatedAnswers DEF BackendExact
  <1> QED BY <1>1, <1>2 DEF AnswersExact

----------------------------------------------------------------------------
\* The index stays whole

\* A write adds all the keys of its units, or nothing.
LEMMA WholeWrite ==
  ASSUME TypeOK, IndexWhole, kind' = kind,
         index' = index \/ \E s \in Seq(1..N) : Write(s)
  PROVE  IndexWhole'
  <1>1. \A i : KeysOf(i)' = KeysOf(i)
    BY DEF KeysOf
  <1>2. CASE index' = index
    BY <1>1, <1>2 DEF IndexWhole
  <1>3. CASE \E s \in Seq(1..N) : Write(s)
    <2>1. PICK s \in Seq(1..N) : Write(s)
      BY <1>3
    <2>2. Written(Elements(s)) /\ Elements(s) \subseteq 1..N
      BY <2>1, WriteStep, ElementsType
    <2>3. CASE index' = index
      BY <1>1, <2>3 DEF IndexWhole
    <2>4. CASE index' = index \cup UNION {KeysOf(i) : i \in Elements(s)}
      <3>1. \A k \in index' : \E i \in 1..N : k \in KeysOf(i) /\ KeysOf(i) \subseteq index'
        BY <2>2, <2>4 DEF IndexWhole
      <3> QED BY <1>1, <3>1 DEF IndexWhole
    <2> QED BY <2>2, <2>3, <2>4 DEF Written
  <1> QED BY <1>2, <1>3

\* No step leaves a unit with a part of its keys.
LEMMA NextWhole == PipeInv /\ IndexWhole /\ [Next]_vars => IndexWhole'
  <1> SUFFICES ASSUME PipeInv, IndexWhole, [Next]_vars PROVE IndexWhole'
    OBVIOUS
  <1>0. TypeOK /\ queue \in Seq(1..N) /\ batch \in Seq(1..N)
    BY Parts DEF PipeInv
  <1>1. CASE UNCHANGED vars
    BY <1>0, <1>1, WholeWrite DEF vars, pipe
  <1>2. CASE ReceiveService \/ ReceivePanics \/ Cancel \/ ShutdownQueue \/ ShutdownDb
    BY <1>0, <1>2, WholeWrite
       DEF ReceiveService, ReceivePanics, Cancel, ShutdownQueue, ShutdownDb, pipe
  <1>3. CASE ReceiveWrapper \/ ReceiveBadger
    <2>1. TakeUnit /\ kind' = kind /\ (index' = index \/ Write(<<received + 1>>))
      BY <1>3 DEF ReceiveWrapper, ReceiveBadger
    <2>2. <<received + 1>> \in Seq(1..N)
      BY <1>0, <2>1, NextUnit, ShortQueues
    <2> QED BY <1>0, <2>1, <2>2, WholeWrite
  <1>4. CASE LoopTake
    <2>1. Head(queue) \in 1..N
      BY <1>0, <1>4, FirstOfQueue DEF LoopTake
    <2>2. Append(batch, Head(queue)) \in Seq(1..N)
      BY <1>0, <2>1, LastOfQueue
    <2>3. kind' = kind /\ (index' = index \/ Write(Append(batch, Head(queue))))
      BY <1>4 DEF LoopTake
    <2> QED BY <1>0, <2>2, <2>3, WholeWrite
  <1>5. CASE LoopTick \/ LoopEnd
    <2>1. kind' = kind /\ (index' = index \/ Write(batch))
      BY <1>5 DEF LoopTick, LoopEnd
    <2> QED BY <1>0, <2>1, WholeWrite
  <1> QED BY <1>1, <1>2, <1>3, <1>4, <1>5 DEF Next, Step, LoopStep

\* The images of a finite set.
LEMMA FiniteImage ==
  ASSUME NEW S, IsFiniteSet(S), NEW f, DOMAIN f = S, NEW T, \A x \in T : \E i \in S : x = f[i]
  PROVE  IsFiniteSet(T)
  <1> DEFINE R == {f[i] : i \in S}
             g == [i \in S |-> f[i]]
  <1>1. g \in [S -> R] /\ \A y \in R : \E i \in S : g[i] = y
    OBVIOUS
  <1>2. T \in SUBSET R
    OBVIOUS
  <1> HIDE DEF R, g
  <1>3. g \in Surjection(S, R)
    BY <1>1, Fun_IsSurj
  <1>4. IsFiniteSet(R)
    BY <1>3, FS_Surjection
  <1> QED BY <1>2, <1>4, FS_Subset

\* Finitely many units are indexed.
LEMMA LiveFinite == IsFiniteSet(Live)
  <1> DEFINE f == [i \in 1..N |-> Units[i].id]
  <1>1. IsFiniteSet(1..N)
    BY Numbered, FS_Interval
  <1>2. \A x \in Live : \E i \in 1..N : x = f[i]
    <2>1. \A x \in Live : UnitOf(x) \in TheUnits /\ UnitOf(x).id = x
      BY LiveUnit
    <2> QED BY <2>1 DEF TheUnits
  <1>3. DOMAIN f = 1..N
    OBVIOUS
  <1> HIDE DEF f
  <1> QED BY <1>1, <1>2, <1>3, FiniteImage

\* The time of an ID is a number, also when it is not indexed.
LEMMA TimeIsNumber ==
  ASSUME IndexWhole, NEW x
  PROVE  TimestampOf(index, x) \in Nat
  <1> DEFINE keys == {k \in index : k[1] = "ts" /\ Last(k) = x /\ Len(k) = 4}
  <1>1. ASSUME NEW k \in keys
        PROVE  k[3] = UnitOf(x).ts /\ UnitOf(x).ts \in Nat
    <2>1. k \in index /\ k[1] = "ts" /\ Last(k) = x /\ Len(k) = 4
      OBVIOUS
    <2>2. PICK y \in Live : Last(k) = y /\ k = TsKeyOf(UnitOf(y).context, UnitOf(y).ts, y)
      BY <2>1, LiveKeyFacts
    <2>3. y = x /\ UnitOf(y) \in TheUnits
      BY <2>1, <2>2, LiveUnit
    <2>4. UnitOf(x).ts \in Nat /\ UnitOf(x).context \in Seq(Range(UnitOf(x).context))
          /\ Len(UnitOf(x).context) \in Nat
      BY <2>3, UnitFacts
    <2>5. Len(k) = Len(UnitOf(x).context) + 3 /\ (Len(UnitOf(x).context) = 1 => k[3] = UnitOf(x).ts)
      BY <2>2, <2>3, <2>4, TimeKey
    <2> HIDE DEF keys
    <2>6. ASSUME NEW n \in Nat, 4 = n + 3 PROVE n = 1
      BY <2>6
    <2>7. Len(UnitOf(x).context) = 1
      BY <2>1, <2>4, <2>5, <2>6, Zenon
    <2> QED BY <2>4, <2>5, <2>7, Zenon
  <1>2. TimestampOf(index, x) = IF keys = {} THEN 0 ELSE Max({k[3] : k \in keys})
    BY DEF TimestampOf
  <1> HIDE DEF keys
  <1>3. CASE keys = {}
    BY <1>2, <1>3
  <1>4. CASE keys # {}
    <2>1. {k[3] : k \in keys} = {UnitOf(x).ts} /\ UnitOf(x).ts \in Nat
      BY <1>1, <1>4
    <2>2. Max({UnitOf(x).ts}) = UnitOf(x).ts
      BY <2>1 DEF Max
    <2> QED BY <1>2, <1>4, <2>1, <2>2
  <1> QED BY <1>3, <1>4

----------------------------------------------------------------------------
\* Every ID of an answer to a search is of an indexed unit

\* Each filter keeps to the indexed units, also where it finds more than was meant.
LEMMA FilteredLive ==
  ASSUME IndexWhole, NEW q, IsQuery(q)
  PROVE  ByMeta(index, q) \subseteq Live
  <1>1. ByText(index, q) \subseteq Live
    <2> DEFINE C(w) == Collect(index, <<"text", w>>)
               found == {w \in q.words \ ShortWords : C(w) # {}}
    <2>1. \A w : C(w) \subseteq Live
      BY TextKeys
    <2>2. ByText(index, q) \subseteq UNION {C(w) : w \in found}
      BY DEF ByText, TextMatches
    <2> HIDE DEF C
    <2> QED BY <2>1, <2>2
  <1>2. Collect(index, <<"ctx">> \o q.context) \subseteq Live
    <2> DEFINE p == <<"ctx">> \o q.context
    <2>1. p \in Seq(Range(q.context) \cup {"ctx"}) /\ Len(p) = 1 + Len(q.context) /\ p[1] = "ctx"
          /\ Len(q.context) \in Nat
      <3>1. /\ <<"ctx">> \in Seq(Range(q.context) \cup {"ctx"}) /\ Len(<<"ctx">>) = 1
            /\ q.context \in Seq(Range(q.context) \cup {"ctx"}) /\ Len(q.context) \in Nat
        BY DEF IsQuery
      <3> QED BY <3>1, ConcatProperties
    <2> HIDE DEF p
    <2>2. \E T : p \in Seq(T)
      BY <2>1
    <2>3. ASSUME NEW k \in index, IsPrefix(p, k) PROVE Last(k) \in Live
      <3>1. \E T : k \in Seq(T)
        BY LiveKeyFacts
      <3>2. \A i \in 1..Len(p) : p[i] = k[i]
        BY <2>2, <2>3, <3>1, PrefixMeans
      <3>3. k[1] = "ctx"
        BY <2>1, <3>2
      <3> QED BY <3>3, LiveKeyFacts
    <2>4. Collect(index, p) \subseteq Live
      BY <2>3 DEF Collect
    <2> QED BY <2>4 DEF p
  <1>3. ByContext(index, q) \subseteq Live
    BY <1>1, <1>2 DEF ByContext
  <1>4. ByAgent(index, q) \subseteq Live
    <2> DEFINE C(a) == Collect(index, <<"agent", a>>)
    <2>1. \A a : C(a) \subseteq Live
      BY AgentKeys
    <2>2. ByAgent(index, q) \subseteq ByContext(index, q) \cup UNION {C(a) : a \in q.agents}
      BY DEF ByAgent
    <2> HIDE DEF C
    <2> QED BY <1>3, <2>1, <2>2
  <1>5. ByType(index, q) \subseteq Live
    <2> DEFINE C(t) == Collect(index, <<"type", t>>)
    <2>1. \A t : C(t) \subseteq Live
      BY TypeKeys
    <2>2. ByType(index, q) \subseteq ByAgent(index, q) \cup UNION {C(t) : t \in q.types}
      BY DEF ByType
    <2> HIDE DEF C
    <2> QED BY <1>4, <2>1, <2>2
  <1>6. CASE q.meta = {}
    BY <1>5, <1>6 DEF ByMeta
  <1>7. CASE q.meta # {}
    <2>1. ByMeta(index, q) = WithMeta(index,
                  IF MetaOnly(q)
                  THEN UNION {Collect(index, <<"meta", m[1], m[2]>>) : m \in q.meta}
                  ELSE ByType(index, q), q.meta)
      BY <1>7 DEF ByMeta
    <2> QED BY <1>7, <2>1, WithMetaExact DEF IsQuery
  <1> QED BY <1>6, <1>7

\* The answers are finite sets.
LEMMA AnswersFinite ==
  ASSUME IndexWhole, NEW q, IsQuery(q)
  PROVE  /\ BackendIds(index, q) \subseteq Live
         /\ IsFiniteSet(BackendIds(index, q)) /\ IsFiniteSet(SearchIds(index, q))
         /\ \A t, g : kind = "badger" => IsFiniteSet(RelatedIds(index, t, g, q))
  <1>1. ByMeta(index, q) \subseteq Live /\ AllUnits(index) = Live
    BY FilteredLive, AllLive
  <1>2. BackendIds(index, q) \subseteq Live
    BY <1>1 DEF BackendIds
  <1>3. IsFiniteSet(BackendIds(index, q))
    BY <1>2, LiveFinite, FS_Subset
  <1>4. IsFiniteSet(SearchIds(index, q))
    <2>1. CASE FixedAnswer(q) # {}
      <3>1. SearchIds(index, q) = {"test-unit-2"} \/ SearchIds(index, q) = {"test-unit-3"}
        BY <2>1 DEF SearchIds, FixedAnswer
      <3> QED BY <3>1, FS_Singleton
    <2>2. CASE FixedAnswer(q) = {}
      <3>1. SearchIds(index, q) \subseteq Live
        BY <1>1, <2>2 DEF SearchIds
      <3> QED BY <3>1, LiveFinite, FS_Subset
    <2> QED BY <2>1, <2>2
  <1>5. ASSUME NEW t, NEW g, kind = "badger"
        PROVE  IsFiniteSet(RelatedIds(index, t, g, q))
    <2> DEFINE A == Collect(index, <<"rel", t>>)
               B == Collect(index, <<"rel", t, g>>)
               C == Collect(index, <<"rrel", t, g>>)
    <2>1. /\ A \subseteq Live /\ B \subseteq Live
          /\ \A y : y \in C <=> g \in Live /\ <<t, y>> \in UnitOf(g).rels
      <3>1. /\ A = {x \in Live : \E r \in UnitOf(x).rels : r[1] = t}
            /\ B = {x \in Live : <<t, g>> \in UnitOf(x).rels}
            /\ \A y : y \in C <=> g \in Live /\ <<t, y>> \in UnitOf(g).rels
        BY <1>5, RelKeys, Zenon
      <3> HIDE DEF A, B, C
      <3> QED BY <3>1, Zenon
    <2>2. RelatedIds(index, t, g, q) \subseteq A \cup B \cup C
      BY DEF RelatedIds, RelatedFiltered, Related, WithMeta
    <2> HIDE DEF A, B, C
    <2>3. IsFiniteSet(C)
      <3>1. CASE g \in Live
        <4> DEFINE S == UnitOf(g).rels
                   f == [r \in S |-> r[2]]
        <4>1. IsFiniteSet(S)
          BY <3>1, LiveUnit, UnitFacts
        <4>2. \A y \in C : \E r \in S : y = f[r]
          <5>1. ASSUME NEW y \in C PROVE \E r \in S : y = f[r]
            <6>1. <<t, y>> \in S /\ <<t, y>>[2] = y
              BY <2>1
            <6>2. f[<<t, y>>] = y
              BY <6>1
            <6> QED BY <6>1, <6>2
          <5> QED BY <5>1
        <4>3. DOMAIN f = S
          OBVIOUS
        <4> HIDE DEF S, f
        <4> QED BY <4>1, <4>2, <4>3, FiniteImage
      <3>2. CASE g \notin Live
        <4>1. C = {}
          BY <2>1, <3>2
        <4> QED BY <4>1, FS_EmptySet
      <3> QED BY <3>1, <3>2
    <2>4. IsFiniteSet(Live \cup C)
      BY <2>3, LiveFinite, FS_Union
    <2>5. RelatedIds(index, t, g, q) \subseteq Live \cup C
      BY <2>1, <2>2
    <2> QED BY <2>4, <2>5, FS_Subset
  <1> QED BY <1>2, <1>3, <1>4, <1>5

----------------------------------------------------------------------------
\* Orders and pages

\* An order of a finite set names each of its elements once.
LEMMA OrderFacts ==
  ASSUME NEW ids, IsFiniteSet(ids), NEW s \in Orders(index, ids), NEW c, c = Cardinality(ids)
  PROVE  /\ c \in Nat /\ s \in Seq(ids) /\ Len(s) = c
         /\ \A i, j \in 1..c : i # j => s[i] # s[j]
         /\ \A x \in ids : \E i \in 1..c : s[i] = x
         /\ \A i, j \in 1..c : i < j => TimestampOf(index, s[i]) >= TimestampOf(index, s[j])
  <1>1. c \in Nat
    BY FS_CardinalityType
  <1>2. s \in [1..c -> ids] /\ \A i, j \in 1..c : i # j => s[i] # s[j]
    BY DEF Orders, SetToSeqs
  <1>3. s \in Seq(ids) /\ Len(s) = c
    BY <1>1, <1>2
  <1>4. \A i, j \in 1..c : i < j => TimestampOf(index, s[i]) >= TimestampOf(index, s[j])
    BY <1>2 DEF Orders
  <1>5. s \in Injection(1..c, ids)
    BY <1>2, Fun_IsInj
  <1>6. Cardinality(1..c) = c
    BY <1>1, FS_Interval
  <1>7. s \in Surjection(1..c, ids)
    BY <1>5, <1>6, FS_Injection
  <1>8. \A x \in ids : \E i \in 1..c : s[i] = x
    BY <1>7 DEF Surjection
  <1> QED BY <1>1, <1>2, <1>3, <1>4, <1>8

\* Those that are newer than one of an order come before it.
LEMMA NewerBefore ==
  ASSUME IndexWhole, NEW ids, IsFiniteSet(ids), NEW s \in Orders(index, ids),
         \A a, b \in ids : a # b => TimestampOf(index, a) # TimestampOf(index, b),
         NEW p \in 1..Cardinality(ids)
  PROVE  Cardinality({x \in ids : TimestampOf(index, x) > TimestampOf(index, s[p])}) = p - 1
  <1> DEFINE c == Cardinality(ids)
             T(x) == TimestampOf(index, x)
             newer == {x \in ids : T(x) > T(s[p])}
             D == 1..(p - 1)
             f == [i \in D |-> s[i]]
  <1>1. /\ c \in Nat /\ s \in Seq(ids) /\ Len(s) = c
        /\ \A i, j \in 1..c : i # j => s[i] # s[j]
        /\ \A x \in ids : \E i \in 1..c : s[i] = x
        /\ \A i, j \in 1..c : i < j => T(s[i]) >= T(s[j])
    BY OrderFacts
  <1>2. \A x : T(x) \in Nat
    BY TimeIsNumber
  <1>3. \A a, b \in ids : a # b => T(a) # T(b)
    OBVIOUS
  <1>4. p \in 1..c
    OBVIOUS
  <1> HIDE DEF c, T
  <1>5. \A i \in 1..c : s[i] \in ids
    BY <1>1
  <1>6. \A i, j \in 1..c : i < j => T(s[i]) > T(s[j])
    BY <1>1, <1>2, <1>3, <1>5
  <1>7. ASSUME NEW i \in 1..c PROVE T(s[i]) > T(s[p]) <=> i < p
    <2>1. CASE i < p
      BY <1>4, <1>6, <2>1
    <2>2. CASE i = p
      BY <1>2, <2>2
    <2>3. CASE i > p
      <3>1. T(s[p]) > T(s[i])
        BY <1>4, <1>6, <2>3
      <3> QED BY <1>2, <2>3, <3>1
    <2> QED BY <1>1, <1>4, <2>1, <2>2, <2>3
  <1>8. f \in [D -> newer] /\ (\A i, j \in D : f[i] = f[j] => i = j)
        /\ \A x \in newer : \E i \in D : f[i] = x
    <2>1. \A i \in D : i \in 1..c /\ i < p
      BY <1>1, <1>4
    <2>2. \A i \in 1..c : i < p => i \in D
      BY <1>1, <1>4
    <2>3. \A i \in D : s[i] \in newer
      BY <1>5, <1>7, <2>1
    <2>4. \A i, j \in D : s[i] = s[j] => i = j
      BY <1>1, <2>1
    <2>5. \A x \in newer : \E i \in D : s[i] = x
      BY <1>1, <1>7, <2>2
    <2> HIDE DEF D, newer
    <2> QED BY <2>3, <2>4, <2>5
  <1>9. IsFiniteSet(D) /\ Cardinality(D) = p - 1
    <2>1. p - 1 \in Nat
      BY <1>1, <1>4
    <2>2. ASSUME NEW m \in Nat PROVE IsFiniteSet(1..m) /\ Cardinality(1..m) = m
      <3>1. IsFiniteSet(1..m) /\ Cardinality(1..m) = IF 1 > m THEN 0 ELSE m - 1 + 1
        BY FS_Interval
      <3> QED BY <3>1
    <2> QED BY <2>1, <2>2, Zenon
  <1> HIDE DEF D, newer, f
  <1>10. f \in Bijection(D, newer)
    BY <1>8, Fun_IsBij
  <1>11. ExistsBijection(D, newer)
    BY <1>10 DEF ExistsBijection
  <1>12. Cardinality(newer) = p - 1
    BY <1>9, <1>11, FS_Bijection
  <1> QED BY <1>12 DEF newer, T

\* The smaller and the greater of two numbers.
LEMMA MinMaxTwo ==
  ASSUME NEW a \in Int, NEW b \in Int
  PROVE  /\ Min({a, b}) = IF a <= b THEN a ELSE b
         /\ Max({a, b}) = IF a >= b THEN a ELSE b
  BY DEF Min, Max

\* The length of a page.
PageLength(c, off, limit) == Max({0, Min({limit, c - off})})

\* One page of an order.
LEMMA OnePage ==
  ASSUME IndexWhole, NEW ids, IsFiniteSet(ids), NEW s \in Orders(index, ids),
         NEW off \in Nat, NEW limit \in Nat \ {0}
  PROVE  /\ Page(s, off, limit) \in Seq(ids)
         /\ Len(Page(s, off, limit)) = PageLength(Cardinality(ids), off, limit)
         /\ \A i \in DOMAIN Page(s, off, limit) : /\ off + i \in 1..Cardinality(ids)
                                                  /\ Page(s, off, limit)[i] = s[off + i]
  <1> DEFINE c == Cardinality(ids)
             e == Min({off + limit, c})
             page == Page(s, off, limit)
  <1>1. c \in Nat /\ s \in Seq(ids) /\ Len(s) = c
    BY OrderFacts
  <1>2. page = SubSeq(s, off + 1, e)
    BY <1>1 DEF Page
  <1> HIDE DEF c, page
  <1>3. e \in Int /\ e <= c /\ e <= off + limit /\ (e = c \/ e = off + limit)
    BY <1>1, MinMaxTwo
  <1> HIDE DEF e
  <1>4. \A i \in (off + 1)..e : s[i] \in ids
    BY <1>1, <1>3
  <1>5. /\ page \in Seq(ids)
        /\ Len(page) = IF off + 1 <= e THEN e - (off + 1) + 1 ELSE 0
        /\ \A i \in 1..(e - (off + 1) + 1) : page[i] = s[off + 1 + i - 1]
    BY <1>2, <1>3, <1>4, SubSeqProperties
  <1>6. Len(page) = IF off < e THEN e - off ELSE 0
    BY <1>3, <1>5
  <1>7. Len(page) = PageLength(c, off, limit)
    <2> DEFINE v == Min({limit, c - off})
    <2>1. v = IF limit <= c - off THEN limit ELSE c - off
      BY <1>1, MinMaxTwo
    <2> HIDE DEF v
    <2>2. v \in Int
      BY <1>1, <2>1
    <2>3. Max({0, v}) = IF 0 >= v THEN 0 ELSE v
      BY <2>2, MinMaxTwo
    <2>4. Len(page) = IF 0 >= v THEN 0 ELSE v
      BY <1>1, <1>3, <1>6, <2>1
    <2>5. Len(page) = Max({0, v})
      BY <2>3, <2>4, Zenon
    <2> QED BY <2>5 DEF v, PageLength
  <1>8. ASSUME NEW i \in DOMAIN page
        PROVE  off + i \in 1..c /\ page[i] = s[off + i]
    <2>1. i \in 1..Len(page)
      BY <1>5
    <2>2. i \in 1..(e - off) /\ i \in 1..(e - (off + 1) + 1)
      BY <1>3, <1>6, <2>1
    <2>3. page[i] = s[off + 1 + i - 1] /\ off + 1 + i - 1 = off + i
      <3>1. page[i] = s[off + 1 + i - 1]
        BY <1>5, <2>2, Zenon
      <3>2. off + 1 + i - 1 = off + i
        BY <2>2
      <3> QED BY <3>1, <3>2, Zenon
    <2>4. off + i \in 1..c
      BY <1>1, <1>3, <2>2
    <2> QED BY <2>3, <2>4, Zenon
  <1> QED BY <1>5, <1>7, <1>8 DEF c, page

\* The pages of an answer, each at the offset that its number gives.
PagesAt(ids, limit, n) == {Page(s, n * limit, limit) : s \in Orders(index, ids)}

\* What Partition says of an answer and of one of its pages.
AllDistinct(ids) == \A a, b \in ids : a # b => TimestampOf(index, a) # TimestampOf(index, b)

RightPage(ids, limit, n, page) ==
    /\ Len(page) = Max({0, Min({limit, Cardinality(ids) - n * limit})})
    /\ \A i \in DOMAIN page :
         n * limit + i - 1 =
           Cardinality({id \in ids : TimestampOf(index, id) > TimestampOf(index, page[i])})

\* A page has the right length, and each of its units the right place.
LEMMA PageOfPartition ==
  ASSUME IndexWhole, NEW ids, IsFiniteSet(ids), AllDistinct(ids),
         NEW limit \in Nat \ {0}, NEW n \in Nat, NEW page \in PagesAt(ids, limit, n)
  PROVE  RightPage(ids, limit, n, page)
  <1>1. PICK off \in Nat : off = n * limit
    OBVIOUS
  <1>2. PICK s \in Orders(index, ids) : page = Page(s, off, limit)
    BY <1>1 DEF PagesAt
  <1>3. /\ Len(page) = PageLength(Cardinality(ids), off, limit)
        /\ \A i \in DOMAIN page : off + i \in 1..Cardinality(ids) /\ page[i] = s[off + i]
    <2>1. Len(Page(s, off, limit)) = PageLength(Cardinality(ids), off, limit)
      BY OnePage
    <2>2. \A i \in DOMAIN Page(s, off, limit) : off + i \in 1..Cardinality(ids)
      BY OnePage
    <2>3. \A i \in DOMAIN Page(s, off, limit) : Page(s, off, limit)[i] = s[off + i]
      BY OnePage
    <2> QED BY <1>2, <2>1, <2>2, <2>3
  <1>4. ASSUME NEW i \in DOMAIN page
        PROVE  off + i - 1 = Cardinality({id \in ids : TimestampOf(index, id) > TimestampOf(index, page[i])})
    <2>1. PICK p \in 1..Cardinality(ids) : p = off + i
      BY <1>3
    <2> DEFINE newer(x) == Cardinality({id \in ids : TimestampOf(index, id) > TimestampOf(index, x)})
    <2>2. newer(s[p]) = p - 1
      BY NewerBefore DEF AllDistinct
    <2>3. page[i] = s[p]
      BY <1>3, <2>1
    <2> HIDE DEF newer
    <2>4. newer(page[i]) = p - 1
      BY <2>2, <2>3, Zenon
    <2>5. off + i - 1 = p - 1
      <3>1. page \in Seq(ids)
        BY <1>2, OnePage
      <3>2. i \in Nat
        BY <3>1
      <3> QED BY <1>1, <2>1, <3>2
    <2>6. off + i - 1 = newer(page[i])
      BY <2>4, <2>5, Zenon
    <2> QED BY <2>6 DEF newer
  <1> QED BY <1>1, <1>3, <1>4, Zenon DEF PageLength, RightPage

\* Two queries that differ only in what is paged.
SameFilters(r, q) ==
    /\ r.text = q.text /\ r.words = q.words /\ r.context = q.context
    /\ r.agents = q.agents /\ r.types = q.types /\ r.meta = q.meta

\* The offset does not change what is found.
LEMMA SameIds ==
  ASSUME NEW q, NEW r, SameFilters(r, q)
  PROVE  /\ SearchIds(index, r) = SearchIds(index, q)
         /\ BackendIds(index, r) = BackendIds(index, q)
         /\ \A t, g : RelatedIds(index, t, g, r) = RelatedIds(index, t, g, q)
  <1>1. MetaOnly(r) = MetaOnly(q) /\ FixedAnswer(r) = FixedAnswer(q)
    BY DEF SameFilters, MetaOnly, FixedAnswer
  <1>2. ByText(index, r) = ByText(index, q)
    BY DEF SameFilters, ByText
  <1>3. ByContext(index, r) = ByContext(index, q)
    BY <1>2 DEF SameFilters, ByContext
  <1>4. ByAgent(index, r) = ByAgent(index, q)
    BY <1>3 DEF SameFilters, ByAgent
  <1>5. ByType(index, r) = ByType(index, q)
    BY <1>4 DEF SameFilters, ByType
  <1>6. ByMeta(index, r) = ByMeta(index, q)
    BY <1>1, <1>5 DEF SameFilters, ByMeta
  <1>7. LooksUnfiltered(r) = LooksUnfiltered(q)
    BY <1>1 DEF SameFilters, LooksUnfiltered
  <1>8. SearchIds(index, r) = SearchIds(index, q)
    BY <1>1, <1>6, <1>7 DEF SearchIds
  <1>9. BackendIds(index, r) = BackendIds(index, q)
    BY <1>1, <1>6 DEF SameFilters, BackendIds
  <1>10. \A t, g : RelatedIds(index, t, g, r) = RelatedIds(index, t, g, q)
    BY DEF SameFilters, RelatedIds, RelatedFiltered
  <1> QED BY <1>8, <1>9, <1>10

\* A query of the model at another offset.
LEMMA AtOffset ==
  ASSUME NEW q \in Queries, NEW off
  PROVE  LET r == [q EXCEPT !.offset = off]
         IN  SameFilters(r, q) /\ r.offset = off /\ r.limit = q.limit
  <1> DEFINE r == [q EXCEPT !.offset = off]
  <1>1. DOMAIN q = {"text", "words", "context", "agents", "types", "meta", "limit", "offset"}
        /\ q \in [DOMAIN q -> Range(q)]
    BY QueryAssumption DEF Range
  <1>2. /\ r.text = q.text /\ r.words = q.words /\ r.context = q.context
        /\ r.agents = q.agents /\ r.types = q.types /\ r.meta = q.meta
        /\ r.offset = off /\ r.limit = q.limit
    BY <1>1
  <1> QED BY <1>2 DEF SameFilters

\* Every limit is at least one.
LEMMA LimitPositive ==
  ASSUME NEW q \in Queries
  PROVE  EffectiveLimit(q.limit) \in Nat \ {0}
  <1>1. q.limit \in Int
    BY QueryAssumption
  <1> QED BY <1>1 DEF EffectiveLimit

\* The pages cut every finite answer into pieces.
LEMMA Partitioned ==
  ASSUME IndexWhole, NEW ids, IsFiniteSet(ids), NEW limit \in Nat \ {0}
  PROVE  AllDistinct(ids) =>
           \A n \in 0..Cardinality(ids) : \A page \in PagesAt(ids, limit, n) :
             RightPage(ids, limit, n, page)
  <1>1. \A n \in 0..Cardinality(ids) : n \in Nat
    OBVIOUS
  <1> QED BY <1>1, PageOfPartition

\* A query at the offset of a page.
AtPage(q, limit, n) == [q EXCEPT !.offset = n * limit]

\* The three kinds of pages.
LEMMA KindsOfPages ==
  ASSUME NEW q \in Queries, NEW n, NEW limit, limit = EffectiveLimit(q.limit)
  PROVE  /\ SearchPages(index, AtPage(q, limit, n)) = PagesAt(SearchIds(index, q), limit, n)
         /\ BackendPages(index, AtPage(q, limit, n)) = PagesAt(BackendIds(index, q), limit, n)
         /\ \A t, g : RelatedPages(index, t, g, AtPage(q, limit, n))
                         = PagesAt(RelatedIds(index, t, g, q), limit, n)
  <1> DEFINE r == AtPage(q, limit, n)
  <1>1. SameFilters(r, q) /\ r.offset = n * limit /\ EffectiveLimit(r.limit) = limit
    BY AtOffset DEF AtPage
  <1> HIDE DEF r
  <1>2. /\ SearchIds(index, r) = SearchIds(index, q)
        /\ BackendIds(index, r) = BackendIds(index, q)
        /\ \A t, g : RelatedIds(index, t, g, r) = RelatedIds(index, t, g, q)
    BY <1>1, SameIds
  <1>3. SearchPages(index, r) = PagesAt(SearchIds(index, q), limit, n)
    BY <1>1, <1>2, Zenon DEF SearchPages, PagesAt
  <1>4. BackendPages(index, r) = PagesAt(BackendIds(index, q), limit, n)
    BY <1>1, <1>2, Zenon DEF BackendPages, PagesAt
  <1>5. \A t, g : RelatedPages(index, t, g, r) = PagesAt(RelatedIds(index, t, g, q), limit, n)
    BY <1>1, <1>2, Zenon DEF RelatedPages, PagesAt
  <1> QED BY <1>3, <1>4, <1>5 DEF r

\* The IDs of a page of the backend's are those of indexed units.
LEMMA PageHasUnits ==
  ASSUME IndexWhole, NEW q \in Queries, NEW page \in BackendPages(index, q)
  PROVE  FullUnits(index, page) = ToSet(page)
  <1>0. IsQuery(q) /\ q.offset \in Nat
    BY ModelQueries, QueryAssumption
  <1> DEFINE ids == BackendIds(index, q)
             limit == EffectiveLimit(q.limit)
  <1>1. PICK s \in Orders(index, ids) : page = Page(s, q.offset, limit)
    BY DEF BackendPages
  <1>2. ids \subseteq Live /\ IsFiniteSet(ids)
    BY <1>0, AnswersFinite
  <1>3. limit \in Nat \ {0}
    BY LimitPositive
  <1> HIDE DEF ids, limit
  <1>4. page \in Seq(ids)
    BY <1>0, <1>1, <1>2, <1>3, OnePage
  <1>5. ToSet(page) \subseteq Live
    BY <1>2, <1>4 DEF ToSet
  <1> QED BY <1>5, AllLive DEF FullUnits

\* A whole index is all that paging needs.
LEMMA PagesFromWholeIndex ==
  ASSUME IndexWhole
  PROVE  PagesPartition
  <1> SUFFICES ASSUME NEW q \in Queries, NEW limit, limit = EffectiveLimit(q.limit)
               PROVE  IF kind # "badger"
                      THEN Partition(SearchIds(index, q),
                                     LAMBDA n : SearchPages(index, AtPage(q, limit, n)), limit)
                      ELSE /\ Partition(BackendIds(index, q),
                                        LAMBDA n : BackendPages(index, AtPage(q, limit, n)), limit)
                           /\ \A page \in BackendPages(index, q) : FullUnits(index, page) = ToSet(page)
                           /\ \A t \in RelTypes, target \in Targets :
                                Partition(RelatedIds(index, t, target, q),
                                          LAMBDA n : RelatedPages(index, t, target, AtPage(q, limit, n)),
                                          limit)
    BY Zenon DEF PagesPartition, AtPage
  <1> DEFINE at(n) == AtPage(q, limit, n)
  <1>0. IsQuery(q) /\ limit \in Nat \ {0}
    BY ModelQueries, LimitPositive
  <1>1. ASSUME NEW n
        PROVE  /\ SearchPages(index, at(n)) = PagesAt(SearchIds(index, q), limit, n)
               /\ BackendPages(index, at(n)) = PagesAt(BackendIds(index, q), limit, n)
               /\ \A t, g : RelatedPages(index, t, g, at(n)) = PagesAt(RelatedIds(index, t, g, q), limit, n)
    BY KindsOfPages
  <1>2. Partition(SearchIds(index, q), LAMBDA n : SearchPages(index, at(n)), limit)
    <2>1. IsFiniteSet(SearchIds(index, q))
      BY <1>0, AnswersFinite
    <2>2. AllDistinct(SearchIds(index, q)) =>
            \A n \in 0..Cardinality(SearchIds(index, q)) : \A page \in SearchPages(index, at(n)) :
              RightPage(SearchIds(index, q), limit, n, page)
      BY <1>0, <1>1, <2>1, Partitioned
    <2> QED BY <2>2, Zenon DEF Partition, AllDistinct, RightPage
  <1>3. Partition(BackendIds(index, q), LAMBDA n : BackendPages(index, at(n)), limit)
    <2>1. IsFiniteSet(BackendIds(index, q))
      BY <1>0, AnswersFinite
    <2>2. AllDistinct(BackendIds(index, q)) =>
            \A n \in 0..Cardinality(BackendIds(index, q)) : \A page \in BackendPages(index, at(n)) :
              RightPage(BackendIds(index, q), limit, n, page)
      BY <1>0, <1>1, <2>1, Partitioned
    <2> QED BY <2>2, Zenon DEF Partition, AllDistinct, RightPage
  <1>4. \A page \in BackendPages(index, q) : FullUnits(index, page) = ToSet(page)
    BY PageHasUnits
  <1>5. CASE kind # "badger"
    BY <1>2, <1>5, Zenon DEF Partition
  <1>6. CASE kind = "badger"
    <2>1. Partition(BackendIds(index, q), LAMBDA n : BackendPages(index, AtPage(q, limit, n)), limit)
      BY <1>3, Zenon DEF Partition
    <2>2. \A t \in RelTypes, target \in Targets :
            Partition(RelatedIds(index, t, target, q),
                      LAMBDA n : RelatedPages(index, t, target, AtPage(q, limit, n)), limit)
      <3> SUFFICES ASSUME NEW t \in RelTypes, NEW g \in Targets
                   PROVE  Partition(RelatedIds(index, t, g, q),
                                    LAMBDA n : RelatedPages(index, t, g, AtPage(q, limit, n)), limit)
        BY Zenon DEF Partition
      <3>1. IsFiniteSet(RelatedIds(index, t, g, q))
        BY <1>0, <1>6, AnswersFinite
      <3>2. AllDistinct(RelatedIds(index, t, g, q)) =>
              \A n \in 0..Cardinality(RelatedIds(index, t, g, q)) :
                \A page \in RelatedPages(index, t, g, AtPage(q, limit, n)) :
                  RightPage(RelatedIds(index, t, g, q), limit, n, page)
        BY <1>0, <1>1, <3>1, Partitioned
      <3> QED BY <3>2, Zenon DEF Partition, AllDistinct, RightPage
    <2> QED BY <1>4, <1>6, <2>1, <2>2, Zenon DEF Partition
  <1> QED BY <1>5, <1>6

----------------------------------------------------------------------------
\* Theorems

\* The types, for each of the three implementations: the queue never holds more than
\* its capacity, the batch less than a full one, and the index only keys that a unit
\* has.
THEOREM SearchTypeCorrect == Spec => []TypeOK
  <1>1. PipeInv => TypeOK
    BY DEF PipeInv
  <1> QED BY <1>1, InitPipe, NextPipe, PTL DEF Spec

\* For every traffic and all sizes: until the context ends or Shutdown begins, a unit
\* that was received is in the queue, in the batch or with all its keys in the index,
\* unless the service has found the queue full.
THEOREM NoUnitMissing == Spec => []NothingMissing
  <1>1. PipeInv => NothingMissing
    BY DEF PipeInv
  <1> QED BY <1>1, InitPipe, NextPipe, PTL DEF Spec

\* For every set of units and of queries, in every form of the search engine: the chain
\* of filters finds exactly the indexed units that satisfy them all, and a relationship
\* query exactly those that are related, whatever has been indexed so far.
THEOREM AnswersAreExact == Spec => []AnswersExact
  <1>1. Init => IndexWhole
    BY DEF Init, IndexWhole
  <1> QED BY <1>1, InitPipe, NextPipe, NextWhole, AnswersFromWholeIndex, PTL DEF Spec

\* For every set of units and of queries, in every form of the search engine: paging
\* through an answer with one limit gives every unit once, newest first, as long as no
\* two of them have the same time.
THEOREM PagesPartitionAnswers == Spec => []PagesPartition
  <1>1. Init => IndexWhole
    BY DEF Init, IndexWhole
  <1> QED BY <1>1, InitPipe, NextPipe, NextWhole, PagesFromWholeIndex, PTL DEF Spec

----------------------------------------------------------------------------
(* McpServer *)

\* A sequence of all elements of a finite set.
LEMMA EnumerationFacts ==
  ASSUME NEW S, IsFiniteSet(S), NEW c, c = Cardinality(S), NEW s \in SetToSeqs(S)
  PROVE  /\ c \in Nat
         /\ s \in Seq(S) /\ Len(s) = c /\ DOMAIN s = 1..c
         /\ \A k \in 1..c : s[k] \in S
         /\ \A k, l \in 1..c : s[k] = s[l] => k = l
         /\ \A x \in S : \E k \in 1..c : s[k] = x
  <1>1. c \in Nat
    BY FS_CardinalityType
  <1>2. s \in [1..c -> S] /\ \A i, j \in 1..c : i # j => s[i] # s[j]
    BY DEF SetToSeqs
  <1>3. s \in Seq(S) /\ Len(s) = c
    BY <1>1, <1>2
  <1>5. s \in Injection(1..c, S)
    BY <1>2, Fun_IsInj
  <1>6. Cardinality(1..c) = c
    BY <1>1, FS_Interval
  <1>7. s \in Surjection(1..c, S)
    BY <1>5, <1>6, FS_Injection
  <1>8. \A x \in S : \E i \in 1..c : s[i] = x
    BY <1>7 DEF Surjection
  <1> QED BY <1>1, <1>2, <1>3, <1>8

\* R is a strict total order of S.
StrictOrder(S, R) ==
  /\ \A x \in S : <<x, x>> \notin R
  /\ \A x, y, z \in S : <<x, y>> \in R /\ <<y, z>> \in R => <<x, z>> \in R
  /\ \A x, y \in S : x = y \/ <<x, y>> \in R \/ <<y, x>> \in R

InOrder(s, R) == \A k, l \in DOMAIN s : k < l => <<s[k], s[l]>> \in R

Below(S, R, x) == {y \in S : <<y, x>> \in R}

\* The rank of an element in a finite order.
LEMMA Ranks ==
  ASSUME NEW S, IsFiniteSet(S), NEW R, StrictOrder(S, R)
  PROVE  /\ \A x \in S : Cardinality(Below(S, R, x)) \in 0 .. (Cardinality(S) - 1)
         /\ \A x, y \in S : <<x, y>> \in R =>
              Cardinality(Below(S, R, x)) < Cardinality(Below(S, R, y))
  <1>0. Cardinality(S) \in Nat
    BY FS_CardinalityType
  <1>1. ASSUME NEW x \in S
        PROVE  Cardinality(Below(S, R, x)) \in 0 .. (Cardinality(S) - 1)
    <2>1. Below(S, R, x) \in SUBSET S /\ Below(S, R, x) # S
      BY DEF Below, StrictOrder
    <2>2. IsFiniteSet(Below(S, R, x)) /\ Cardinality(Below(S, R, x)) <= Cardinality(S)
          /\ Cardinality(Below(S, R, x)) # Cardinality(S)
      BY <2>1, FS_Subset
    <2>3. Cardinality(Below(S, R, x)) \in Nat
      BY <2>2, FS_CardinalityType
    <2> QED BY <1>0, <2>2, <2>3
  <1>2. ASSUME NEW x \in S, NEW y \in S, <<x, y>> \in R
        PROVE  Cardinality(Below(S, R, x)) < Cardinality(Below(S, R, y))
    <2>1. Below(S, R, x) \subseteq Below(S, R, y)
      BY <1>2 DEF Below, StrictOrder
    <2>2. x \in Below(S, R, y) /\ x \notin Below(S, R, x)
      BY <1>2 DEF Below, StrictOrder
    <2>3. IsFiniteSet(Below(S, R, y))
      <3>1. Below(S, R, y) \in SUBSET S
        BY DEF Below
      <3> QED BY <3>1, FS_Subset
    <2>4. Below(S, R, x) \in SUBSET Below(S, R, y)
      BY <2>1
    <2>5. Cardinality(Below(S, R, x)) <= Cardinality(Below(S, R, y))
          /\ Cardinality(Below(S, R, x)) # Cardinality(Below(S, R, y))
      BY <2>2, <2>3, <2>4, FS_Subset
    <2>6. Cardinality(Below(S, R, x)) \in Nat /\ Cardinality(Below(S, R, y)) \in Nat
      BY <2>3, <2>4, FS_Subset, FS_CardinalityType
    <2> QED BY <2>5, <2>6
  <1> QED BY <1>1, <1>2

\* A finite set has an enumeration in any strict order.
LEMMA SortedExists ==
  ASSUME NEW S, IsFiniteSet(S), NEW R, StrictOrder(S, R)
  PROVE  \E s \in SetToSeqs(S) : InOrder(s, R)
  <1> DEFINE c == Cardinality(S)
             r == [x \in S |-> Cardinality(Below(S, R, x)) + 1]
             s == [k \in 1..c |-> CHOOSE x \in S : r[x] = k]
  <1>0. c \in Nat
    BY FS_CardinalityType
  <1>1. \A x \in S : r[x] \in 1..c
    <2>1. ASSUME NEW x \in S PROVE r[x] \in 1..c
      <3>1. Cardinality(Below(S, R, x)) \in 0..(c - 1)
        BY Ranks
      <3> HIDE DEF c
      <3> QED BY <1>0, <3>1
    <2> QED BY <2>1
  <1>2. \A x, y \in S : <<x, y>> \in R => r[x] < r[y]
    <2>1. ASSUME NEW x \in S, NEW y \in S, <<x, y>> \in R PROVE r[x] < r[y]
      <3>1. Cardinality(Below(S, R, x)) < Cardinality(Below(S, R, y))
        BY <2>1, Ranks
      <3>2. Cardinality(Below(S, R, x)) \in 0..(c - 1) /\ Cardinality(Below(S, R, y)) \in 0..(c - 1)
        BY Ranks
      <3> HIDE DEF c
      <3> QED BY <1>0, <3>1, <3>2
    <2> QED BY <2>1
  <1>3. r \in [S -> 1..c]
    BY <1>1
  <1> HIDE DEF r, c
  <1>4. \A x, y \in S : r[x] = r[y] => x = y
    <2> SUFFICES ASSUME NEW x \in S, NEW y \in S, r[x] = r[y] PROVE x = y
      OBVIOUS
    <2>1. r[x] \in Int /\ r[y] \in Int
      BY <1>0, <1>1
    <2>2. ~(<<x, y>> \in R) /\ ~(<<y, x>> \in R)
      BY <1>2, <2>1
    <2> QED BY <2>2 DEF StrictOrder
  <1>5. r \in Injection(S, 1..c)
    BY <1>3, <1>4, Fun_IsInj
  <1>6. IsFiniteSet(1..c) /\ Cardinality(1..c) = c
    BY <1>0, FS_Interval
  <1>7. r \in Surjection(S, 1..c)
    BY <1>5, <1>6, FS_Injection DEF c
  <1>8. \A k \in 1..c : \E x \in S : r[x] = k
    BY <1>7 DEF Surjection
  <1>9. \A k \in 1..c : s[k] \in S /\ r[s[k]] = k
    BY <1>8
  <1>10. s \in [1..c -> S]
    BY <1>9
  <1> HIDE DEF s
  <1>11. s \in SetToSeqs(S)
    BY <1>9, <1>10 DEF SetToSeqs, c
  <1>12. ASSUME NEW k \in 1..c, NEW l \in 1..c, k < l PROVE <<s[k], s[l]>> \in R
    <2>1. s[k] # s[l]
      BY <1>0, <1>9, <1>12
    <2>2. ~ (<<s[l], s[k]>> \in R)
      <3> SUFFICES ASSUME <<s[l], s[k]>> \in R PROVE FALSE
        OBVIOUS
      <3>1. r[s[l]] < r[s[k]]
        BY <1>2, <1>9
      <3> QED BY <1>0, <1>9, <1>12, <3>1
    <2> QED BY <1>9, <2>1, <2>2 DEF StrictOrder
  <1>13. DOMAIN s = 1..c
    BY <1>10
  <1> QED BY <1>11, <1>12, <1>13 DEF InOrder

\* What Sorted returns.
LEMMA SortedFacts ==
  ASSUME NEW S, IsFiniteSet(S), NEW R, StrictOrder(S, R)
  PROVE  Sorted(S, R) \in SetToSeqs(S) /\ InOrder(Sorted(S, R), R)
  <1>1. \E s \in SetToSeqs(S) : \A i, j \in DOMAIN s : i < j => <<s[i], s[j]>> \in R
    BY SortedExists DEF InOrder
  <1> QED BY <1>1 DEF Sorted, InOrder

----------------------------------------------------------------------------
\* The messages that are kept

\* stored has the messages of A, each under its ID, and no others.
Holds(stored, A) ==
  /\ DOMAIN stored \subseteq MessageIds
  /\ \A i \in DOMAIN stored : stored[i] \in Message /\ stored[i].id = i /\ stored[i] \in A
  /\ \A m \in A : m.id \in DOMAIN stored /\ stored[m.id] = m

\* ids are the messages of context c in stored, newest first.
Lists(ids, stored, c) ==
  /\ ids \in Seq(MessageIds)
  /\ \A k \in DOMAIN ids : ids[k] \in DOMAIN stored /\ stored[ids[k]].contextID = c
  /\ \A k, l \in DOMAIN ids : ids[k] = ids[l] => k = l
  /\ \A i \in DOMAIN stored : stored[i].contextID = c => \E k \in DOMAIN ids : ids[k] = i
  /\ \A k, l \in DOMAIN ids : k < l => stored[ids[k]].timestamp >= stored[ids[l]].timestamp

\* A message with a new ID is added.
LEMMA WithHolds ==
  ASSUME NEW stored, NEW A, Holds(stored, A), NEW msg \in Message, msg.id \notin DOMAIN stored
  PROVE  Holds(With(stored, msg), A \cup {msg})
  <1> DEFINE W == With(stored, msg)
  <1>1. DOMAIN W = DOMAIN stored \cup {msg.id} /\ W[msg.id] = msg
        /\ \A i \in DOMAIN stored : W[i] = stored[i]
    BY DEF With
  <1>2. msg.id \in MessageIds
    BY DEF Message
  <1> HIDE DEF W
  <1>3. Holds(W, A \cup {msg})
    BY <1>1, <1>2 DEF Holds
  <1> QED BY <1>3 DEF W

\* The lists of other contexts are not concerned.
LEMMA WithListsOther ==
  ASSUME NEW stored, NEW c, NEW ids, Lists(ids, stored, c), NEW msg \in Message,
         msg.id \notin DOMAIN stored, msg.contextID # c
  PROVE  Lists(ids, With(stored, msg), c)
  <1> DEFINE W == With(stored, msg)
  <1>1. DOMAIN W = DOMAIN stored \cup {msg.id} /\ W[msg.id] = msg
        /\ \A i \in DOMAIN stored : W[i] = stored[i]
    BY DEF With
  <1> HIDE DEF W
  <1>3. Lists(ids, W, c)
    BY <1>1 DEF Lists
  <1> QED BY <1>3 DEF W

\* The order of a stable sort.
TimeOrder(P, t) ==
  {p \in P \X P : t[p[1]] > t[p[2]] \/ (t[p[1]] = t[p[2]] /\ p[1] < p[2])}

\* It is a strict total order, and never puts an older message first.
LEMMA TimeOrderStrict ==
  ASSUME NEW P \in SUBSET Int, NEW t, \A k \in P : t[k] \in Int
  PROVE  /\ StrictOrder(P, TimeOrder(P, t))
         /\ \A k, l \in P : <<k, l>> \in TimeOrder(P, t) => t[k] >= t[l]
  <1>1. \A k, l \in P : <<k, l>> \in TimeOrder(P, t) <=> t[k] > t[l] \/ (t[k] = t[l] /\ k < l)
    BY DEF TimeOrder
  <1>2. \A k \in P : k \in Int
    OBVIOUS
  <1> QED BY <1>1, <1>2 DEF StrictOrder

\* The sorted index has the new message in its place.
LEMMA WithListsOwn ==
  ASSUME NEW stored, NEW ids, NEW msg \in Message, Lists(ids, stored, msg.contextID),
         \A i \in DOMAIN stored : stored[i] \in Message, msg.id \notin DOMAIN stored
  PROVE  Lists(ByTime(ids, stored, msg), With(stored, msg), msg.contextID)
  <1> DEFINE W == With(stored, msg)
             s == Append(ids, msg.id)
             P == DOMAIN s
             t == [k \in P |-> W[s[k]].timestamp]
             order == Sorted(P, TimeOrder(P, t))
             r == [k \in P |-> s[order[k]]]
             c == msg.contextID
  <1>1. ByTime(ids, stored, msg) = r
    <2>1. TimeOrder(P, t) = {p \in P \X P : \/ W[s[p[1]]].timestamp > W[s[p[2]]].timestamp
                                            \/ /\ W[s[p[1]]].timestamp = W[s[p[2]]].timestamp
                                               /\ p[1] < p[2]}
      BY DEF TimeOrder
    <2> QED BY <2>1, Zenon DEF ByTime
  <1>2. DOMAIN W = DOMAIN stored \cup {msg.id} /\ W[msg.id] = msg
        /\ \A i \in DOMAIN stored : W[i] = stored[i]
    BY DEF With
  <1>3. msg.id \in MessageIds /\ msg.timestamp \in Nat
    BY DEF Message
  <1>4. \A i \in DOMAIN stored : stored[i].timestamp \in Nat
    BY DEF Message
  <1> HIDE DEF W
  <1> DEFINE n == Len(ids)
  <1>5. ids \in Seq(MessageIds) /\ n \in Nat /\ DOMAIN ids = 1..n
    BY DEF Lists
  <1>6. /\ s \in Seq(MessageIds) /\ Len(s) = n + 1 /\ P = 1..(n + 1)
        /\ \A k \in 1..n : s[k] = ids[k] 
        /\ s[n + 1] = msg.id
    BY <1>3, <1>5
  <1> HIDE DEF n, s
  <1>7. \A k \in P : s[k] \in DOMAIN W /\ W[s[k]].contextID = c /\ W[s[k]].timestamp \in Nat
    BY <1>2, <1>3, <1>4, <1>5, <1>6 DEF Lists
  <1>8. \A k, l \in P : s[k] = s[l] => k = l
    <2>1. \A k \in 1..n : s[k] # msg.id
      BY <1>5, <1>6 DEF Lists
    <2>2. \A k, l \in 1..n : s[k] = s[l] => k = l
      BY <1>5, <1>6 DEF Lists
    <2> QED BY <1>5, <1>6, <2>1, <2>2
  <1>9. \A i \in DOMAIN W : W[i].contextID = c => \E k \in P : s[k] = i
    <2>1. n + 1 \in P /\ \A k \in 1..n : k \in P
      BY <1>5, <1>6
    <2> QED BY <1>2, <1>5, <1>6, <2>1 DEF Lists
  <1>10. IsFiniteSet(P) /\ Cardinality(P) = n + 1 /\ P \in SUBSET Int
    BY <1>5, <1>6, FS_Interval
  <1>11. \A k \in P : t[k] = W[s[k]].timestamp /\ t[k] \in Int
    BY <1>7
  <1> HIDE DEF t, P
  <1>12. order \in SetToSeqs(P) /\ InOrder(order, TimeOrder(P, t))
    BY <1>10, <1>11, TimeOrderStrict, SortedFacts
  <1> HIDE DEF order
  <1>13. /\ DOMAIN order = P /\ \A k \in P : order[k] \in P
         /\ \A k, l \in P : order[k] = order[l] => k = l
         /\ \A x \in P : \E k \in P : order[k] = x
    <2>1. P = 1..(n + 1)
      BY <1>6 DEF P
    <2>2. PICK size : size = Cardinality(P)
      OBVIOUS
    <2>3. IsFiniteSet(P) /\ order \in SetToSeqs(P)
      BY <1>10, <1>12
    <2>4. /\ DOMAIN order = 1..size
          /\ \A k \in 1..size : order[k] \in P
          /\ \A k, l \in 1..size : order[k] = order[l] => k = l
          /\ \A x \in P : \E k \in 1..size : order[k] = x
      BY <2>2, <2>3, EnumerationFacts
    <2>5. P = 1..size
      BY <1>10, <2>1, <2>2, Zenon
    <2> QED BY <2>4, <2>5, Zenon
  <1>14. \A k, l \in P : k < l => t[order[k]] >= t[order[l]]
    BY <1>10, <1>11, <1>12, <1>13, TimeOrderStrict DEF InOrder
  <1>15. DOMAIN r = P /\ \A k \in P : r[k] = s[order[k]]
    OBVIOUS
  <1>16. r \in Seq(MessageIds)
    <2>1. \A k \in P : s[k] \in MessageIds
      BY <1>6 DEF P
    <2>2. r \in [1..(n + 1) -> MessageIds]
      BY <1>6, <1>13, <1>15, <2>1 DEF P
    <2> QED BY <1>5, <2>2
  <1> HIDE DEF r
  <1>17. Lists(r, W, c)
    <2>1. \A k \in DOMAIN r : r[k] \in DOMAIN W /\ W[r[k]].contextID = c
      BY <1>7, <1>13, <1>15
    <2>2. \A k, l \in DOMAIN r : r[k] = r[l] => k = l
      BY <1>8, <1>13, <1>15
    <2>3. \A i \in DOMAIN W : W[i].contextID = c => \E k \in DOMAIN r : r[k] = i
      BY <1>9, <1>13, <1>15
    <2>4. \A k, l \in DOMAIN r : k < l => W[r[k]].timestamp >= W[r[l]].timestamp
      BY <1>11, <1>13, <1>14, <1>15
    <2> QED BY <1>16, <2>1, <2>2, <2>3, <2>4 DEF Lists
  <1> QED BY <1>1, <1>17 DEF W

----------------------------------------------------------------------------
\* The invariant

AnyContext == Contexts \cup {NoContext}

\* What was acknowledged to the clients of Badger, and to those of this process's memory.
BadgerKept == {a.msg : a \in {b \in acked : b.client = "badger"}}
MemoryKept == {a.msg : a \in {b \in acked : b.client = "memory" /\ b.life = lives}}

\* The store has what was acknowledged, and lists it by time.
StoreInv ==
  /\ Holds(db, BadgerKept)
  /\ Holds(memory, MemoryKept)
  /\ \A c \in AnyContext : Lists(timeIndex[c], memory, c)
  /\ \A a \in acked : a.msg.type = MemoryType

\* A session without a context has stored nothing.
SessionInv == contextID = NoContext => storeContext = NoContext

ServerInv == ServerTypeOK /\ StoreInv /\ SessionInv

\* Drawing an ID excludes those of all stored messages.
LEMMA NewIdIsNew ==
  ASSUME StoreTypeOK, StoreInv, NEW id \in MessageIds \ Drawn
  PROVE  id \notin DOMAIN db /\ id \notin DOMAIN memory
  <1>1. id \notin DOMAIN db
    BY DEF Drawn
  <1>2. \A i \in DOMAIN memory : i \in Drawn
    <2> SUFFICES ASSUME NEW i \in DOMAIN memory PROVE i \in Drawn
      OBVIOUS
    <2>1. memory[i].id = i /\ memory[i] \in MemoryKept
      BY DEF StoreInv, Holds
    <2>2. PICK a \in acked : a.msg = memory[i]
      BY <2>1 DEF MemoryKept
    <2> QED BY <2>1, <2>2 DEF Drawn
  <1> QED BY <1>1, <1>2

\* A message of store_memory.
LEMMA MemoryIsMessage ==
  ASSUME NEW id \in MessageIds, NEW c \in AnyContext, NEW content \in SUBSET Texts, NEW now \in Nat
  PROVE  LET m == NewMemory(id, c, content, now)
         IN  /\ m \in Message /\ m.id = id /\ m.contextID = c
             /\ m.type = MemoryType /\ m.timestamp = now
  BY StoreAssumption DEF NewMemory, Message, AnyContext

\* Storing in Badger.
LEMMA BadgerStep ==
  ASSUME StoreTypeOK, StoreInv, NEW msg \in Message, msg.id \notin DOMAIN db,
         msg.type = MemoryType, StoreInBadger(msg)
  PROVE  StoreTypeOK' /\ StoreInv' /\ storeContext' = msg.contextID
  <1>0. /\ backend = "badger" /\ storeContext' = msg.contextID /\ backend' = backend
        /\ memory' = memory /\ timeIndex' = timeIndex /\ lives' = lives
    BY DEF StoreInBadger
  <1>1. msg.contextID \in Contexts \cup {NoContext}
    BY DEF Message
  <1>2. CASE db' = db /\ acked' = acked
    <2>1. StoreTypeOK'
      BY <1>0, <1>1, <1>2 DEF StoreTypeOK
    <2>2. StoreInv'
      BY <1>0, <1>2 DEF StoreInv, BadgerKept, MemoryKept
    <2> QED BY <1>0, <2>1, <2>2
  <1>3. CASE db' = With(db, msg) /\ Acknowledge(msg)
    <2> DEFINE a == [msg |-> msg, client |-> backend, life |-> lives]
    <2>1. acked' = acked \cup {a} /\ a.msg = msg /\ a.client = "badger" /\ a.life = lives
      BY <1>0, <1>3 DEF Acknowledge
    <2>2. a \in [msg : Message, client : {"badger", "memory"}, life : 1 .. lives]
      BY <1>0 DEF StoreTypeOK
    <2> HIDE DEF a
    <2>3. BadgerKept' = BadgerKept \cup {msg}
      BY <2>1 DEF BadgerKept
    <2>4. MemoryKept' = MemoryKept
      BY <1>0, <2>1 DEF MemoryKept
    <2>5. Holds(db', BadgerKept')
      BY <1>3, <2>3, WithHolds DEF StoreInv
    <2>6. StoreInv'
      BY <1>0, <2>1, <2>4, <2>5 DEF StoreInv
    <2>7. StoreTypeOK'
      <3>1. DOMAIN db' \subseteq MessageIds /\ \A i \in DOMAIN db' : db'[i] \in Message
        BY <2>5 DEF Holds
      <3>2. acked' \subseteq [msg : Message, client : {"badger", "memory"}, life : 1 .. lives]
        BY <2>1, <2>2 DEF StoreTypeOK
      <3> QED BY <1>0, <1>1, <3>1, <3>2 DEF StoreTypeOK
    <2> QED BY <1>0, <2>6, <2>7
  <1> QED BY <1>2, <1>3 DEF StoreInBadger

\* Storing in memory.
LEMMA MemoryStep ==
  ASSUME StoreTypeOK, StoreInv, NEW msg \in Message, msg.id \notin DOMAIN memory,
         msg.type = MemoryType, StoreInMemory(msg)
  PROVE  StoreTypeOK' /\ StoreInv' /\ storeContext' = msg.contextID
  <1> DEFINE a == [msg |-> msg, client |-> backend, life |-> lives]
             c0 == msg.contextID
  <1>0. /\ backend = "memory" /\ storeContext' = msg.contextID /\ backend' = backend
        /\ db' = db /\ lives' = lives /\ memory' = With(memory, msg)
        /\ timeIndex' = [timeIndex EXCEPT ![c0] = ByTime(@, memory, msg)]
        /\ acked' = acked \cup {a}
    BY DEF StoreInMemory, Acknowledge
  <1>1. c0 \in AnyContext
    BY DEF Message, AnyContext
  <1>2. a.msg = msg /\ a.client = "memory" /\ a.life = lives
    BY <1>0
  <1>3. a \in [msg : Message, client : {"badger", "memory"}, life : 1 .. lives]
    BY <1>0 DEF StoreTypeOK
  <1> HIDE DEF a, c0
  <1>4. BadgerKept' = BadgerKept
    BY <1>0, <1>2 DEF BadgerKept
  <1>5. MemoryKept' = MemoryKept \cup {msg}
    BY <1>0, <1>2 DEF MemoryKept
  <1>6. Holds(memory', MemoryKept')
    BY <1>0, <1>5, WithHolds DEF StoreInv
  <1>7. timeIndex' \in [AnyContext -> Seq(MessageIds)]
        /\ \A c \in AnyContext : Lists(timeIndex'[c], memory', c)
    <2>1. timeIndex \in [AnyContext -> Seq(MessageIds)]
      BY DEF StoreTypeOK, AnyContext
    <2>2. timeIndex'[c0] = ByTime(timeIndex[c0], memory, msg)
          /\ \A c \in AnyContext : c # c0 => timeIndex'[c] = timeIndex[c]
      BY <1>0, <1>1, <2>1
    <2>3. \A i \in DOMAIN memory : memory[i] \in Message
      BY DEF StoreTypeOK
    <2>4. Lists(timeIndex'[c0], memory', c0)
      BY <1>0, <1>1, <2>2, <2>3, WithListsOwn DEF StoreInv, c0
    <2>5. ASSUME NEW c \in AnyContext, c # c0 PROVE Lists(timeIndex'[c], memory', c)
      BY <1>0, <2>2, <2>5, WithListsOther DEF StoreInv, c0
    <2>6. \A c \in AnyContext : Lists(timeIndex'[c], memory', c)
      BY <2>4, <2>5
    <2>7. \A c \in AnyContext : timeIndex'[c] \in Seq(MessageIds)
      BY <2>6 DEF Lists
    <2>8. DOMAIN timeIndex' = AnyContext /\ timeIndex' = [c \in AnyContext |-> timeIndex'[c]]
      BY <1>0, <2>1
    <2> QED BY <2>6, <2>7, <2>8
  <1>8. StoreInv'
    <2>1. \A b \in acked' : b.msg.type = MemoryType
      BY <1>0, <1>2 DEF StoreInv
    <2>2. Holds(db', BadgerKept')
      BY <1>0, <1>4 DEF StoreInv
    <2> QED BY <1>6, <1>7, <2>1, <2>2 DEF StoreInv
  <1>9. StoreTypeOK'
    <2>1. DOMAIN memory' \subseteq MessageIds /\ \A i \in DOMAIN memory' : memory'[i] \in Message
      BY <1>6 DEF Holds
    <2>2. acked' \subseteq [msg : Message, client : {"badger", "memory"}, life : 1 .. lives]
      BY <1>0, <1>3 DEF StoreTypeOK
    <2> QED BY <1>0, <1>1, <1>7, <2>1, <2>2 DEF StoreTypeOK, AnyContext, c0
  <1> QED BY <1>0, <1>8, <1>9 DEF c0

\* store_memory, whichever client is open.
LEMMA StoreMemoryStep ==
  ASSUME StoreTypeOK, StoreInv, NEW c \in AnyContext, NEW content \in SUBSET Texts,
         NEW now \in Nat, StoreMemory(c, content, now)
  PROVE  StoreTypeOK' /\ StoreInv' /\ storeContext' = c
  <1>1. PICK id \in MessageIds \ Drawn :
               LET msg == NewMemory(id, c, content, now)
               IN  StoreInBadger(msg) \/ StoreInMemory(msg)
    BY DEF StoreMemory
  <1>2. PICK msg : msg = NewMemory(id, c, content, now)
    OBVIOUS
  <1>3. StoreInBadger(msg) \/ StoreInMemory(msg)
    BY <1>1, <1>2
  <1>4. msg \in Message /\ msg.id = id /\ msg.contextID = c /\ msg.type = MemoryType
    BY <1>2, MemoryIsMessage
  <1>5. msg.id \notin DOMAIN db /\ msg.id \notin DOMAIN memory
    BY <1>4, NewIdIsNew
  <1> QED BY <1>3, <1>4, <1>5, BadgerStep, MemoryStep

\* The requests.
LEMMA RequestFacts ==
  ASSUME NEW r \in Inputs
  PROVE  /\ r.method = "initialize" => r.contextID \in AnyContext
         /\ r.method = "store_memory" => r.content \in SUBSET Texts
  BY InputAssumption DEF Request, AnyContext

\* A store that is left alone.
LEMMA SameStore ==
  ASSUME UNCHANGED storeVars
  PROVE  /\ StoreTypeOK => StoreTypeOK'
         /\ StoreInv => StoreInv'
  BY DEF storeVars, StoreTypeOK, StoreInv, BadgerKept, MemoryKept

\* The variables of the session and the channels.
SessionTypes ==
  /\ clock \in 0 .. MaxClock
  /\ compat \in BOOLEAN /\ initialized \in BOOLEAN /\ reading \in BOOLEAN /\ errChan \in BOOLEAN
  /\ contextID \in AnyContext
  /\ timer \in {"running", "fired", "idle"}
  /\ lines \in 0 .. MaxLines
  /\ msgChan \in Seq(Inputs) /\ Len(msgChan) <= ChanSize
  /\ runLoop \in {"on", "stuck", "ended"}
  /\ settled \in Nat

\* ServerTypeOK is the types of the store and of the session,
LEMMA TypesOfServer == ServerTypeOK <=> StoreTypeOK /\ SessionTypes
  BY DEF ServerTypeOK, SessionTypes, AnyContext

\* also after a step.
LEMMA TypesOfServerNext == ServerTypeOK' <=> StoreTypeOK' /\ SessionTypes'
  BY DEF ServerTypeOK, SessionTypes, AnyContext

\* What the loop does with the line it takes.
LEMMA TakeLineStep ==
  ASSUME SessionTypes, NEW method, TakeLine(method)
  PROVE  /\ Head(msgChan) \in Inputs /\ Head(msgChan).method = method
         /\ msgChan' \in Seq(Inputs) /\ Len(msgChan') <= ChanSize
         /\ UNCHANGED <<clock, lines, reading, errChan, compat>>
  <1>1. msgChan \in Seq(Inputs) /\ msgChan # <<>> /\ msgChan' = Tail(msgChan)
    BY DEF TakeLine, SessionTypes
  <1>2. Head(msgChan) \in Inputs /\ Tail(msgChan) \in Seq(Inputs)
        /\ Len(Tail(msgChan)) = Len(msgChan) - 1
    BY <1>1
  <1>3. Len(msgChan) <= ChanSize /\ Len(msgChan) \in Nat /\ ChanSize \in Nat
    BY <1>1, McpBounds DEF SessionTypes
  <1> QED BY <1>1, <1>2, <1>3 DEF TakeLine

\* The steps that leave the store and the contexts alone.
LEMMA QuietStep ==
  ASSUME SessionTypes,
         \/ Tick \/ TimerFires \/ ReadLine \/ ReadEnds \/ TakeSignal \/ TakeError
         \/ TakeTimeout \/ HandleInitialized \/ HandleAnswer \/ HandleShutdown
  PROVE  SessionTypes' /\ UNCHANGED storeVars /\ contextID' = contextID
  <1>0. MaxClock \in Nat /\ MaxLines \in Nat /\ ChanSize \in Nat
    BY McpBounds
  <1>1. CASE Tick
    BY <1>0, <1>1 DEF Tick, SessionTypes, channelVars, sessionVars, storeVars
  <1>2. CASE TimerFires
    BY <1>2 DEF TimerFires, SessionTypes, channelVars, storeVars
  <1>3. CASE ReadLine
    <2>1. PICK r \in Inputs : msgChan' = Append(msgChan, r)
      BY <1>3 DEF ReadLine
    <2>2. msgChan' \in Seq(Inputs) /\ Len(msgChan') = Len(msgChan) + 1 /\ Len(msgChan) \in Nat
      BY <2>1 DEF SessionTypes
    <2>3. Len(msgChan') <= ChanSize
      BY <1>0, <1>3, <2>2 DEF ReadLine
    <2>4. lines' \in 0 .. MaxLines
      BY <1>0, <1>3 DEF ReadLine, SessionTypes
    <2> QED BY <1>3, <2>2, <2>3, <2>4 DEF ReadLine, SessionTypes, sessionVars, storeVars
  <1>4. CASE ReadEnds
    BY <1>4 DEF ReadEnds, SessionTypes, sessionVars, storeVars
  <1>5. CASE TakeSignal
    BY <1>5 DEF TakeSignal, EndUnlessStarting, SessionTypes, channelVars, storeVars
  <1>6. CASE TakeError
    BY <1>6 DEF TakeError, EndUnlessStarting, SessionTypes, storeVars
  <1>7. CASE TakeTimeout
    BY <1>7 DEF TakeTimeout, SessionTypes, channelVars, storeVars
  <1>8. CASE HandleInitialized
    <2>1. TakeLine("initialized")
      BY <1>8 DEF HandleInitialized
    <2> QED BY <1>8, <2>1, TakeLineStep DEF HandleInitialized, SessionTypes, storeVars
  <1>9. CASE HandleAnswer
    <2>1. TakeLine("answer")
      BY <1>9 DEF HandleAnswer
    <2> QED BY <1>9, <2>1, TakeLineStep DEF HandleAnswer, SessionTypes, storeVars
  <1>10. CASE HandleShutdown
    <2>1. TakeLine("shutdown")
      BY <1>10 DEF HandleShutdown
    <2> QED BY <1>10, <2>1, TakeLineStep DEF HandleShutdown, SessionTypes, storeVars
  <1> QED BY <1>1, <1>2, <1>3, <1>4, <1>5, <1>6, <1>7, <1>8, <1>9, <1>10

\* initialize gives the session a context, or keeps what it has.
LEMMA InitializeStep ==
  ASSUME SessionTypes, HandleInitialize
  PROVE  /\ SessionTypes' /\ UNCHANGED storeVars
         /\ contextID' = contextID \/ contextID' # NoContext
  <1> DEFINE r == Head(msgChan)
  <1>1. TakeLine("initialize")
    BY DEF HandleInitialize
  <1>2. r \in Inputs /\ r.method = "initialize"
    BY <1>1, TakeLineStep
  <1>3. r.contextID \in AnyContext
    BY <1>2, RequestFacts
  <1>4. contextID' \in IF ~r.valid THEN {contextID}
                       ELSE IF r.contextID = NoContext THEN Fresh ELSE {r.contextID}
    BY DEF HandleInitialize
  <1>5. Fresh \subseteq Contexts
    BY InputAssumption DEF Fresh
  <1> HIDE DEF r
  <1>6. NoContext \notin Contexts
    BY StoreAssumption
  <1>7. contextID' \in AnyContext /\ (contextID' = contextID \/ contextID' # NoContext)
    BY <1>3, <1>4, <1>5, <1>6 DEF SessionTypes, AnyContext
  <1> QED BY <1>1, <1>7, TakeLineStep DEF HandleInitialize, SessionTypes

\* store_memory stores in the session's context.
LEMMA ServerStoreStep ==
  ASSUME ServerInv, HandleStoreMemory
  PROVE  ServerInv'
  <1>1. TakeLine("store_memory") /\ SessionTypes /\ StoreTypeOK /\ StoreInv
    BY TypesOfServer DEF HandleStoreMemory, ServerInv
  <1>2. Head(msgChan).content \in SUBSET Texts
    BY <1>1, TakeLineStep, RequestFacts
  <1>3. contextID \in AnyContext /\ clock \in Nat
    BY <1>1, McpBounds DEF SessionTypes
  <1>4. StoreTypeOK' /\ StoreInv' /\ storeContext' = contextID
    BY <1>1, <1>2, <1>3, StoreMemoryStep DEF HandleStoreMemory
  <1>5. SessionTypes' /\ contextID' = contextID
    BY <1>1, TakeLineStep DEF HandleStoreMemory, SessionTypes
  <1>6. SessionInv'
    BY <1>4, <1>5 DEF SessionInv
  <1> QED BY <1>4, <1>5, <1>6, TypesOfServerNext DEF ServerInv

\* Nothing is in an empty store.
LEMMA EmptyStore ==
  ASSUME NEW c
  PROVE  /\ Holds(Nothing, {}) /\ Lists(<<>>, Nothing, c)
         /\ DOMAIN Nothing \subseteq MessageIds /\ \A i \in DOMAIN Nothing : Nothing[i] \in Message
  <1>1. DOMAIN Nothing = {}
    BY DEF Nothing
  <1>2. <<>> \in Seq(MessageIds) /\ DOMAIN <<>> = {}
    OBVIOUS
  <1> QED BY <1>1, <1>2 DEF Holds, Lists

\* A new process begins with what Badger has.
LEMMA RestartStep ==
  ASSUME ServerInv, Restart
  PROVE  ServerInv'
  <1> DEFINE E == [c \in AnyContext |-> <<>>]
  <1>1. /\ lives \in Nat \ {0} /\ lives' = lives + 1
        /\ backend' \in {"badger", "memory"} /\ memory' = Nothing /\ timeIndex' = E
        /\ storeContext' = NoContext /\ db' = db /\ acked' = acked
    BY DEF Restart, Open, ServerInv, ServerTypeOK, StoreTypeOK, AnyContext
  <1>2. \A a \in acked : a.life \in 1 .. lives
    BY DEF ServerInv, ServerTypeOK, StoreTypeOK
  <1>3. acked \subseteq [msg : Message, client : {"badger", "memory"}, life : 1 .. lives']
    <2>1. \A k \in 1 .. lives : k \in 1 .. lives'
      BY <1>1
    <2> QED BY <2>1 DEF ServerInv, ServerTypeOK, StoreTypeOK
  <1>4. MemoryKept' = {}
    <2>1. \A a \in acked : a.life # lives'
      BY <1>1, <1>2
    <2> QED BY <1>1, <2>1 DEF MemoryKept
  <1>5. BadgerKept' = BadgerKept
    BY <1>1 DEF BadgerKept
  <1>6. \A c \in AnyContext : timeIndex'[c] = <<>>
    BY <1>1
  <1>7. timeIndex' \in [AnyContext -> Seq(MessageIds)]
    BY <1>1
  <1> HIDE DEF E
  <1>8. StoreInv'
    <2>1. Holds(db', BadgerKept') /\ Holds(memory', MemoryKept')
      BY <1>1, <1>4, <1>5, EmptyStore DEF ServerInv, StoreInv
    <2>2. \A c \in AnyContext : Lists(timeIndex'[c], memory', c)
      BY <1>1, <1>6, EmptyStore
    <2>3. \A a \in acked' : a.msg.type = MemoryType
      BY <1>1 DEF ServerInv, StoreInv
    <2> QED BY <2>1, <2>2, <2>3 DEF StoreInv
  <1>9. StoreTypeOK'
    <2>1. DOMAIN memory' \subseteq MessageIds /\ \A i \in DOMAIN memory' : memory'[i] \in Message
      BY <1>1, EmptyStore
    <2>2. DOMAIN db' \subseteq MessageIds /\ \A i \in DOMAIN db' : db'[i] \in Message
      BY <1>1 DEF ServerInv, ServerTypeOK, StoreTypeOK
    <2> QED BY <1>1, <1>3, <1>7, <2>1, <2>2 DEF StoreTypeOK, AnyContext
  <1>10. SessionTypes' /\ SessionInv'
    <2>1. SessionTypes
      BY TypesOfServer DEF ServerInv
    <2>2. msgChan' = <<>> /\ msgChan' \in Seq(Inputs) /\ Len(msgChan') <= ChanSize
      BY McpBounds DEF Restart
    <2>3. SessionTypes'
      BY <2>1, <2>2 DEF Restart, SessionTypes, AnyContext
    <2> QED BY <1>1, <2>3 DEF SessionInv
  <1> QED BY <1>8, <1>9, <1>10, TypesOfServerNext DEF ServerInv

\* The invariant holds at the start.
LEMMA ServerInitInv == ServerInit => ServerInv
  <1> SUFFICES ASSUME ServerInit PROVE ServerInv
    OBVIOUS
  <1>1. /\ backend \in {"badger", "memory"} /\ db = Nothing /\ memory = Nothing /\ acked = {}
        /\ timeIndex = [c \in AnyContext |-> <<>>] /\ storeContext = NoContext /\ lives = 1
    BY DEF ServerInit, StoreInit, AnyContext
  <1>2. BadgerKept = {} /\ MemoryKept = {}
    BY <1>1 DEF BadgerKept, MemoryKept
  <1>3. StoreInv
    <2>1. Holds(db, BadgerKept) /\ Holds(memory, MemoryKept)
      BY <1>1, <1>2, EmptyStore
    <2>2. \A c \in AnyContext : timeIndex[c] = <<>>
      BY <1>1
    <2>3. \A c \in AnyContext : Lists(timeIndex[c], memory, c)
      BY <1>1, <2>2, EmptyStore
    <2> QED BY <1>1, <2>1, <2>3 DEF StoreInv
  <1>4. StoreTypeOK
    <2>1. timeIndex \in [AnyContext -> Seq(MessageIds)]
      BY <1>1
    <2>2. /\ DOMAIN db \subseteq MessageIds /\ \A i \in DOMAIN db : db[i] \in Message
          /\ DOMAIN memory \subseteq MessageIds /\ \A i \in DOMAIN memory : memory[i] \in Message
      BY <1>1, EmptyStore
    <2> QED BY <1>1, <2>1, <2>2 DEF StoreTypeOK, AnyContext
  <1>5. SessionTypes
    <2>1. MaxClock \in Nat /\ MaxLines \in Nat /\ ChanSize \in Nat
      BY McpBounds
    <2>2. clock \in 0 .. MaxClock /\ lines \in 0 .. MaxLines /\ settled \in Nat
      BY <2>1 DEF ServerInit
    <2>3. msgChan \in Seq(Inputs) /\ Len(msgChan) <= ChanSize
      BY <2>1 DEF ServerInit
    <2> QED BY <2>2, <2>3 DEF ServerInit, SessionTypes, AnyContext
  <1>6. SessionInv
    BY <1>1 DEF SessionInv
  <1> QED BY <1>3, <1>4, <1>5, <1>6, TypesOfServer DEF ServerInv

\* Every step preserves it.
LEMMA ServerNextInv == ServerInv /\ [ServerNext]_serverVars => ServerInv'
  <1> SUFFICES ASSUME ServerInv, [ServerNext]_serverVars PROVE ServerInv'
    OBVIOUS
  <1>0. SessionTypes /\ StoreTypeOK /\ StoreInv
    BY TypesOfServer DEF ServerInv
  <1>1. ASSUME SessionTypes', UNCHANGED storeVars, contextID' = contextID \/ contextID' # NoContext
        PROVE  ServerInv'
    <2>1. StoreTypeOK' /\ StoreInv'
      BY <1>0, <1>1, SameStore
    <2>2. storeContext' = storeContext
      BY <1>1 DEF storeVars
    <2>3. SessionInv'
      BY <1>1, <2>2 DEF SessionInv, ServerInv
    <2> QED BY <1>1, <2>1, <2>3, TypesOfServerNext DEF ServerInv
  <1>2. CASE UNCHANGED serverVars
    <2>1. SessionTypes'
      BY <1>0, <1>2 DEF serverVars, channelVars, sessionVars, SessionTypes
    <2>2. UNCHANGED storeVars /\ contextID' = contextID
      BY <1>2 DEF serverVars, sessionVars
    <2> QED BY <1>1, <2>1, <2>2
  <1>3. CASE \/ Tick \/ TimerFires \/ ReadLine \/ ReadEnds \/ TakeSignal \/ TakeError
             \/ TakeTimeout \/ HandleInitialized \/ HandleAnswer \/ HandleShutdown
    BY <1>0, <1>1, <1>3, QuietStep
  <1>4. CASE HandleInitialize
    BY <1>0, <1>1, <1>4, InitializeStep
  <1>5. CASE HandleStoreMemory
    BY <1>5, ServerStoreStep
  <1>6. CASE Restart
    BY <1>6, RestartStep
  <1> QED BY <1>2, <1>3, <1>4, <1>5, <1>6 DEF ServerNext, SelectStep

----------------------------------------------------------------------------
\* What the queries return

\* The length of the first n of c.
Lesser(n, c) == Min({n, c})

\* The lesser of two numbers.
LEMMA LesserFacts ==
  ASSUME NEW n \in Nat, NEW c \in Nat
  PROVE  /\ Lesser(n, c) \in Nat /\ Lesser(n, c) <= n /\ Lesser(n, c) <= c
         /\ Lesser(n, c) = n \/ Lesser(n, c) = c
  <1>1. Lesser(n, c) = IF n <= c THEN n ELSE c
    BY MinMaxTwo DEF Lesser
  <1> QED BY <1>1

\* The beginning of a sequence.
LEMMA BeginningFacts ==
  ASSUME NEW T, NEW s \in Seq(T), NEW m \in Nat, m <= Len(s)
  PROVE  /\ SubSeq(s, 1, m) \in Seq(T) /\ Len(SubSeq(s, 1, m)) = m
         /\ \A k \in 1..m : SubSeq(s, 1, m)[k] = s[k]
  <1>5. \A k \in 1..m : s[k] \in T
    OBVIOUS
  <1>6. /\ SubSeq(s, 1, m) \in Seq(T)
        /\ Len(SubSeq(s, 1, m)) = IF 1 <= m THEN m - 1 + 1 ELSE 0
        /\ \A k \in 1..(m - 1 + 1) : SubSeq(s, 1, m)[k] = s[1 + k - 1]
    BY <1>5, SubSeqProperties
  <1>7. Len(SubSeq(s, 1, m)) = m
    BY <1>6
  <1>8. \A k \in 1..m : SubSeq(s, 1, m)[k] = s[k]
    <2> SUFFICES ASSUME NEW k \in 1..m PROVE SubSeq(s, 1, m)[k] = s[k]
      OBVIOUS
    <2>1. k \in 1..(m - 1 + 1) /\ 1 + k - 1 = k
      OBVIOUS
    <2> QED BY <1>6, <2>1, Zenon
  <1> QED BY <1>6, <1>7, <1>8, Zenon

\* The first elements of a sequence.
LEMMA FirstFacts ==
  ASSUME NEW T, NEW s \in Seq(T), NEW n \in Nat, NEW c, c = Len(s), NEW m, m = Lesser(n, c)
  PROVE  /\ m \in Nat /\ m <= c
         /\ First(n, s) \in Seq(T) /\ Len(First(n, s)) = m
         /\ \A k \in 1..m : First(n, s)[k] = s[k]
  <1>1. c \in Nat
    OBVIOUS
  <1>2. m \in Nat /\ m <= c
    BY <1>1, LesserFacts
  <1>3. First(n, s) = SubSeq(s, 1, m)
    BY DEF First, Lesser
  <1> QED BY <1>2, <1>3, BeginningFacts

\* A sequence without repetition has as many elements as its length says.
LEMMA DistinctCount ==
  ASSUME NEW m \in Nat, NEW r, DOMAIN r = 1..m, \A k, l \in 1..m : r[k] = r[l] => k = l
  PROVE  IsFiniteSet(ToSet(r)) /\ Cardinality(ToSet(r)) = m
  <1> DEFINE f == [k \in 1..m |-> r[k]]
             T == ToSet(r)
  <1>1. f \in [1..m -> T] /\ (\A k, l \in 1..m : f[k] = f[l] => k = l)
        /\ \A x \in T : \E k \in 1..m : f[k] = x
    BY DEF ToSet
  <1>2. IsFiniteSet(1..m) /\ Cardinality(1..m) = m
    BY FS_Interval
  <1> HIDE DEF f, T
  <1>3. f \in Bijection(1..m, T)
    BY <1>1, Fun_IsBij
  <1>4. ExistsBijection(1..m, T)
    BY <1>3 DEF ExistsBijection
  <1>5. IsFiniteSet(T) /\ Cardinality(T) = m
    BY <1>2, <1>4, FS_Bijection
  <1> QED BY <1>5 DEF T

\* The hits of H are the messages of S, each once.
Represents(H, S) ==
  /\ IsFiniteSet(H)
  /\ \A h \in H : Stored[h[2]] \in S
  /\ \A m \in S : \E h \in H : Stored[h[2]] = m
  /\ \A g, h \in H : Stored[g[2]] = Stored[h[2]] => g = h

\* There are as many messages as hits.
LEMMA RepresentsCount ==
  ASSUME NEW H, NEW S, Represents(H, S)
  PROVE  /\ IsFiniteSet(S) /\ Cardinality(S) = Cardinality(H) /\ Cardinality(S) \in Nat
  <1> DEFINE f == [h \in H |-> Stored[h[2]]]
  <1>1. f \in [H -> S] /\ (\A g, h \in H : f[g] = f[h] => g = h)
        /\ \A x \in S : \E h \in H : f[h] = x
    BY DEF Represents
  <1>2. IsFiniteSet(H)
    BY DEF Represents
  <1> HIDE DEF f
  <1>3. f \in Bijection(H, S)
    BY <1>1, Fun_IsBij
  <1>4. ExistsBijection(H, S)
    BY <1>3 DEF ExistsBijection
  <1> QED BY <1>2, <1>4, FS_Bijection, FS_CardinalityType

\* r are the first m messages of the c that the iteration s of H passes.
Begins(r, m, s, c, H, S) ==
  /\ c \in Nat /\ m \in Nat /\ m <= c
  /\ r \in Seq(S) /\ Len(r) = m /\ DOMAIN r = 1..m
  /\ \A k \in 1..m : s[k] \in H /\ r[k] = Stored[s[k][2]]
  /\ \A k, l \in 1..m : r[k] = r[l] => k = l
  /\ \A x \in S \ ToSet(r) : \E k \in (m + 1)..c : s[k] \in H /\ x = Stored[s[k][2]]

\* The messages of the first hits are a beginning.
LEMMA FirstMessages ==
  ASSUME NEW H, NEW S, Represents(H, S), NEW s \in SetToSeqs(H), NEW n \in Nat,
         NEW c, c = Cardinality(S), NEW m, m = Lesser(n, c), NEW r, r = Messages(First(n, s))
  PROVE  Begins(r, m, s, c, H, S)
  <1>1. PICK f : f = First(n, s)
    OBVIOUS
  <1>2. IsFiniteSet(H) /\ c = Cardinality(H) /\ c \in Nat
    BY RepresentsCount DEF Represents
  <1>3. /\ s \in Seq(H) /\ Len(s) = c
        /\ \A k \in 1..c : s[k] \in H
        /\ \A k, l \in 1..c : s[k] = s[l] => k = l
        /\ \A x \in H : \E k \in 1..c : s[k] = x
    BY <1>2, EnumerationFacts
  <1>5. /\ m \in Nat /\ m <= c
        /\ f \in Seq(H) /\ Len(f) = m
        /\ \A k \in 1..m : f[k] = s[k]
    BY <1>1, <1>3, FirstFacts
  <1>6. DOMAIN f = 1..m
    BY <1>5
  <1>7. DOMAIN r = 1..m /\ \A k \in 1..m : r[k] = Stored[s[k][2]]
    <2>1. r = [k \in 1..m |-> Stored[f[k][2]]]
      BY <1>1, <1>6, Zenon DEF Messages
    <2> QED BY <1>5, <2>1
  <1>8. r = [k \in 1..m |-> r[k]]
    BY <1>1, <1>6, Zenon DEF Messages
  <1>9. \A k \in 1..m : k \in 1..c
    BY <1>2, <1>5
  <1>10. \A k \in 1..m : s[k] \in H
    BY <1>3, <1>9, Zenon
  <1>11. \A k \in 1..m : r[k] \in S
    BY <1>7, <1>10, Zenon DEF Represents
  <1>12. r \in [1..m -> S]
    BY <1>8, <1>11, Zenon
  <1>13. r \in Seq(S) /\ Len(r) = m
    BY <1>5, <1>12
  <1>14. \A k, l \in 1..m : r[k] = r[l] => k = l
    <2> SUFFICES ASSUME NEW k \in 1..m, NEW l \in 1..m, r[k] = r[l] PROVE k = l
      OBVIOUS
    <2>1. Stored[s[k][2]] = Stored[s[l][2]]
      BY <1>7, Zenon
    <2>2. s[k] \in H /\ s[l] \in H
      BY <1>10, Zenon
    <2>3. \A g, h \in H : Stored[g[2]] = Stored[h[2]] => g = h
      BY DEF Represents
    <2>4. s[k] = s[l]
      BY <2>1, <2>2, <2>3, Zenon
    <2> QED BY <1>3, <1>9, <2>4, Zenon
  <1>15. ASSUME NEW x \in S \ ToSet(r)
         PROVE  \E k \in (m + 1)..c : s[k] \in H /\ x = Stored[s[k][2]]
    <2>1. PICK h \in H : Stored[h[2]] = x
      BY DEF Represents
    <2>2. PICK k \in 1..c : s[k] = h
      BY <1>3
    <2>3. k \notin 1..m
      BY <1>7, <2>1, <2>2 DEF ToSet
    <2>4. k \in (m + 1)..c
      BY <1>2, <1>5, <2>3
    <2> QED BY <2>1, <2>2, <2>4
  <1> QED BY <1>2, <1>5, <1>7, <1>10, <1>13, <1>14, <1>15, Zenon DEF Begins

\* The order of the hits is that of time.
ByAge(H) == \A g, h \in H : Before(g, h) => Stored[g[2]].timestamp >= Stored[h[2]].timestamp

\* Where hits come by age, the first ones are the newest messages.
LEMMA FirstAreNewest ==
  ASSUME NEW H, NEW S, Represents(H, S), ByAge(H), NEW s \in Passes(H), NEW n \in Nat
  PROVE  Newest(n, S, Messages(First(n, s)))
  <1>1. PICK r : r = Messages(First(n, s))
    OBVIOUS
  <1>2. PICK c, m : c = Cardinality(S) /\ m = Lesser(n, c)
    OBVIOUS
  <1>3. s \in SetToSeqs(H) /\ \A k, l \in DOMAIN s : k < l => Before(s[k], s[l])
    BY DEF Passes
  <1>4. Begins(r, m, s, c, H, S)
    BY <1>1, <1>2, <1>3, FirstMessages
  <1>5. DOMAIN s = 1..c
    <2>1. IsFiniteSet(H) /\ c = Cardinality(H)
      BY <1>2, RepresentsCount DEF Represents
    <2> QED BY <1>3, <2>1, EnumerationFacts
  <1>7. \A k, l \in 1..c : k < l /\ s[k] \in H /\ s[l] \in H =>
           Stored[s[k][2]].timestamp >= Stored[s[l][2]].timestamp
    BY <1>3, <1>5 DEF ByAge
  <1>8. ToSet(r) \subseteq S
    BY <1>4 DEF ToSet, Begins
  <1>9. Cardinality(ToSet(r)) = Len(r)
    BY <1>4, DistinctCount DEF Begins
  <1>10. \A k, l \in DOMAIN r : k < l => r[k].timestamp >= r[l].timestamp
    <2>1. \A k \in 1..m : k \in 1..c
      BY <1>4 DEF Begins
    <2> QED BY <1>4, <1>7, <2>1 DEF Begins
  <1>11. ASSUME NEW x \in S \ ToSet(r), NEW k \in DOMAIN r
         PROVE  r[k].timestamp >= x.timestamp
    <2>1. PICK l \in (m + 1)..c : s[l] \in H /\ x = Stored[s[l][2]]
      BY <1>4 DEF Begins
    <2>2. k \in 1..c /\ l \in 1..c /\ k < l
      BY <1>4 DEF Begins
    <2> QED BY <1>4, <1>7, <2>1, <2>2 DEF Begins
  <1>12. Newest(n, S, r)
    BY <1>2, <1>4, <1>8, <1>9, <1>10, <1>11, Zenon DEF Newest, Lesser, Begins
  <1> QED BY <1>1, <1>12

----------------------------------------------------------------------------
\* The hits of a query

\* The open client has what the clients were told is kept.
LEMMA KeptHeld ==
  ASSUME ServerInv
  PROVE  Holds(Stored, Kept)
  <1>1. CASE backend = "badger"
    <2>1. Kept = BadgerKept /\ Stored = db
      BY <1>1 DEF Kept, BadgerKept, Stored
    <2> QED BY <2>1 DEF ServerInv, StoreInv
  <1>2. CASE backend = "memory"
    <2>1. Kept = MemoryKept /\ Stored = memory
      BY <1>2 DEF Kept, MemoryKept, Stored
    <2> QED BY <2>1 DEF ServerInv, StoreInv
  <1> QED BY <1>1, <1>2 DEF ServerInv, ServerTypeOK, StoreTypeOK

\* All messages are memories.
LEMMA KeptAreMemories ==
  ASSUME ServerInv
  PROVE  \A m \in Kept : m.type = MemoryType
  BY DEF Kept, ServerInv, StoreInv

\* The tools ask in the session's context.
LEMMA OwnContext ==
  ASSUME ServerInv
  PROVE  ContextOr(contextID) = contextID /\ contextID \in AnyContext
  BY DEF ServerInv, SessionInv, ContextOr, ServerTypeOK, AnyContext

AskedTypes(types) == types \in {<<>>} \cup {<<t>> : t \in Types}

OfType(m, types) == types = <<>> \/ m.type \in ToSet(types)

\* The part of the iteration in which a message is met.
Part(types) == IF types = <<>> THEN 0 ELSE 1

\* No type or one is asked for.
LEMMA TypesForm ==
  ASSUME NEW types, AskedTypes(types)
  PROVE  \/ types = <<>> /\ DOMAIN types = {}
         \/ /\ types # <<>> /\ DOMAIN types = {1} /\ ToSet(types) = {types[1]}
            /\ types[1] \in Types
  <1>1. CASE types = <<>>
    BY <1>1
  <1>2. CASE \E t \in Types : types = <<t>>
    <2>1. PICK t \in Types : types = <<t>>
      BY <1>2
    <2>2. types # <<>> /\ DOMAIN types = {1} /\ types[1] = t
      BY <2>1
    <2>3. ToSet(types) = {types[1]}
      BY <2>2, Zenon DEF ToSet
    <2> QED BY <2>2, <2>3
  <1> QED BY <1>1, <1>2 DEF AskedTypes

\* The messages of a context and of the types that are asked for.
Asked(c, types) == {i \in DOMAIN Stored : Stored[i].contextID = c /\ OfType(Stored[i], types)}

\* The hits that are looked up in a context.
LEMMA InContextForm ==
  ASSUME NEW types, AskedTypes(types), NEW c
  PROVE  \A h : h \in InContext(c, types) <=> \E i \in Asked(c, types) : h = <<Part(types), i>>
  <1>1. CASE types = <<>> /\ DOMAIN types = {}
    <2>1. InContext(c, types) = {h \in {0} \X (DOMAIN Stored) : Stored[h[2]].contextID = c /\ h[1] = 0}
      BY <1>1 DEF InContext
    <2>2. Asked(c, types) = {i \in DOMAIN Stored : Stored[i].contextID = c}
      BY <1>1 DEF Asked, OfType
    <2> QED BY <1>1, <2>1, <2>2 DEF Part
  <1>2. CASE types # <<>> /\ DOMAIN types = {1} /\ ToSet(types) = {types[1]}
    <2>1. InContext(c, types) = {h \in {0, 1} \X (DOMAIN Stored) :
             Stored[h[2]].contextID = c /\ h[1] # 0 /\ Stored[h[2]].type = types[h[1]]}
      <3>1. DOMAIN types \cup {0} = {0, 1}
        BY <1>2
      <3> QED BY <1>2, <3>1 DEF InContext
    <2>2. Asked(c, types) = {i \in DOMAIN Stored : Stored[i].contextID = c /\ Stored[i].type = types[1]}
      BY <1>2 DEF Asked, OfType
    <2> QED BY <1>2, <2>1, <2>2 DEF Part
  <1> QED BY <1>1, <1>2, TypesForm

\* Hits are pairs of a part and an ID.
PairsOf(H) == \A h \in H : h[1] \in Nat /\ h[2] \in DOMAIN Stored /\ h = <<h[1], h[2]>>

\* The visible messages of the types that are asked for.
VisibleOf(types) == {m \in Visible : OfType(m, types)}

\* Where types are looked up, or Badger iterates, the hits are the visible messages.
LEMMA ContextHits ==
  ASSUME ServerInv, NEW types, AskedTypes(types),
         ~(backend = "badger" /\ contextID \in WithColon)
  PROVE  /\ Represents(InContext(contextID, types), VisibleOf(types))
         /\ PairsOf(InContext(contextID, types))
         /\ backend = "badger" => ByAge(InContext(contextID, types))
  <1>1. PICK H : H = InContext(contextID, types)
    OBVIOUS
  <1>2. PICK J : J = Asked(contextID, types)
    OBVIOUS
  <1>3. PICK p \in Nat : p = Part(types)
    BY DEF Part
  <1>4. \A h : h \in H <=> \E i \in J : h = <<p, i>>
    BY <1>1, <1>2, <1>3, InContextForm
  <1>5. \A h \in H : h[1] = p /\ h[2] \in J /\ h = <<h[1], h[2]>>
    BY <1>4
  <1>6. \A i \in J : \E h \in H : h[2] = i
    <2> SUFFICES ASSUME NEW i \in J PROVE \E h \in H : h[2] = i
      OBVIOUS
    <2>1. <<p, i>> \in H /\ <<p, i>>[2] = i
      BY <1>4
    <2> QED BY <2>1
  <1>7. Holds(Stored, Kept)
    BY KeptHeld
  <1>8. J \subseteq DOMAIN Stored /\ \A i \in J : Stored[i].id = i
    BY <1>2, <1>7 DEF Asked, Holds
  <1>9. \A i \in J : Stored[i] \in VisibleOf(types)
    BY <1>2, <1>7 DEF Asked, Holds, VisibleOf, Visible
  <1>10. \A m \in VisibleOf(types) : m.id \in J /\ Stored[m.id] = m
    BY <1>2, <1>7 DEF Asked, Holds, VisibleOf, Visible
  <1>11. IsFiniteSet(H)
    <2>1. IsFiniteSet(J)
      <3>1. J \in SUBSET MessageIds
        BY <1>7, <1>8 DEF Holds
      <3> QED BY <3>1, StoreAssumption, FS_Subset
    <2> DEFINE f == [i \in J |-> <<p, i>>]
    <2>2. DOMAIN f = J /\ \A h \in H : \E i \in J : h = f[i]
      BY <1>4
    <2> HIDE DEF f
    <2> QED BY <2>1, <2>2, FiniteImage
  <1>12. Represents(H, VisibleOf(types))
    <2>1. \A h \in H : Stored[h[2]] \in VisibleOf(types)
      BY <1>5, <1>9
    <2>2. \A m \in VisibleOf(types) : \E h \in H : Stored[h[2]] = m
      BY <1>6, <1>10
    <2>3. ASSUME NEW g \in H, NEW h \in H, Stored[g[2]] = Stored[h[2]] PROVE g = h
      <3>1. g[2] = h[2]
        BY <1>5, <1>8, <2>3
      <3> QED BY <1>5, <3>1
    <2> QED BY <1>11, <2>1, <2>2, <2>3 DEF Represents
  <1>13. PairsOf(H)
    BY <1>5, <1>8 DEF PairsOf
  <1>14. ASSUME backend = "badger" PROVE ByAge(H)
    <2>1. Stored = db
      BY <1>14 DEF Stored
    <2>2. \A i \in J : db[i].timestamp \in Nat
      BY <1>7, <1>8, <2>1 DEF Holds, Message
    <2>3. ASSUME NEW g \in H, NEW h \in H, Before(g, h)
          PROVE  db[g[2]].timestamp >= db[h[2]].timestamp
      <3>1. ~(g[1] < h[1])
        BY <1>5
      <3>2. \/ db[g[2]].timestamp > db[h[2]].timestamp
            \/ db[g[2]].timestamp = db[h[2]].timestamp /\ g[2] > h[2]
        BY <1>14, <2>3, <3>1 DEF Before
      <3>3. db[g[2]].timestamp \in Nat /\ db[h[2]].timestamp \in Nat
        BY <1>5, <2>2
      <3> QED BY <3>2, <3>3
    <2> QED BY <2>1, <2>3 DEF ByAge
  <1> QED BY <1>1, <1>12, <1>13, <1>14

\* Without types the client in memory goes along its sorted index.
LEMMA IndexHits ==
  ASSUME ServerInv, backend = "memory"
  PROVE  /\ Represents(HitsInMemory(contextID, <<>>), VisibleOf(<<>>))
         /\ PairsOf(HitsInMemory(contextID, <<>>))
         /\ ByAge(HitsInMemory(contextID, <<>>))
  <1>1. PICK ids : ids = timeIndex[contextID]
    OBVIOUS
  <1>2. PICK H : H = {<<k, ids[k]>> : k \in DOMAIN ids}
    OBVIOUS
  <1>3. HitsInMemory(contextID, <<>>) = H
    BY <1>1, <1>2 DEF HitsInMemory
  <1>4. Stored = memory
    BY DEF Stored
  <1>5. Lists(ids, Stored, contextID)
    BY <1>1, <1>4, OwnContext DEF ServerInv, StoreInv
  <1>6. Holds(Stored, Kept)
    BY KeptHeld
  <1>7. PICK n \in Nat : DOMAIN ids = 1..n
    BY <1>5 DEF Lists
  <1>8. \A h \in H : h[1] \in 1..n /\ h[2] = ids[h[1]] /\ h = <<h[1], h[2]>>
    BY <1>2, <1>7
  <1>9. \A k \in 1..n : \E h \in H : h[1] = k /\ h[2] = ids[k]
    <2> SUFFICES ASSUME NEW k \in 1..n PROVE \E h \in H : h[1] = k /\ h[2] = ids[k]
      OBVIOUS
    <2>1. <<k, ids[k]>> \in H /\ <<k, ids[k]>>[1] = k /\ <<k, ids[k]>>[2] = ids[k]
      BY <1>2, <1>7
    <2> QED BY <2>1
  <1>10. \A k \in 1..n : /\ ids[k] \in DOMAIN Stored
                         /\ Stored[ids[k]].contextID = contextID /\ Stored[ids[k]].timestamp \in Nat
                         /\ Stored[ids[k]].id = ids[k] /\ Stored[ids[k]] \in Kept
    BY <1>5, <1>6, <1>7 DEF Lists, Holds, Message
  <1>11. VisibleOf(<<>>) = {m \in Kept : m.contextID = contextID}
    BY DEF VisibleOf, Visible, OfType
  <1>12. IsFiniteSet(H)
    <2>1. IsFiniteSet(1..n)
      BY FS_Interval
    <2> DEFINE f == [k \in 1..n |-> <<k, ids[k]>>]
    <2>2. DOMAIN f = 1..n /\ \A h \in H : \E k \in 1..n : h = f[k]
      BY <1>2, <1>7
    <2> HIDE DEF f
    <2> QED BY <2>1, <2>2, FiniteImage
  <1>13. Represents(H, VisibleOf(<<>>))
    <2>1. \A h \in H : Stored[h[2]] \in VisibleOf(<<>>)
      BY <1>8, <1>10, <1>11
    <2>2. ASSUME NEW m \in VisibleOf(<<>>) PROVE \E h \in H : Stored[h[2]] = m
      <3>1. m.id \in DOMAIN Stored /\ Stored[m.id] = m /\ m.contextID = contextID
        BY <1>6, <1>11 DEF Holds
      <3>2. PICK k \in 1..n : ids[k] = m.id
        BY <1>5, <1>7, <3>1 DEF Lists
      <3> QED BY <1>9, <3>1, <3>2
    <2>3. ASSUME NEW g \in H, NEW h \in H, Stored[g[2]] = Stored[h[2]] PROVE g = h
      <3>1. g[2] = h[2]
        BY <1>8, <1>10, <2>3
      <3>2. g[1] = h[1]
        BY <1>5, <1>7, <1>8, <3>1 DEF Lists
      <3> QED BY <1>8, <3>1, <3>2
    <2> QED BY <1>12, <2>1, <2>2, <2>3 DEF Represents
  <1>14. PairsOf(H)
    BY <1>8, <1>10 DEF PairsOf
  <1>15. ByAge(H)
    <2> SUFFICES ASSUME NEW g \in H, NEW h \in H, Before(g, h)
                 PROVE  Stored[g[2]].timestamp >= Stored[h[2]].timestamp
      BY DEF ByAge
    <2>1. g[1] < h[1] \/ g[1] = h[1]
      BY DEF Before
    <2>2. CASE g[1] < h[1]
      BY <1>5, <1>7, <1>8, <2>2 DEF Lists
    <2>3. CASE g[1] = h[1]
      BY <1>8, <1>10, <2>3
    <2> QED BY <2>1, <2>2, <2>3
  <1> QED BY <1>3, <1>13, <1>14, <1>15

\* The hits of any query of the tools.
LEMMA HitsRepresent ==
  ASSUME ServerInv, NEW types, AskedTypes(types), NEW H, H = Hits(contextID, types)
  PROVE  /\ Represents(H, VisibleOf(types)) /\ PairsOf(H)
         /\ backend = "badger" \/ types = <<>> => ByAge(H)
  <1>0. backend \in {"badger", "memory"}
    BY DEF ServerInv, ServerTypeOK, StoreTypeOK
  <1>1. CASE backend = "badger" /\ contextID \in WithColon
    <2>1. H = {} /\ VisibleOf(types) = {}
      BY <1>1 DEF Hits, HitsInBadger, VisibleOf, Visible
    <2> QED BY <2>1, FS_EmptySet DEF Represents, PairsOf, ByAge
  <1>2. CASE backend = "badger" /\ contextID \notin WithColon
    <2>1. H = InContext(contextID, types)
      BY <1>2 DEF Hits, HitsInBadger
    <2> QED BY <1>2, <2>1, ContextHits
  <1>3. CASE backend = "memory" /\ types # <<>>
    <2>1. H = InContext(contextID, types)
      BY <1>3 DEF Hits, HitsInMemory
    <2> QED BY <1>3, <2>1, ContextHits
  <1>4. CASE backend = "memory" /\ types = <<>>
    <2>1. H = HitsInMemory(contextID, <<>>)
      BY <1>4 DEF Hits
    <2> QED BY <1>4, <2>1, IndexHits
  <1> QED BY <1>0, <1>1, <1>2, <1>3, <1>4

\* The hits that a text is found in.
HitsWith(query, H) == {h \in H : query \in Stored[h[2]].content}

MessagesWith(query, S) == {m \in S : query \in m.content}

\* H stands for S one to one, and for badger, or without types, in the order of age.
StandsFor(H, S, types) ==
  Represents(H, S) /\ PairsOf(H) /\ (backend = "badger" \/ types = <<>> => ByAge(H))

\* The hits that match stand for the messages that match.
LEMMA MatchesRepresent ==
  ASSUME NEW query, NEW types, NEW H, NEW S, StandsFor(H, S, types),
         NEW M, M = HitsWith(query, H), NEW T, T = MessagesWith(query, S)
  PROVE  StandsFor(M, T, types)
  <1>0. Represents(H, S) /\ PairsOf(H)
    BY DEF StandsFor
  <1>1. M \in SUBSET H
    BY DEF HitsWith
  <1>2. IsFiniteSet(M)
    BY <1>0, <1>1, FS_Subset DEF Represents
  <1>3. \A h \in M : Stored[h[2]] \in T
    BY <1>0 DEF Represents, HitsWith, MessagesWith
  <1>4. \A m \in T : \E h \in M : Stored[h[2]] = m
    BY <1>0 DEF Represents, HitsWith, MessagesWith
  <1>5. \A g, h \in M : Stored[g[2]] = Stored[h[2]] => g = h
    BY <1>0, <1>1 DEF Represents
  <1>6. Represents(M, T)
    BY <1>2, <1>3, <1>4, <1>5 DEF Represents
  <1>7. PairsOf(M)
    BY <1>0, <1>1 DEF PairsOf
  <1>8. ByAge(H) => ByAge(M)
    BY <1>1 DEF ByAge
  <1> QED BY <1>6, <1>7, <1>8 DEF StandsFor

\* The order by part, then by d, then by ID.
PartOrder(H, d) ==
  {p \in H \X H : \/ p[1][1] < p[2][1]
                  \/ /\ p[1][1] = p[2][1]
                     /\ d[p[1]] > d[p[2]] \/ (d[p[1]] = d[p[2]] /\ p[1][2] > p[2][2])}

\* It is a strict total order.
LEMMA PartOrderStrict ==
  ASSUME NEW H, NEW d, \A h \in H : h[1] \in Int /\ h[2] \in Int /\ d[h] \in Int /\ h = <<h[1], h[2]>>
  PROVE  StrictOrder(H, PartOrder(H, d))
  <1>1. \A g, h \in H : <<g, h>> \in PartOrder(H, d) <=>
           \/ g[1] < h[1]
           \/ g[1] = h[1] /\ (d[g] > d[h] \/ (d[g] = d[h] /\ g[2] > h[2]))
    BY DEF PartOrder
  <1>2. \A x \in H : <<x, x>> \notin PartOrder(H, d)
    BY <1>1
  <1>3. \A x, y \in H : x = y \/ <<x, y>> \in PartOrder(H, d) \/ <<y, x>> \in PartOrder(H, d)
    <2> SUFFICES ASSUME NEW x \in H, NEW y \in H, x # y
                 PROVE  <<x, y>> \in PartOrder(H, d) \/ <<y, x>> \in PartOrder(H, d)
      OBVIOUS
    <2>1. x[1] # y[1] \/ x[2] # y[2]
      OBVIOUS
    <2>2. x[1] \in Int /\ x[2] \in Int /\ d[x] \in Int /\ y[1] \in Int /\ y[2] \in Int /\ d[y] \in Int
      OBVIOUS
    <2> QED BY <1>1, <2>1, <2>2
  <1>4. \A x, y, z \in H : <<x, y>> \in PartOrder(H, d) /\ <<y, z>> \in PartOrder(H, d)
                             => <<x, z>> \in PartOrder(H, d)
    BY <1>1
  <1> QED BY <1>2, <1>3, <1>4 DEF StrictOrder

\* An iteration passes its hits in some order.
LEMMA PassExists ==
  ASSUME ServerInv, NEW H, IsFiniteSet(H), PairsOf(H)
  PROVE  \E s : s \in Passes(H)
  <1> DEFINE d == [h \in H |-> IF backend = "badger" THEN db[h[2]].timestamp ELSE 0]
             R == PartOrder(H, d)
  <1>1. Holds(Stored, Kept)
    BY KeptHeld
  <1>2. \A i \in DOMAIN Stored : i \in Int /\ Stored[i].timestamp \in Int
    <2> SUFFICES ASSUME NEW i \in DOMAIN Stored PROVE i \in Int /\ Stored[i].timestamp \in Int
      OBVIOUS
    <2>1. i \in MessageIds /\ Stored[i] \in Message
      BY <1>1 DEF Holds
    <2>2. i \in Nat
      BY <2>1, StoreAssumption
    <2>3. Stored[i].timestamp \in Nat
      BY <2>1 DEF Message
    <2> QED BY <2>2, <2>3
  <1>3. \A h \in H : h[1] \in Int /\ h[2] \in Int /\ d[h] \in Int /\ h = <<h[1], h[2]>>
    <2> SUFFICES ASSUME NEW h \in H
                 PROVE  h[1] \in Int /\ h[2] \in Int /\ d[h] \in Int /\ h = <<h[1], h[2]>>
      OBVIOUS
    <2>1. h[1] \in Int /\ h[2] \in DOMAIN Stored /\ h = <<h[1], h[2]>>
      BY DEF PairsOf
    <2>2. CASE backend = "badger"
      <3>1. Stored = db
        BY <2>2 DEF Stored
      <3> QED BY <1>2, <2>1, <2>2, <3>1
    <2>3. CASE backend # "badger"
      BY <1>2, <2>1, <2>3
    <2> QED BY <2>2, <2>3
  <1>4. \A g, h \in H : <<g, h>> \in R => Before(g, h)
    <2> SUFFICES ASSUME NEW g \in H, NEW h \in H, <<g, h>> \in R PROVE Before(g, h)
      OBVIOUS
    <2>1. \/ g[1] < h[1]
          \/ g[1] = h[1] /\ (d[g] > d[h] \/ (d[g] = d[h] /\ g[2] > h[2]))
      BY DEF PartOrder
    <2> QED BY <2>1 DEF Before
  <1> HIDE DEF d
  <1>5. StrictOrder(H, R)
    BY <1>3, PartOrderStrict
  <1> HIDE DEF R
  <1>6. PICK s \in SetToSeqs(H) : InOrder(s, R)
    BY <1>5, SortedExists
  <1>7. \A k \in DOMAIN s : s[k] \in H
    BY EnumerationFacts
  <1>8. s \in Passes(H)
    BY <1>4, <1>6, <1>7 DEF Passes, InOrder
  <1> QED BY <1>8

\* A limit is a positive number.
LEMMA LimitFacts ==
  ASSUME NEW limit \in Int
  PROVE  Limit(limit) \in Nat \ {0}
  BY StoreAssumption DEF Limit

----------------------------------------------------------------------------
\* The answers of the tools

\* retrieve_memory.
LEMMA RetrieveAnswers == ServerInv => RetrievesKept
  <1> SUFFICES ASSUME ServerInv PROVE RetrievesKept
    OBVIOUS
  <1>0. backend \in {"badger", "memory"}
    BY DEF ServerInv, ServerTypeOK, StoreTypeOK
  <1>1. Holds(Stored, Kept)
    BY KeptHeld
  <1>2. ASSUME backend = "badger"
        PROVE  /\ \A m \in Kept : GetMessage(m.id) = IF storeContext = NoContext \/ storeContext # m.contextID
                                                     THEN {} ELSE {m}
               /\ \A id \in MessageIds : GetMessage(id) \subseteq Kept
    <2>1. Stored = db
      BY <1>2 DEF Stored
    <2>2. \A id : GetMessage(id) = {db[i] : i \in {i \in {id} : FoundInBadger(i)}}
      BY <1>2 DEF GetMessage
    <2>3. \A id : GetMessage(id) = IF FoundInBadger(id) THEN {db[id]} ELSE {}
      BY <2>2
    <2> QED BY <1>1, <2>1, <2>3 DEF FoundInBadger, Holds
  <1>3. ASSUME backend = "memory"
        PROVE  /\ \A m \in Kept : GetMessage(m.id) = {m}
               /\ \A id \in MessageIds : GetMessage(id) \subseteq Kept
    <2>1. Stored = memory
      BY <1>3 DEF Stored
    <2>2. \A id : GetMessage(id) = {memory[i] : i \in {id} \cap DOMAIN memory}
      BY <1>3 DEF GetMessage
    <2> QED BY <1>1, <2>1, <2>2 DEF Holds
  <1> QED BY <1>0, <1>2, <1>3 DEF RetrievesKept

\* Positions in their order.
Increasing(K) == Sorted(K, {p \in K \X K : p[1] < p[2]})

\* o names the c elements of K, the smallest first.
Ascends(o, c, K) ==
  /\ c \in Nat /\ DOMAIN o = 1..c
  /\ \A k \in 1..c : o[k] \in K
  /\ \A x \in K : \E k \in 1..c : o[k] = x
  /\ \A k, l \in 1..c : k < l => o[k] < o[l]

\* Numbers in ascending order.
LEMMA IncreasingFacts ==
  ASSUME NEW K, IsFiniteSet(K), K \in SUBSET Int, NEW c, c = Cardinality(K)
  PROVE  Ascends(Increasing(K), c, K)
  <1>0. PICK o : o = Increasing(K)
    OBVIOUS
  <1>1. PICK R : R = {p \in K \X K : p[1] < p[2]}
    OBVIOUS
  <1>2. \A k, l \in K : <<k, l>> \in R <=> k < l
    BY <1>1
  <1>3. \A k \in K : k \in Int
    OBVIOUS
  <1>4. StrictOrder(K, R)
    BY <1>2, <1>3 DEF StrictOrder
  <1>5. o = Sorted(K, R)
    BY <1>0, <1>1 DEF Increasing
  <1>6. o \in SetToSeqs(K) /\ InOrder(o, R)
    BY <1>4, <1>5, SortedFacts
  <1>7. /\ c \in Nat /\ DOMAIN o = 1..c
        /\ \A k \in 1..c : o[k] \in K
        /\ \A x \in K : \E k \in 1..c : o[k] = x
    BY <1>6, EnumerationFacts
  <1>8. \A k, l \in 1..c : k < l => o[k] < o[l]
    BY <1>2, <1>6, <1>7 DEF InOrder
  <1>9. Ascends(o, c, K)
    BY <1>7, <1>8, Zenon DEF Ascends
  <1> QED BY <1>0, <1>9

\* Taking all positions of an answer in their order changes nothing that matters.
LEMMA RearrangedNewest ==
  ASSUME NEW n, NEW S, NEW c \in Nat, NEW r \in Seq(S), Len(r) = c, Newest(n, S, r),
         NEW o, Ascends(o, c, 1..c), NEW t, t = [k \in 1..c |-> r[o[k]]]
  PROVE  Newest(n, S, t)
  <1>0. /\ \A k \in 1..c : o[k] \in 1..c
        /\ \A x \in 1..c : \E k \in 1..c : o[k] = x
        /\ \A k, l \in 1..c : k < l => o[k] < o[l]
    BY DEF Ascends
  <1>1. DOMAIN r = 1..c /\ \A k \in 1..c : r[k] \in S
    OBVIOUS
  <1>2. DOMAIN t = 1..c /\ \A k \in 1..c : t[k] = r[o[k]]
    OBVIOUS
  <1>3. ToSet(t) = ToSet(r)
    <2>1. ASSUME NEW x \in ToSet(t) PROVE x \in ToSet(r)
      <3>1. PICK k \in 1..c : x = t[k]
        BY <1>2, <2>1 DEF ToSet
      <3>2. x = r[o[k]] /\ o[k] \in DOMAIN r
        BY <1>0, <1>1, <1>2, <3>1
      <3> QED BY <3>2 DEF ToSet
    <2>2. ASSUME NEW x \in ToSet(r) PROVE x \in ToSet(t)
      <3>1. PICK k \in 1..c : x = r[k]
        BY <1>1, <2>2 DEF ToSet
      <3>2. PICK l \in 1..c : o[l] = k
        BY <1>0
      <3>3. x = t[l] /\ l \in DOMAIN t
        BY <1>2, <3>1, <3>2
      <3> QED BY <3>3 DEF ToSet
    <2> QED BY <2>1, <2>2
  <1>4. t \in Seq(S) /\ Len(t) = c
    <2>1. \A k \in 1..c : r[o[k]] \in S
      BY <1>0, <1>1
    <2>2. t \in [1..c -> S]
      BY <2>1, Zenon
    <2> QED BY <2>2
  <1>5. /\ ToSet(r) \subseteq S /\ c = Min({n, Cardinality(S)}) /\ Cardinality(ToSet(r)) = c
        /\ \A k, l \in 1..c : k < l => r[k].timestamp >= r[l].timestamp
        /\ \A m \in S \ ToSet(r) : \A k \in 1..c : r[k].timestamp >= m.timestamp
    BY <1>1, Zenon DEF Newest
  <1>6. \A k, l \in DOMAIN t : k < l => t[k].timestamp >= t[l].timestamp
    <2> SUFFICES ASSUME NEW k \in 1..c, NEW l \in 1..c, k < l PROVE t[k].timestamp >= t[l].timestamp
      BY <1>2, Zenon
    <2>1. o[k] \in 1..c /\ o[l] \in 1..c /\ o[k] < o[l]
      BY <1>0
    <2>2. r[o[k]].timestamp >= r[o[l]].timestamp
      BY <1>5, <2>1, Zenon
    <2> QED BY <1>2, <2>2, Zenon
  <1>7. \A m \in S \ ToSet(t) : \A k \in DOMAIN t : t[k].timestamp >= m.timestamp
    <2> SUFFICES ASSUME NEW m \in S \ ToSet(r), NEW k \in 1..c PROVE t[k].timestamp >= m.timestamp
      BY <1>2, <1>3, Zenon
    <2>1. r[o[k]].timestamp >= m.timestamp
      BY <1>0, <1>5, Zenon
    <2> QED BY <1>2, <2>1, Zenon
  <1> QED BY <1>3, <1>4, <1>5, <1>6, <1>7, Zenon DEF Newest

\* list_recent_messages, for one limit and one choice of types.
LEMMA ListAnswer ==
  ASSUME ServerInv, NEW limit \in 0 .. Cardinality(MessageIds), NEW types, AskedTypes(types),
         NEW S, S = VisibleOf(types)
  PROVE  /\ ListRecentMessages(contextID, limit, types) # {}
         /\ \A r \in ListRecentMessages(contextID, limit, types) : Newest(Limit(limit), S, r)
  <1>0. PICK answers : answers = ListRecentMessages(contextID, limit, types)
    OBVIOUS
  <1>1. PICK n \in Nat : n = Limit(limit)
    <2>1. limit \in Int
      OBVIOUS
    <2> QED BY <2>1, LimitFacts
  <1>2. PICK H : H = Hits(contextID, <<>>)
    OBVIOUS
  <1>3. AskedTypes(<<>>)
    BY DEF AskedTypes
  <1>4. Represents(H, VisibleOf(<<>>)) /\ PairsOf(H) /\ ByAge(H)
    BY <1>2, <1>3, HitsRepresent
  <1>5. answers = {OfTypes(types, Messages(First(n, s))) : s \in Passes(H)}
    BY <1>0, <1>1, <1>2, OwnContext DEF ListRecentMessages, GetRecentMessages
  <1>6. answers # {}
    BY <1>4, <1>5, PassExists DEF Represents
  <1>7. ASSUME NEW s \in Passes(H) PROVE Newest(n, S, OfTypes(types, Messages(First(n, s))))
    <2>1. PICK r : r = Messages(First(n, s))
      OBVIOUS
    <2>2. Newest(n, VisibleOf(<<>>), r)
      BY <1>4, <2>1, FirstAreNewest
    <2>3. PICK c \in Nat : r \in Seq(VisibleOf(<<>>)) /\ Len(r) = c /\ DOMAIN r = 1..c
      <3>1. s \in SetToSeqs(H)
        BY DEF Passes
      <3>2. Begins(r, Lesser(n, Cardinality(VisibleOf(<<>>))), s, Cardinality(VisibleOf(<<>>)), H, VisibleOf(<<>>))
        BY <1>4, <2>1, <3>1, FirstMessages
      <3> QED BY <3>2 DEF Begins
    <2>4. \A m \in Visible : m.type = MemoryType
      BY KeptAreMemories DEF Visible
    <2>5. VisibleOf(<<>>) = Visible
      BY DEF VisibleOf, OfType
    <2>6. \A k \in 1..c : r[k] \in Visible /\ r[k].type = MemoryType
      BY <2>3, <2>4, <2>5
    <2>7. PICK K : K = {k \in DOMAIN r : types = <<>> \/ r[k].type \in ToSet(types)}
      OBVIOUS
    <2>8. PICK o : o = Increasing(K)
      OBVIOUS
    <2>9. OfTypes(types, r) = [k \in DOMAIN o |-> r[o[k]]]
      BY <2>7, <2>8, Zenon DEF OfTypes, Increasing
    <2>10. IsFiniteSet(1..c) /\ Cardinality(1..c) = c /\ 1..c \in SUBSET Int
      BY FS_Interval
    <2>11. K \in SUBSET (1..c)
      BY <2>3, <2>7
    <2>12. CASE types = <<>> \/ MemoryType \in ToSet(types)
      <3>1. K = 1..c
        BY <2>3, <2>6, <2>7, <2>12
      <3>2. S = VisibleOf(<<>>)
        BY <2>4, <2>5, <2>12 DEF VisibleOf, OfType
      <3>3. Ascends(o, c, 1..c)
        BY <2>8, <2>10, <3>1, IncreasingFacts
      <3>4. OfTypes(types, r) = [k \in 1..c |-> r[o[k]]]
        BY <2>9, <3>3, Zenon DEF Ascends
      <3>5. Newest(n, VisibleOf(<<>>), OfTypes(types, r))
        BY <2>2, <2>3, <3>3, <3>4, RearrangedNewest
      <3> QED BY <2>1, <3>2, <3>5, Zenon
    <2>13. CASE ~(types = <<>> \/ MemoryType \in ToSet(types))
      <3>1. K = {}
        BY <2>3, <2>6, <2>7, <2>13
      <3>2. S = {}
        BY <2>4, <2>13 DEF VisibleOf, OfType
      <3>3. Cardinality({}) = 0 /\ IsFiniteSet({})
        BY FS_EmptySet
      <3>4. DOMAIN o = 1..0
        BY <2>8, <3>1, <3>3, IncreasingFacts DEF Ascends
      <3>5. PICK t : t = OfTypes(types, r)
        OBVIOUS
      <3>6. t = <<>>
        <4>1. DOMAIN o = {}
          BY <3>4
        <4>2. t = [k \in {} |-> r[o[k]]]
          BY <2>9, <3>5, <4>1, Zenon
        <4> QED BY <4>2
      <3>7. ToSet(t) = {} /\ Len(t) = 0 /\ DOMAIN t = {}
        BY <3>6 DEF ToSet
      <3>8. Min({n, 0}) = 0
        BY MinMaxTwo
      <3>9. Newest(n, {}, t)
        BY <3>3, <3>7, <3>8, Zenon DEF Newest
      <3> QED BY <2>1, <3>2, <3>5, <3>9, Zenon
    <2> QED BY <2>12, <2>13
  <1> QED BY <1>0, <1>1, <1>5, <1>6, <1>7

\* list_recent_messages.
LEMMA ListAnswers == ServerInv => ListsNewest
  <1> SUFFICES ASSUME ServerInv, NEW limit \in 0 .. Cardinality(MessageIds),
                      NEW types \in {<<>>} \cup {<<t>> : t \in Types}
               PROVE  /\ ListRecentMessages(contextID, limit, types) # {}
                      /\ \A r \in ListRecentMessages(contextID, limit, types) :
                            Newest(Limit(limit),
                                   {m \in Visible : types = <<>> \/ m.type \in ToSet(types)}, r)
    BY Zenon DEF ListsNewest
  <1>1. AskedTypes(types)
    BY DEF AskedTypes
  <1>2. VisibleOf(types) = {m \in Visible : types = <<>> \/ m.type \in ToSet(types)}
    BY DEF VisibleOf, OfType
  <1> QED BY <1>1, <1>2, ListAnswer

\* The hits of a search, before the limit.
MatchingHits(query, types) == HitsWith(query, Hits(contextID, types))

\* What a search returns, by its hits.
LEMMA SearchForm ==
  ASSUME ServerInv, NEW query, NEW limit, NEW types, NEW offset,
         NEW M, M = MatchingHits(query, types)
  PROVE  SearchResult(query, limit, types, offset)
           = {Messages(AfterOffset(offset, First(Limit(limit), s))) : s \in Passes(M)}
  <1>1. PICK q : q = [query |-> query, types |-> types, limit |-> limit, offset |-> offset]
    OBVIOUS
  <1>2. q.query = query /\ q.types = types /\ q.limit = limit /\ q.offset = offset
    BY <1>1
  <1>3. {h \in Hits(ContextOr(contextID), q.types) : q.query \in Stored[h[2]].content} = M
    BY <1>2, OwnContext, Zenon DEF MatchingHits, HitsWith
  <1>4. SearchMessages(contextID, q)
          = {Messages(AfterOffset(offset, First(Limit(limit), s))) : s \in Passes(M)}
    BY <1>2, <1>3, Zenon DEF SearchMessages
  <1> QED BY <1>1, <1>4, Zenon DEF SearchResult

\* The hits that match.
LEMMA MatchingFacts ==
  ASSUME ServerInv, NEW query, NEW types, AskedTypes(types),
         NEW M, M = MatchingHits(query, types), NEW S, S = Matching(query, types)
  PROVE  StandsFor(M, S, types)
  <1>1. PICK H : H = Hits(contextID, types)
    OBVIOUS
  <1>2. PICK V : V = VisibleOf(types)
    OBVIOUS
  <1>3. StandsFor(H, V, types)
    BY <1>1, <1>2, HitsRepresent DEF StandsFor
  <1>4. M = HitsWith(query, H)
    BY <1>1, Zenon DEF MatchingHits
  <1>5. S = MessagesWith(query, V)
    BY <1>2 DEF Matching, MessagesWith, VisibleOf, OfType
  <1> QED BY <1>3, <1>4, <1>5, MatchesRepresent

\* An answer r with limit L, where n of the messages in S fit.
GoodAnswer(L, n, S, types, r) ==
  \/ Newest(L, S, r)
  \/ backend = "memory" /\ types # <<>> /\ AnyOf(n, S, r)

\* Without an offset.
LEMMA SearchAnswer ==
  ASSUME ServerInv, NEW types, NEW M, NEW S, StandsFor(M, S, types),
         NEW s \in Passes(M), NEW L \in Nat, NEW r, r = Messages(First(L, s)),
         NEW c, c = Cardinality(S), NEW n, n = Lesser(L, c)
  PROVE  GoodAnswer(L, n, S, types, r)
  <1>1. /\ Represents(M, S) /\ PairsOf(M)
        /\ backend = "badger" \/ types = <<>> => ByAge(M)
    BY DEF StandsFor
  <1>2. CASE backend = "badger" \/ types = <<>>
    <2>1. Newest(L, S, Messages(First(L, s)))
      BY <1>1, <1>2, FirstAreNewest
    <2> QED BY <2>1, Zenon DEF GoodAnswer
  <1>3. CASE backend = "memory" /\ types # <<>>
    <2>1. s \in SetToSeqs(M)
      BY DEF Passes
    <2>2. Begins(r, n, s, c, M, S)
      BY <1>1, <2>1, FirstMessages
    <2>3. ToSet(r) \subseteq S /\ Len(r) = n
      BY <2>2 DEF ToSet, Begins
    <2>4. Cardinality(ToSet(r)) = n
      BY <2>2, DistinctCount DEF Begins
    <2> QED BY <1>3, <2>3, <2>4, Zenon DEF GoodAnswer, AnyOf
  <1>4. backend \in {"badger", "memory"}
    BY DEF ServerInv, ServerTypeOK, StoreTypeOK
  <1> QED BY <1>2, <1>3, <1>4

\* Leaving out the first of an answer.
LEMMA TailOfMessages ==
  ASSUME NEW H, NEW f \in Seq(H), NEW m \in Nat, Len(f) = m, 1 < m
  PROVE  /\ Messages(SubSeq(f, 2, m)) = SubSeq(Messages(f), 2, m)
         /\ Len(SubSeq(Messages(f), 2, m)) = m - 1
  <1>1. PICK r : r = Messages(f)
    OBVIOUS
  <1>2. DOMAIN f = 1..m /\ \A k \in 1..m : f[k] \in H
    OBVIOUS
  <1>3. r = [k \in 1..m |-> Stored[f[k][2]]]
    BY <1>1, <1>2, Zenon DEF Messages
  <1>4. PICK T : T = {Stored[h[2]] : h \in H}
    OBVIOUS
  <1>5. \A k \in 1..m : r[k] = Stored[f[k][2]] /\ r[k] \in T
    BY <1>2, <1>3, <1>4
  <1>6. \A k \in 2..m : f[k] \in H /\ r[k] \in T
    BY <1>2, <1>5
  <1>7. PICK g : g = SubSeq(f, 2, m)
    OBVIOUS
  <1>8. PICK t : t = SubSeq(r, 2, m)
    OBVIOUS
  <1>9. /\ g \in Seq(H) /\ Len(g) = IF 2 <= m THEN m - 2 + 1 ELSE 0
        /\ \A k \in 1..(m - 2 + 1) : g[k] = f[2 + k - 1]
    BY <1>6, <1>7, SubSeqProperties
  <1>10. /\ t \in Seq(T) /\ Len(t) = IF 2 <= m THEN m - 2 + 1 ELSE 0
         /\ \A k \in 1..(m - 2 + 1) : t[k] = r[2 + k - 1]
    BY <1>6, <1>8, SubSeqProperties
  <1>11. Len(g) = m - 1 /\ Len(t) = m - 1
    BY <1>9, <1>10
  <1>12. DOMAIN g = 1..(m - 1) /\ DOMAIN t = 1..(m - 1) /\ t = [k \in 1..(m - 1) |-> t[k]]
    BY <1>9, <1>10, <1>11
  <1>13. Messages(g) = [k \in 1..(m - 1) |-> Stored[g[k][2]]]
    BY <1>12, Zenon DEF Messages
  <1>14. \A k \in 1..(m - 1) : Stored[g[k][2]] = t[k]
    <2> SUFFICES ASSUME NEW k \in 1..(m - 1) PROVE Stored[g[k][2]] = t[k]
      OBVIOUS
    <2>1. k \in 1..(m - 2 + 1) /\ 2 + k - 1 \in 1..m
      OBVIOUS
    <2>2. g[k] = f[2 + k - 1] /\ t[k] = r[2 + k - 1]
      BY <1>9, <1>10, <2>1, Zenon
    <2>3. r[2 + k - 1] = Stored[f[2 + k - 1][2]]
      BY <1>5, <2>1, Zenon
    <2> QED BY <2>2, <2>3, Zenon
  <1>15. Messages(g) = t
    BY <1>12, <1>13, <1>14, Zenon
  <1> QED BY <1>1, <1>7, <1>8, <1>11, <1>15, Zenon

\* With an offset of one.
LEMMA OffsetAnswer ==
  ASSUME NEW H, NEW f \in Seq(H), NEW m \in Nat, Len(f) = m,
         NEW r, r = Messages(f), r \in Seq(Range(r)), Len(r) = m,
         NEW t, t = Messages(AfterOffset(1, f))
  PROVE  Len(t) = (IF 1 < m THEN m - 1 ELSE m) /\ t \in Suffixes(r)
  <1>1. CASE 1 < m
    <2>1. AfterOffset(1, f) = SubSeq(f, 2, m)
      <3>1. 0 < 1 /\ 1 < Len(f) /\ 1 + 1 = 2
        BY <1>1
      <3> QED BY <3>1, Zenon DEF AfterOffset
    <2>2. t = SubSeq(r, 2, m) /\ Len(t) = m - 1
      <3>1. /\ Messages(SubSeq(f, 2, m)) = SubSeq(Messages(f), 2, m)
            /\ Len(SubSeq(Messages(f), 2, m)) = m - 1
        BY <1>1, TailOfMessages
      <3> QED BY <2>1, <3>1, Zenon
    <2>3. 2 \in 1..Len(r) /\ t = SubSeq(r, 2, Len(r))
      BY <1>1, <2>2
    <2>4. t \in Suffixes(r)
      BY <2>3, Zenon DEF Suffixes
    <2> QED BY <1>1, <2>2, <2>4
  <1>2. CASE ~(1 < m)
    <2>1. AfterOffset(1, f) = f
      <3>1. ~(1 < Len(f))
        BY <1>2
      <3> QED BY <3>1, Zenon DEF AfterOffset
    <2>2. t = r
      BY <2>1, Zenon
    <2>3. CASE m = 0
      <3>1. r = <<>>
        BY <2>3
      <3> QED BY <1>2, <2>2, <3>1 DEF Suffixes
    <2>4. CASE m = 1
      <3>1. /\ SubSeq(r, 1, 1) \in Seq(Range(r)) /\ Len(SubSeq(r, 1, 1)) = 1
            /\ \A k \in 1..1 : SubSeq(r, 1, 1)[k] = r[k]
        BY <2>4, BeginningFacts
      <3>2. SubSeq(r, 1, 1) = r
        BY <2>4, <3>1
      <3>3. 1 \in 1..Len(r) /\ r = SubSeq(r, 1, Len(r))
        BY <2>4, <3>2
      <3>4. r \in Suffixes(r)
        BY <3>3, Zenon DEF Suffixes
      <3> QED BY <1>2, <2>2, <3>4
    <2> QED BY <1>2, <2>3, <2>4
  <1> QED BY <1>1, <1>2

\* The answers A without and B with an offset of one.
GoodAnswers(A, B, L, n, S, types) ==
  /\ A # {}
  /\ \A r \in A : GoodAnswer(L, n, S, types, r)
  /\ \A r \in B : /\ Len(r) = IF 1 < n THEN n - 1 ELSE n
                  /\ \E s \in A : r \in Suffixes(s)

\* search_conversation, for one text, one limit and one choice of types.
LEMMA SearchOne ==
  ASSUME ServerInv, NEW query, NEW limit, NEW types, AskedTypes(types),
         NEW S, S = Matching(query, types), NEW L \in Nat, L = Limit(limit),
         NEW c, c = Cardinality(S), NEW n, n = Lesser(L, c),
         NEW A, A = SearchResult(query, limit, types, 0),
         NEW B, B = SearchResult(query, limit, types, 1)
  PROVE  GoodAnswers(A, B, L, n, S, types)
  <1>1. PICK M : M = MatchingHits(query, types)
    OBVIOUS
  <1>2. StandsFor(M, S, types)
    BY <1>1, MatchingFacts
  <1>3. Represents(M, S) /\ PairsOf(M)
    BY <1>2 DEF StandsFor
  <1>4. A = {Messages(AfterOffset(0, First(L, s))) : s \in Passes(M)}
    BY <1>1, SearchForm
  <1>5. B = {Messages(AfterOffset(1, First(L, s))) : s \in Passes(M)}
    BY <1>1, SearchForm
  <1>6. \A f : AfterOffset(0, f) = f
    BY DEF AfterOffset
  <1>7. A = {Messages(First(L, s)) : s \in Passes(M)}
    BY <1>4, <1>6
  <1>8. A # {}
    BY <1>3, <1>7, PassExists DEF Represents
  <1>9. ASSUME NEW r \in A PROVE GoodAnswer(L, n, S, types, r)
    <2>1. PICK s \in Passes(M) : r = Messages(First(L, s))
      BY <1>7
    <2> QED BY <1>2, <2>1, SearchAnswer
  <1>10. ASSUME NEW t \in B
         PROVE  /\ Len(t) = IF 1 < n THEN n - 1 ELSE n
                /\ \E r \in A : t \in Suffixes(r)
    <2>1. PICK s \in Passes(M) : t = Messages(AfterOffset(1, First(L, s)))
      BY <1>5
    <2>2. PICK f : f = First(L, s)
      OBVIOUS
    <2>3. PICK r : r = Messages(f)
      OBVIOUS
    <2>4. r \in A
      BY <1>7, <2>2, <2>3
    <2>5. s \in SetToSeqs(M)
      BY DEF Passes
    <2>6. Begins(r, n, s, c, M, S)
      BY <1>3, <2>2, <2>3, <2>5, FirstMessages
    <2>7. n \in Nat /\ r \in Seq(Range(r)) /\ Len(r) = n
      BY <2>6, SeqOfItsRange DEF Begins
    <2>8. f \in Seq(M) /\ Len(f) = n
      <3>1. IsFiniteSet(M) /\ c = Cardinality(M)
        BY <1>3, RepresentsCount DEF Represents
      <3>2. s \in Seq(M) /\ Len(s) = c
        BY <2>5, <3>1, EnumerationFacts
      <3> QED BY <2>2, <3>2, FirstFacts
    <2>9. Len(t) = (IF 1 < n THEN n - 1 ELSE n) /\ t \in Suffixes(r)
      BY <2>1, <2>2, <2>3, <2>7, <2>8, OffsetAnswer
    <2> QED BY <2>4, <2>9
  <1> QED BY <1>8, <1>9, <1>10 DEF GoodAnswers

\* search_conversation.
LEMMA SearchAnswers == ServerInv => SearchesNewest
  <1> SUFFICES
        ASSUME ServerInv, NEW query \in Texts, NEW limit \in 0 .. Cardinality(MessageIds),
               NEW types \in {<<>>} \cup {<<t>> : t \in Types}
        PROVE  GoodAnswers(SearchResult(query, limit, types, 0), SearchResult(query, limit, types, 1),
                           Limit(limit), Min({Limit(limit), Cardinality(Matching(query, types))}),
                           Matching(query, types), types)
    BY Zenon DEF SearchesNewest, GoodAnswers, GoodAnswer
  <1>1. AskedTypes(types) /\ limit \in Int
    BY DEF AskedTypes
  <1>2. PICK S : S = Matching(query, types)
    OBVIOUS
  <1>3. PICK L \in Nat : L = Limit(limit)
    BY <1>1, LimitFacts
  <1>4. PICK c : c = Cardinality(S)
    OBVIOUS
  <1>5. PICK n : n = Lesser(L, c)
    OBVIOUS
  <1>6. PICK A, B : A = SearchResult(query, limit, types, 0) /\ B = SearchResult(query, limit, types, 1)
    OBVIOUS
  <1>7. GoodAnswers(A, B, L, n, S, types)
    BY <1>1, <1>2, <1>3, <1>4, <1>5, <1>6, SearchOne
  <1>8. n = Min({Limit(limit), Cardinality(S)})
    BY <1>3, <1>4, <1>5, Zenon DEF Lesser
  <1> QED BY <1>2, <1>3, <1>6, <1>7, <1>8, Zenon

\* ServerTypeOK: the store, the session and the channels are well typed in every state.
THEOREM ServerTypeCorrect == ServerSpec => []ServerTypeOK
  <1>1. ServerInv => ServerTypeOK
    BY DEF ServerInv
  <1> QED BY <1>1, ServerInitInv, ServerNextInv, PTL DEF ServerSpec

\* ToolsAnswerFromAcked: whatever was stored, in whatever contexts, with failed stores,
\* restarts and a change of the client, get, list and search answer with the messages
\* that were acknowledged to the client, the newest of the session's context first.
THEOREM ToolsAnswerFromTheStore == ServerSpec => []ToolsAnswerFromAcked
  <1>1. ServerInv => ToolsAnswerFromAcked
    BY RetrieveAnswers, ListAnswers, SearchAnswers DEF ToolsAnswerFromAcked
  <1> QED BY <1>1, ServerInitInv, ServerNextInv, PTL DEF ServerSpec

=============================================================================
