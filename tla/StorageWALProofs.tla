-------------------------- MODULE StorageWALProofs --------------------------
(***************************************************************************)
(* Proofs about StorageWAL, for every set of keys, every batch size and    *)
(* any number of writers and writes, with shutdowns, process crashes and   *)
(* power losses: the types, the order of the log, the work units that      *)
(* replay brings back, and the refinement of DurableLog.                   *)
(***************************************************************************)
EXTENDS StorageWAL, SequenceTheorems, WellFoundedInduction, TLAPS

----------------------------------------------------------------------------
\* Numbers and sequences

\* A set of positions has a last one, and Max finds it.
LEMMA MaxIsLast ==
  ASSUME NEW n \in Nat, NEW S \in SUBSET (1..n), S # {}
  PROVE  Max(S) \in S /\ \A y \in S : y <= Max(S)
  <1> DEFINE R == OpToRel(<, Nat)
             T == {n - i : i \in S}
  <1>1. IsWellFoundedOn(R, Nat)
    BY NatLessThanWellFounded
  <1>2. T \subseteq Nat
    OBVIOUS
  <1>3. T # {}
    <2>1. PICK i \in S : TRUE
      OBVIOUS
    <2>2. n - i \in T
      BY <2>1
    <2> QED BY <2>2
  <1>4. PICK x \in T : \A y \in T : ~(<<y, x>> \in R)
    <2> HIDE DEF R, T
    <2> QED BY <1>1, <1>2, <1>3, WFMin
  <1>5. \A y \in T : ~(y < x)
    BY <1>2, <1>4 DEF OpToRel
  <1>6. PICK m \in S : x = n - m
    BY <1>4
  <1>7. \A y \in S : m >= y
    BY <1>5, <1>6
  <1> QED BY <1>6, <1>7 DEF Max

\* The later of two versions.
LEMMA MaxOfTwo ==
  ASSUME NEW a \in Nat, NEW b \in Nat
  PROVE  Max({a, b}) = IF a >= b THEN a ELSE b
  BY DEF Max

\* The two parts of s at k.
LEMMA PartsOfSeq ==
  ASSUME NEW S, NEW s \in Seq(S), NEW k \in 0..Len(s)
  PROVE  /\ SubSeq(s, 1, k) \in Seq(S) /\ Len(SubSeq(s, 1, k)) = k
         /\ \A i \in 1..k : SubSeq(s, 1, k)[i] = s[i]
         /\ SubSeq(s, k + 1, Len(s)) \in Seq(S)
         /\ Len(SubSeq(s, k + 1, Len(s))) = Len(s) - k
         /\ \A i \in 1..(Len(s) - k) : SubSeq(s, k + 1, Len(s))[i] = s[k + i]
  <1>0. Len(s) \in Nat /\ k \in Nat
    OBVIOUS
  <1>1. \A i \in 1..Len(s) : s[i] \in S
    BY ElementOfSeq
  <1>2. /\ SubSeq(s, 1, k) \in Seq(S) /\ Len(SubSeq(s, 1, k)) = k
        /\ \A i \in 1..k : SubSeq(s, 1, k)[i] = s[i]
    <2>1. \A i \in 1..k : s[i] \in S
      BY <1>0, <1>1
    <2> QED BY <1>0, <2>1, SubSeqProperties
  <1>3. /\ SubSeq(s, k + 1, Len(s)) \in Seq(S)
        /\ Len(SubSeq(s, k + 1, Len(s))) = Len(s) - k
        /\ \A i \in 1..(Len(s) - k) : SubSeq(s, k + 1, Len(s))[i] = s[k + i]
    <2>1. \A i \in (k + 1)..Len(s) : s[i] \in S
      BY <1>0, <1>1
    <2> QED BY <1>0, <2>1, SubSeqProperties
  <1> QED BY <1>2, <1>3

\* The two parts at k of a sequence c that is s followed by t.
LEMMA PartsOfConcat ==
  ASSUME NEW S, NEW s \in Seq(S), NEW t \in Seq(S), NEW k \in 0..Len(s),
         NEW c, c = s \o t
  PROVE  /\ SubSeq(c, 1, k) = SubSeq(s, 1, k)
         /\ SubSeq(c, k + 1, Len(c)) = SubSeq(s, k + 1, Len(s)) \o t
  <1>0. Len(s) \in Nat /\ Len(t) \in Nat /\ k \in Nat /\ k <= Len(s)
    OBVIOUS
  <1>1. /\ c \in Seq(S) /\ Len(c) = Len(s) + Len(t)
        /\ \A i \in 1..Len(s) + Len(t) : c[i] = IF i <= Len(s) THEN s[i] ELSE t[i - Len(s)]
    BY ConcatProperties
  <1>2. k \in 0..Len(c)
    BY <1>0, <1>1
  <1> DEFINE a == SubSeq(s, 1, k)
             b == SubSeq(s, k + 1, Len(s))
             d == SubSeq(c, 1, k)
             e == SubSeq(c, k + 1, Len(c))
  <1>3. /\ a \in Seq(S) /\ Len(a) = k /\ \A i \in 1..k : a[i] = s[i]
        /\ b \in Seq(S) /\ Len(b) = Len(s) - k /\ \A i \in 1..(Len(s) - k) : b[i] = s[k + i]
    BY PartsOfSeq
  <1>4. /\ d \in Seq(S) /\ Len(d) = k /\ \A i \in 1..k : d[i] = c[i]
        /\ e \in Seq(S) /\ Len(e) = Len(c) - k /\ \A i \in 1..(Len(c) - k) : e[i] = c[k + i]
    BY <1>1, <1>2, PartsOfSeq
  <1> HIDE DEF a, b, d, e
  <1>5. /\ b \o t \in Seq(S) /\ Len(b \o t) = Len(b) + Len(t)
        /\ \A i \in 1..Len(b) + Len(t) :
              (b \o t)[i] = IF i <= Len(b) THEN b[i] ELSE t[i - Len(b)]
    BY <1>3, ConcatProperties
  <1>6. a = d
    <2>1. \A i \in 1..Len(a) : a[i] = d[i]
      BY <1>0, <1>1, <1>3, <1>4
    <2> QED BY <1>3, <1>4, <2>1, SeqEqual
  <1>7. e = b \o t
    <2>1. Len(e) = Len(b \o t)
      BY <1>0, <1>1, <1>3, <1>4, <1>5
    <2>2. \A i \in 1..Len(e) : e[i] = (b \o t)[i]
      BY <1>0, <1>1, <1>3, <1>4, <1>5
    <2> QED BY <1>4, <1>5, <2>1, <2>2, SeqEqual
  <1> QED BY <1>6, <1>7 DEF a, b, d, e

\* Receiving the head of a queue into a batch moves nothing past anything.
LEMMA TakeMoves ==
  ASSUME NEW S, NEW b \in Seq(S), NEW q \in Seq(S), q # <<>>
  PROVE  /\ Append(b, Head(q)) \o Tail(q) = b \o q
         /\ Append(b, Head(q)) \in Seq(S) /\ Tail(q) \in Seq(S)
         /\ Len(Append(b, Head(q))) = Len(b) + 1 /\ Len(Tail(q)) = Len(q) - 1
  <1>1. /\ Head(q) \in S /\ Tail(q) \in Seq(S) /\ Len(Tail(q)) = Len(q) - 1
        /\ Head(q) = q[1] /\ \A i \in 1..Len(Tail(q)) : Tail(q)[i] = q[i + 1]
    BY HeadTailProperties
  <1> DEFINE a == Append(b, Head(q))
             r == Tail(q)
  <1>2. /\ a \in Seq(S) /\ Len(a) = Len(b) + 1 /\ \A i \in 1..Len(b) : a[i] = b[i]
        /\ a[Len(b) + 1] = q[1]
    BY <1>1, AppendProperties
  <1>3. r \in Seq(S) /\ Len(r) = Len(q) - 1 /\ \A i \in 1..Len(r) : r[i] = q[i + 1]
    BY <1>1
  <1> HIDE DEF a, r
  <1>4. /\ a \o r \in Seq(S) /\ Len(a \o r) = Len(a) + Len(r)
        /\ \A i \in 1..Len(a) + Len(r) :
              (a \o r)[i] = IF i <= Len(a) THEN a[i] ELSE r[i - Len(a)]
    BY <1>2, <1>3, ConcatProperties
  <1>5. /\ b \o q \in Seq(S) /\ Len(b \o q) = Len(b) + Len(q)
        /\ \A i \in 1..Len(b) + Len(q) :
              (b \o q)[i] = IF i <= Len(b) THEN b[i] ELSE q[i - Len(b)]
    BY ConcatProperties
  <1>6. Len(b) \in Nat /\ Len(q) \in Nat /\ Len(q) >= 1
    BY EmptySeq, LenProperties
  <1>7. ASSUME NEW i \in 1..Len(a \o r) PROVE (a \o r)[i] = (b \o q)[i]
    <2>1. CASE i <= Len(b)
      BY <1>2, <1>3, <1>4, <1>5, <1>6, <2>1
    <2>2. CASE i = Len(b) + 1
      BY <1>2, <1>3, <1>4, <1>5, <1>6, <2>2
    <2>3. CASE i > Len(b) + 1
      <3>1. i - Len(a) \in 1..Len(r) /\ i - Len(a) + 1 = i - Len(b) /\ ~(i <= Len(a))
            /\ ~(i <= Len(b)) /\ i \in 1..Len(a) + Len(r) /\ i \in 1..Len(b) + Len(q)
        BY <1>2, <1>3, <1>4, <1>6, <2>3
      <3> QED BY <1>3, <1>4, <1>5, <3>1
    <2>4. i \in Nat
      BY <1>2, <1>3, <1>4, <1>6
    <2>5. i <= Len(b) \/ i = Len(b) + 1 \/ i > Len(b) + 1
      BY <1>6, <2>4
    <2> QED BY <2>1, <2>2, <2>3, <2>5
  <1>8. Len(a \o r) = Len(b \o q)
    BY <1>2, <1>3, <1>4, <1>5, <1>6
  <1>9. a \o r = b \o q
    BY <1>4, <1>5, <1>7, <1>8, SeqEqual
  <1> QED BY <1>2, <1>3, <1>9 DEF a, r

----------------------------------------------------------------------------
\* Types

\* The places of processWAL.
LEMMA ProcType ==
  /\ \A place \in {"none", "select", "drain", "sync", "stop"} : At(place) \in Proc
  /\ \A place \in {"select", "drain", "stop"} : [At("sync") EXCEPT !.then = place] \in Proc
  <1>1. 0 \in 0..BatchSize
    BY BatchSizeAssumption
  <1> QED BY <1>1 DEF At, Proc

\* The facts of TypeOK on the sequences.
LEMMA SequencesType ==
  ASSUME TypeOK
  PROVE  /\ wal \in Seq(Entry) /\ batch \in Seq(Entry) /\ walEntries \in Seq(Entry)
         /\ Len(wal) \in Nat /\ Len(batch) \in Nat /\ Len(walEntries) \in Nat
         /\ synced \in Nat /\ synced <= Len(wal)
         /\ Len(batch) < BatchSize /\ Len(walEntries) <= 2 * BatchSize
         /\ BatchSize \in Nat /\ BatchSize > 0
  BY BatchSizeAssumption, LenProperties DEF TypeOK

\* syncWALBatch leaves the batch empty and, if anything, a longer file.
LEMMA SyncType ==
  ASSUME TypeOK, NEW b \in Seq(Entry), NEW place \in {"select", "drain", "stop"},
         SyncWALBatch(b, place)
  PROVE  /\ batch' = <<>> /\ proc' \in Proc
         /\ wal' \in Seq(Entry) /\ Len(wal) <= Len(wal')
         /\ wal' = wal \o b \/ wal' = wal
  <1>0. wal \in Seq(Entry) /\ Len(wal) \in Nat /\ Len(b) \in Nat
    BY SequencesType
  <1>1. proc' \in Proc
    BY ProcType DEF SyncWALBatch
  <1>2. wal' = wal \o b \/ wal' = wal
    BY DEF SyncWALBatch
  <1>3. wal \o b \in Seq(Entry) /\ Len(wal \o b) = Len(wal) + Len(b)
    BY <1>0, ConcatProperties
  <1>4. wal' \in Seq(Entry) /\ Len(wal) <= Len(wal')
    <2>1. CASE wal' = wal
      BY <1>0, <2>1
    <2>2. CASE wal' = wal \o b
      <3>1. wal' \in Seq(Entry) /\ Len(wal') = Len(wal) + Len(b)
        BY <1>3, <2>2
      <3> QED BY <1>0, <3>1
    <2> QED BY <1>2, <2>1, <2>2
  <1>5. batch' = <<>>
    BY DEF SyncWALBatch
  <1> QED BY <1>1, <1>2, <1>4, <1>5

\* A step of processWAL that takes the entries b from its batch and the channel,
\* leaving q in the channel: b goes to the batch or to the file, unless the file is
\* closed and b is dropped.
Handed(b, q) ==
    /\ b \o q = batch \o walEntries
    /\ walEntries' = q /\ synced' = synced /\ Len(q) <= 2 * BatchSize
    /\ batch' \in Seq(Entry) /\ Len(batch') < BatchSize
    /\ proc' \in Proc
    /\ wal' \in Seq(Entry) /\ Len(wal) <= Len(wal')
    /\ \/ wal' = wal /\ batch' = b
       \/ wal' = wal \o b /\ batch' = <<>>
       \/ wal' = wal /\ batch' = <<>>

\* Each step of processWAL but the fsync hands on entries in their order.
LEMMA ProcStep ==
  ASSUME TypeOK, TakeEntry \/ Flush \/ FinalFlush \/ Drain
  PROVE  \E b, q \in Seq(Entry) : Handed(b, q)
  <1>0. /\ wal \in Seq(Entry) /\ batch \in Seq(Entry) /\ walEntries \in Seq(Entry)
        /\ Len(wal) \in Nat /\ Len(batch) \in Nat /\ Len(walEntries) \in Nat
        /\ Len(batch) < BatchSize /\ Len(walEntries) <= 2 * BatchSize
        /\ BatchSize \in Nat /\ BatchSize > 0 /\ proc \in Proc
    BY SequencesType DEF TypeOK
  <1>1. <<>> \in Seq(Entry) /\ Len(<<>>) = 0
    OBVIOUS
  <1>2. ASSUME NEW b \in Seq(Entry), NEW q \in Seq(Entry),
               NEW place \in {"select", "drain", "stop"}, SyncWALBatch(b, place),
               b \o q = batch \o walEntries, walEntries' = q, synced' = synced,
               Len(q) <= 2 * BatchSize
        PROVE  Handed(b, q)
    <2>1. /\ batch' = <<>> /\ proc' \in Proc
          /\ wal' \in Seq(Entry) /\ Len(wal) <= Len(wal')
          /\ wal' = wal \o b \/ wal' = wal
      BY <1>2, SyncType
    <2> QED BY <1>0, <1>1, <1>2, <2>1 DEF Handed
  <1>3. CASE Flush \/ FinalFlush
    <2>1. SyncWALBatch(batch, "drain") \/ SyncWALBatch(batch, "stop")
      BY <1>3 DEF Flush, FinalFlush
    <2>2. walEntries' = walEntries /\ synced' = synced
      BY <1>3 DEF Flush, FinalFlush
    <2> QED BY <1>0, <1>2, <2>1, <2>2
  <1> DEFINE b == Append(batch, Head(walEntries))
             q == Tail(walEntries)
  <1>4. ASSUME walEntries # <<>>
        PROVE  /\ b \o q = batch \o walEntries /\ b \in Seq(Entry) /\ q \in Seq(Entry)
               /\ Len(b) = Len(batch) + 1 /\ Len(q) <= 2 * BatchSize
    <2>1. /\ b \o q = batch \o walEntries /\ b \in Seq(Entry) /\ q \in Seq(Entry)
          /\ Len(b) = Len(batch) + 1 /\ Len(q) = Len(walEntries) - 1
      BY <1>0, <1>4, TakeMoves
    <2> QED BY <1>0, <2>1
  <1>5. CASE TakeEntry
    <2>1. walEntries # <<>> /\ walEntries' = q /\ synced' = synced
      BY <1>5 DEF TakeEntry
    <2>2. CASE SyncWALBatch(b, "drain")
      <3> HIDE DEF b, q
      <3> QED BY <1>2, <1>4, <2>1, <2>2
    <2>3. CASE Len(b) < BatchSize /\ batch' = b /\ proc' = At("drain") /\ wal' = wal
      <3> HIDE DEF b, q
      <3>1. b \in Seq(Entry) /\ q \in Seq(Entry)
        BY <1>4, <2>1
      <3>2. b \o q = batch \o walEntries /\ Len(q) <= 2 * BatchSize /\ At("drain") \in Proc
        BY <1>4, <2>1, ProcType
      <3>3. wal' \in Seq(Entry) /\ Len(wal) <= Len(wal')
        BY <1>0, <2>3
      <3>4. Handed(b, q)
        BY <2>1, <2>3, <3>1, <3>2, <3>3 DEF Handed
      <3> QED BY <3>1, <3>4
    <2> QED BY <1>5, <2>2, <2>3 DEF TakeEntry
  <1>6. CASE Drain
    <2>1. CASE proc.i < BatchSize - Len(batch) /\ walEntries # <<>>
      <3>1. walEntries' = q /\ synced' = synced
        BY <1>6, <2>1 DEF Drain
      <3>2. CASE Len(b) >= BatchSize
        <4>1. SyncWALBatch(b, "select")
          BY <1>6, <2>1, <3>2 DEF Drain
        <4> HIDE DEF b, q
        <4> QED BY <1>2, <1>4, <2>1, <3>1, <4>1
      <3>3. CASE ~(Len(b) >= BatchSize)
        <4>1. batch' = b /\ proc' = [proc EXCEPT !.i = proc.i + 1] /\ wal' = wal
          BY <1>6, <2>1, <3>3 DEF Drain
        <4> HIDE DEF b, q
        <4>2. proc.i + 1 \in 0..BatchSize
          BY <1>0, <2>1 DEF Proc
        <4>3. proc' \in Proc
          BY <1>0, <4>1, <4>2 DEF Proc
        <4>4. b \in Seq(Entry) /\ q \in Seq(Entry) /\ Len(b) < BatchSize
          BY <1>0, <1>4, <2>1, <3>3
        <4>5. b \o q = batch \o walEntries /\ Len(q) <= 2 * BatchSize
          BY <1>4, <2>1
        <4>6. wal' \in Seq(Entry) /\ Len(wal) <= Len(wal')
          BY <1>0, <4>1
        <4>7. Handed(b, q)
          BY <3>1, <4>1, <4>3, <4>4, <4>5, <4>6 DEF Handed
        <4> QED BY <4>4, <4>7
      <3> QED BY <3>2, <3>3
    <2>2. CASE ~(proc.i < BatchSize - Len(batch) /\ walEntries # <<>>)
      <3>1. proc' = At("select") /\ UNCHANGED <<walEntries, batch, wal, synced>>
        BY <1>6, <2>2 DEF Drain
      <3> HIDE DEF b, q
      <3>2. wal' \in Seq(Entry) /\ Len(wal) <= Len(wal') /\ At("select") \in Proc
        BY <1>0, <3>1, ProcType
      <3>3. Handed(batch, walEntries)
        BY <1>0, <3>1, <3>2 DEF Handed
      <3> QED BY <1>0, <3>3
    <2> QED BY <2>1, <2>2
  <1> QED BY <1>3, <1>5, <1>6

\* Replay gives each key a version of the log, or leaves it as it was.
LEMMA ReplayedType ==
  ASSUME TypeOK
  PROVE  Replayed \in [Keys -> 0..MaxWrites]
  <1> SUFFICES ASSUME NEW k \in Keys, NEW hits, hits = {i \in 1..Len(wal) : wal[i].key = k}
               PROVE  (IF hits = {} THEN db[k] ELSE wal[Max(hits)].ver) \in 0..MaxWrites
    BY DEF Replayed
  <1>1. CASE hits = {}
    BY <1>1 DEF TypeOK
  <1>2. CASE hits # {}
    <2>1. Max(hits) \in hits
      BY <1>2, SequencesType, MaxIsLast
    <2>2. wal[Max(hits)] \in Entry
      BY <2>1, SequencesType, ElementOfSeq
    <2>3. wal[Max(hits)].ver \in Versions
      BY <2>2 DEF Entry
    <2> QED BY <1>2, <2>3, MaxWritesAssumption DEF Versions
  <1> QED BY <1>1, <1>2

\* What a new process starts with is well typed.
LEMMA ProcessEndsType ==
  ASSUME TypeOK, ProcessEnds,
         wal' \in Seq(Entry), synced' \in 0..Len(wal'), torn' \in BOOLEAN,
         db' \in [Keys -> 0..MaxWrites], flushed' = flushed
  PROVE  TypeOK'
  <1>1. At("none") \in Proc
    BY ProcType
  <1>2. <<>> \in Seq(Entry) /\ Len(<<>>) = 0 /\ 0 <= 2 * BatchSize /\ 0 < BatchSize
    BY BatchSizeAssumption
  <1> QED BY <1>1, <1>2 DEF TypeOK, ProcessEnds

\* Every step keeps the types.
LEMMA NextType == TypeOK /\ [Next]_vars => TypeOK'
  <1> SUFFICES ASSUME TypeOK, [Next]_vars PROVE TypeOK'
    OBVIOUS
  <1> USE DEF walVars, lifeVars
  <1>0. /\ writers \subseteq Write /\ next \in Nat /\ next >= 1 /\ next <= MaxWrites + 1
        /\ MaxWrites \in Nat /\ db \in [Keys -> 0..MaxWrites]
        /\ flushed \in [Keys -> 0..MaxWrites] /\ proc \in Proc
    BY MaxWritesAssumption DEF TypeOK
  <1>1. CASE NewStorage
    <2>1. Replayed \in [Keys -> 0..MaxWrites]
      BY ReplayedType
    <2> QED BY <1>1, <2>1 DEF NewStorage, TypeOK
  <1>2. CASE Start
    <2>1. At("select") \in Proc
      BY ProcType
    <2> QED BY <1>2, <2>1 DEF Start, TypeOK
  <1>3. ASSUME NEW k \in Keys, Log(k) PROVE TypeOK'
    <2>1. next \in Versions
      BY <1>0, <1>3 DEF Log, Versions
    <2>2. [key |-> k, ver |-> next] \in Entry
      BY <2>1 DEF Entry
    <2>3. [stage |-> "logged", key |-> k, ver |-> next] \in Write
      BY <2>1 DEF Write
    <2>4. walEntries' \in Seq(Entry) /\ Len(walEntries') = Len(walEntries) + 1
      BY <1>3, <2>2, SequencesType, AppendProperties DEF Log
    <2>5. Len(walEntries') <= 2 * BatchSize
      BY <1>3, <2>4, SequencesType DEF Log
    <2>6. next' \in 1..(MaxWrites + 1)
      BY <1>0, <1>3 DEF Log
    <2>7. writers' \subseteq Write
      BY <1>0, <1>3, <2>3 DEF Log
    <2> QED BY <1>3, <2>4, <2>5, <2>6, <2>7 DEF Log, TypeOK
  <1>4. ASSUME NEW w \in writers, Commit(w) PROVE TypeOK'
    <2>1. w \in Write /\ w.key \in Keys /\ w.ver \in 0..MaxWrites
      BY <1>0 DEF Write, Versions
    <2>2. [w EXCEPT !.stage = "committed"] \in Write
      BY <2>1 DEF Write
    <2>3. db' \in [Keys -> 0..MaxWrites] /\ writers' \subseteq Write
      BY <1>0, <1>4, <2>1, <2>2 DEF Commit
    <2> QED BY <1>4, <2>3 DEF Commit, TypeOK
  <1>5. ASSUME NEW w \in writers, Ack(w) PROVE TypeOK'
    <2>1. w.key \in Keys /\ w.ver \in 0..MaxWrites
      BY <1>0 DEF Write, Versions
    <2>2. acked[w.key] \in 0..MaxWrites
      BY <2>1 DEF TypeOK
    <2>3. Max({acked[w.key], w.ver}) \in 0..MaxWrites
      BY <1>0, <2>1, <2>2, MaxOfTwo
    <2>4. acked' \in [Keys -> 0..MaxWrites]
      BY <1>5, <2>3 DEF Ack, TypeOK
    <2> QED BY <1>5, <2>4 DEF Ack, TypeOK
  <1>6. CASE TakeEntry \/ Flush \/ FinalFlush \/ Drain
    <2>1. PICK b \in Seq(Entry), q \in Seq(Entry) : Handed(b, q)
      BY <1>6, ProcStep
    <2>2. /\ walEntries' \in Seq(Entry) /\ Len(walEntries') <= 2 * BatchSize
          /\ batch' \in Seq(Entry) /\ Len(batch') < BatchSize
          /\ proc' \in Proc /\ wal' \in Seq(Entry)
      BY <2>1 DEF Handed
    <2>3. synced' \in 0..Len(wal')
      <3>1. synced' = synced /\ Len(wal) <= Len(wal') /\ Len(wal') \in Nat
        BY <2>1, <2>2, LenProperties DEF Handed
      <3> QED BY <3>1, SequencesType
    <2>4. UNCHANGED <<lifeVars, torn, db, flushed, writers, next, issued, acked>>
      BY <1>6 DEF TakeEntry, Flush, FinalFlush, Drain
    <2> QED BY <2>2, <2>3, <2>4 DEF TypeOK
  <1>7. CASE Fsync
    <2>1. At(proc.then) \in Proc
      BY <1>0, ProcType DEF Proc
    <2>2. synced' \in 0..Len(wal)
      BY <1>7, SequencesType DEF Fsync
    <2> QED BY <1>7, <2>1, <2>2 DEF Fsync, TypeOK
  <1>8. CASE Cancel \/ ShutdownCall \/ CloseFile \/ CloseDB \/ CloseStream \/ BadgerFlush
    <2>1. /\ status' \in {"down", "open", "running"} /\ walDone' \in BOOLEAN
          /\ shutdown' \in {"no", "called", "fileClosed", "dbClosed", "done"}
      BY <1>8 DEF Cancel, ShutdownCall, CloseFile, CloseDB, CloseStream, BadgerFlush,
                  ShutdownStep, TypeOK
    <2>2. flushed' \in [Keys -> 0..MaxWrites]
      BY <1>0, <1>8 DEF Cancel, ShutdownCall, CloseFile, CloseDB, CloseStream, BadgerFlush
    <2>3. UNCHANGED <<walVars, db, writers, next, issued, acked>>
      BY <1>8 DEF Cancel, ShutdownCall, CloseFile, CloseDB, CloseStream, BadgerFlush,
                  ShutdownStep
    <2> QED BY <2>1, <2>2, <2>3 DEF TypeOK
  <1>9. CASE Exit \/ Panic
    <2>1. ProcessEnds /\ UNCHANGED <<wal, synced, torn, db, flushed>>
      BY <1>9 DEF Exit, Panic
    <2>2. /\ wal' \in Seq(Entry) /\ synced' \in 0..Len(wal') /\ torn' \in BOOLEAN
          /\ db' \in [Keys -> 0..MaxWrites] /\ flushed' = flushed
      BY <2>1 DEF TypeOK
    <2> QED BY <2>1, <2>2, ProcessEndsType
  <1>10. CASE PowerLoss
    <2>1. PICK n \in synced..Len(wal) :
             /\ wal' = SubSeq(wal, 1, n) /\ synced' = n
             /\ torn' \in (IF n < Len(wal) THEN BOOLEAN ELSE {FALSE})
      BY <1>10 DEF PowerLoss
    <2>2. ProcessEnds /\ db' = flushed /\ flushed' = flushed
      BY <1>10 DEF PowerLoss
    <2>3. n \in 0..Len(wal)
      BY SequencesType
    <2>4. wal' \in Seq(Entry) /\ Len(wal') = n
      <3>1. SubSeq(wal, 1, n) \in Seq(Entry) /\ Len(SubSeq(wal, 1, n)) = n
        BY <2>3, SequencesType, PartsOfConcat
      <3> QED BY <2>1, <3>1
    <2>5. synced' \in 0..Len(wal')
      BY <2>1, <2>3, <2>4
    <2>6. torn' \in BOOLEAN
      <3>1. CASE n < Len(wal)
        BY <2>1, <3>1
      <3>2. CASE ~(n < Len(wal))
        <4>1. torn' \in {FALSE}
          BY <2>1, <3>2
        <4> QED BY <4>1
      <3> QED BY <3>1, <3>2
    <2>7. db' \in [Keys -> 0..MaxWrites]
      BY <1>0, <2>2
    <2> QED BY <2>2, <2>4, <2>5, <2>6, <2>7, ProcessEndsType
  <1>11. CASE UNCHANGED vars
    BY <1>11 DEF vars, TypeOK
  <1> QED BY <1>1, <1>2, <1>3, <1>4, <1>5, <1>6, <1>7, <1>8, <1>9, <1>10, <1>11 DEF Next

\* The empty storage is well typed.
LEMMA InitType == Init => TypeOK
  <1> SUFFICES ASSUME Init PROVE TypeOK
    OBVIOUS
  <1>1. At("none") \in Proc
    BY ProcType
  <1>2. <<>> \in Seq(Entry) /\ Len(<<>>) = 0 /\ 0 <= 2 * BatchSize /\ 0 < BatchSize
    BY BatchSizeAssumption
  <1>3. [k \in Keys |-> 0] \in [Keys -> 0..MaxWrites] /\ 1 \in 1..(MaxWrites + 1)
    BY MaxWritesAssumption
  <1>4. /\ walEntries \in Seq(Entry) /\ Len(walEntries) <= 2 * BatchSize
        /\ batch \in Seq(Entry) /\ Len(batch) < BatchSize
        /\ wal \in Seq(Entry) /\ synced \in 0..Len(wal)
    BY <1>2 DEF Init
  <1>5. /\ db \in [Keys -> 0..MaxWrites] /\ flushed \in [Keys -> 0..MaxWrites]
        /\ acked \in [Keys -> 0..MaxWrites] /\ next \in 1..(MaxWrites + 1)
    BY <1>3 DEF Init
  <1> QED BY <1>1, <1>4, <1>5 DEF Init, TypeOK

\* Whatever writers, processWAL, Shutdown and crashes do in whichever order, the
\* channel walEntries never holds more than its capacity, the batch is written
\* before it exceeds WALBatchSize, and an fsync never covers what is not there.
THEOREM StorageTypeCorrect == Spec => []TypeOK
  BY InitType, NextType, PTL DEF Spec

----------------------------------------------------------------------------
\* The pipeline of entries

\* s without its elements m+1 to n.
Without(s, m, n) == SubSeq(s, 1, m) \o SubSeq(s, n + 1, Len(s))

\* The empty sequence at either end of s, and the parts of s that are all of it.
LEMMA WholeAndEmpty ==
  ASSUME NEW S, NEW s \in Seq(S)
  PROVE  /\ SubSeq(s, 1, Len(s)) = s /\ SubSeq(s, 1, 0) = <<>>
         /\ SubSeq(s, Len(s) + 1, Len(s)) = <<>>
         /\ s \o <<>> = s /\ <<>> \o s = s
         /\ <<>> \in Seq(S) /\ Len(<<>>) = 0 /\ Len(s) \in Nat
  <1>1. Len(s) \in Nat
    OBVIOUS
  <1>2. SubSeq(s, 1, Len(s)) = s
    BY SubSeqFull
  <1>3. SubSeq(s, 1, 0) = <<>>
    BY SubSeqEmpty
  <1>4. SubSeq(s, Len(s) + 1, Len(s)) = <<>>
    BY <1>1, SubSeqEmpty
  <1>5. s \o <<>> = s /\ <<>> \o s = s
    BY ConcatEmptySeq
  <1> QED BY <1>1, <1>2, <1>3, <1>4, <1>5

\* The positions of what is left.
LEMMA WithoutElements ==
  ASSUME NEW S, NEW s \in Seq(S), NEW m \in 0..Len(s), NEW n \in 0..Len(s), m <= n
  PROVE  /\ Without(s, m, n) \in Seq(S) /\ Len(Without(s, m, n)) = Len(s) - (n - m)
         /\ \A i \in 1..Len(Without(s, m, n)) :
               Without(s, m, n)[i] = IF i <= m THEN s[i] ELSE s[i + (n - m)]
  <1> DEFINE a == SubSeq(s, 1, m)
             b == SubSeq(s, n + 1, Len(s))
  <1>0. Len(s) \in Nat /\ m \in Nat /\ n \in Nat /\ m <= Len(s) /\ n <= Len(s)
    OBVIOUS
  <1>1. \A i \in 1..Len(s) : s[i] \in S
    BY ElementOfSeq
  <1>2. a \in Seq(S) /\ Len(a) = m /\ \A i \in 1..m : a[i] = s[i]
    <2>1. \A i \in 1..m : s[i] \in S
      BY <1>0, <1>1
    <2> QED BY <1>0, <2>1, SubSeqProperties
  <1>3. b \in Seq(S) /\ Len(b) = Len(s) - n /\ \A i \in 1..(Len(s) - n) : b[i] = s[n + i]
    <2>1. \A i \in (n + 1)..Len(s) : s[i] \in S
      BY <1>0, <1>1
    <2> QED BY <1>0, <2>1, SubSeqProperties
  <1> HIDE DEF a, b
  <1>4. /\ a \o b \in Seq(S) /\ Len(a \o b) = Len(a) + Len(b)
        /\ \A i \in 1..Len(a) + Len(b) :
              (a \o b)[i] = IF i <= Len(a) THEN a[i] ELSE b[i - Len(a)]
    BY <1>2, <1>3, ConcatProperties
  <1>5. ASSUME NEW i \in 1..Len(a \o b)
        PROVE  (a \o b)[i] = IF i <= m THEN s[i] ELSE s[i + (n - m)]
    <2>1. CASE i <= m
      BY <1>0, <1>2, <1>3, <1>4, <2>1
    <2>2. CASE ~(i <= m)
      <3>1. i - m \in 1..(Len(s) - n) /\ n + (i - m) = i + (n - m)
        BY <1>0, <1>2, <1>3, <1>4, <2>2
      <3>2. (a \o b)[i] = b[i - m]
        BY <1>0, <1>2, <1>3, <1>4, <2>2
      <3>3. b[i - m] = s[n + (i - m)]
        BY <1>3, <3>1
      <3> QED BY <2>2, <3>1, <3>2, <3>3
    <2> QED BY <2>1, <2>2
  <1>6. Len(a \o b) = Len(s) - (n - m)
    BY <1>0, <1>2, <1>3, <1>4
  <1>7. Without(s, m, n) = a \o b
    BY DEF Without, a, b
  <1> QED BY <1>4, <1>5, <1>6, <1>7

\* Taking out the middle of three sequences.
LEMMA WithoutMiddle ==
  ASSUME NEW S, NEW a \in Seq(S), NEW b \in Seq(S), NEW c \in Seq(S)
  PROVE  /\ Without(a \o (b \o c), Len(a), Len(a) + Len(b)) = a \o c
         /\ Len(a \o (b \o c)) = Len(a) + Len(b) + Len(c)
         /\ a \o (b \o c) \in Seq(S)
         /\ {Len(a), Len(b), Len(c)} \subseteq Nat
  <1> DEFINE ab == a \o b
             bc == b \o c
             all == a \o bc
  <1>0. Len(a) \in Nat /\ Len(b) \in Nat /\ Len(c) \in Nat
    OBVIOUS
  <1>1. ab \in Seq(S) /\ Len(ab) = Len(a) + Len(b) /\ bc \in Seq(S) /\ Len(bc) = Len(b) + Len(c)
    BY ConcatProperties
  <1>2. all = ab \o c
    BY ConcatAssociative
  <1> HIDE DEF ab, bc
  <1>3. SubSeq(all, 1, Len(a)) = a
    <2>1. SubSeq(a \o bc, 1, Len(a)) = SubSeq(a, 1, Len(a))
      BY <1>0, <1>1, PartsOfConcat
    <2> QED BY <2>1, WholeAndEmpty
  <1>4. SubSeq(all, Len(ab) + 1, Len(all)) = c
    <2>1. Len(ab) \in 0..Len(ab) /\ ab \in Seq(S)
      BY <1>0, <1>1
    <2>2. SubSeq(ab \o c, Len(ab) + 1, Len(ab \o c)) = SubSeq(ab, Len(ab) + 1, Len(ab)) \o c
      <3> HIDE DEF all
      <3> QED BY <2>1, PartsOfConcat
    <2>3. SubSeq(ab, Len(ab) + 1, Len(ab)) \o c = c
      BY <1>1, WholeAndEmpty
    <2> QED BY <1>2, <2>2, <2>3
  <1>5. all \in Seq(S) /\ Len(all) = Len(a) + Len(bc)
    BY <1>1, ConcatProperties
  <1>6. Without(all, Len(a), Len(a) + Len(b)) = a \o c
    BY <1>1, <1>3, <1>4 DEF Without
  <1>7. Len(all) = Len(a) + Len(b) + Len(c)
    BY <1>0, <1>1, <1>5
  <1> QED BY <1>0, <1>5, <1>6, <1>7 DEF bc

\* The pipeline is the file followed by what is in memory.
LEMMA PipelineType ==
  ASSUME TypeOK
  PROVE  /\ Pipeline = wal \o (batch \o walEntries) /\ Pipeline \in Seq(Entry)
         /\ Len(Pipeline) \in Nat
         /\ batch \o walEntries \in Seq(Entry)
         /\ Len(Pipeline) = Len(wal) + Len(batch \o walEntries)
  <1>1. wal \in Seq(Entry) /\ batch \in Seq(Entry) /\ walEntries \in Seq(Entry)
    BY SequencesType
  <1>2. Pipeline = wal \o (batch \o walEntries)
    BY <1>1, ConcatAssociative DEF Pipeline
  <1>3. batch \o walEntries \in Seq(Entry)
    BY <1>1, ConcatProperties
  <1>4. /\ wal \o (batch \o walEntries) \in Seq(Entry)
        /\ Len(wal \o (batch \o walEntries)) = Len(wal) + Len(batch \o walEntries)
    BY <1>1, <1>3, ConcatProperties
  <1> QED BY <1>2, <1>3, <1>4, LenProperties

\* The pipeline after processWAL has handed on entries: as before, or without those
\* that could not be written.
LEMMA HandedPipeline ==
  ASSUME TypeOK, NEW b \in Seq(Entry), NEW q \in Seq(Entry), Handed(b, q)
  PROVE  /\ Pipeline = wal \o (b \o q)
         /\ \/ Pipeline' = Pipeline
            \/ Pipeline' = wal \o q /\ wal' = wal /\ batch' = <<>> /\ walEntries' = q
  <1>0. wal \in Seq(Entry)
    BY SequencesType
  <1>1. Pipeline = wal \o (b \o q)
    BY PipelineType DEF Handed
  <1>2. CASE wal' = wal /\ batch' = b
    <2>1. Pipeline' = (wal \o b) \o q
      BY <1>2 DEF Pipeline, Handed
    <2> QED BY <1>0, <1>1, <2>1, ConcatAssociative
  <1>3. CASE wal' = wal \o b /\ batch' = <<>>
    <2>1. Pipeline' = ((wal \o b) \o <<>>) \o q
      BY <1>3 DEF Pipeline, Handed
    <2>2. wal \o b \in Seq(Entry)
      BY <1>0, ConcatProperties
    <2>3. (wal \o b) \o <<>> = wal \o b
      BY <2>2, WholeAndEmpty
    <2> QED BY <1>0, <1>1, <2>1, <2>3, ConcatAssociative
  <1>4. CASE wal' = wal /\ batch' = <<>>
    <2>1. Pipeline' = (wal \o <<>>) \o q /\ walEntries' = q
      BY <1>4 DEF Pipeline, Handed
    <2>2. wal \o <<>> = wal
      BY <1>0, WholeAndEmpty
    <2> QED BY <1>1, <1>4, <2>1, <2>2
  <1> QED BY <1>1, <1>2, <1>3, <1>4 DEF Handed

\* A write enters at the end of the pipeline.
LEMMA LogPipeline ==
  ASSUME TypeOK, NEW k \in Keys, Log(k)
  PROVE  /\ [key |-> k, ver |-> next] \in Entry
         /\ Pipeline' = Append(Pipeline, [key |-> k, ver |-> next])
  <1> DEFINE e == [key |-> k, ver |-> next]
             front == wal \o batch
  <1>1. next \in Versions
    BY MaxWritesAssumption DEF Log, TypeOK, Versions
  <1>2. e \in Entry
    BY <1>1 DEF Entry
  <1>3. walEntries \in Seq(Entry) /\ front \in Seq(Entry) /\ <<e>> \in Seq(Entry)
    BY <1>2, SequencesType, ConcatProperties
  <1>4. Pipeline' = front \o Append(walEntries, e) /\ Pipeline = front \o walEntries
    BY DEF Log, Pipeline
  <1>5. front \o walEntries \in Seq(Entry)
    BY <1>3, ConcatProperties
  <1> HIDE DEF e, front
  <1>6. Append(walEntries, e) = walEntries \o <<e>>
    BY <1>2, <1>3, AppendIsConcat
  <1>7. Append(front \o walEntries, e) = (front \o walEntries) \o <<e>>
    BY <1>2, <1>5, AppendIsConcat
  <1>8. front \o (walEntries \o <<e>>) = (front \o walEntries) \o <<e>>
    BY <1>3, ConcatAssociative
  <1> QED BY <1>2, <1>4, <1>6, <1>7, <1>8 DEF e

\* The end of the process leaves the file, or an initial part of it.
LEMMA EndPipeline ==
  ASSUME TypeOK, ProcessEnds, NEW n \in 0..Len(wal), wal' = SubSeq(wal, 1, n)
  PROVE  Pipeline' = SubSeq(wal, 1, n) /\ SubSeq(wal, 1, n) = SubSeq(Pipeline, 1, n)
  <1>1. Pipeline' = (SubSeq(wal, 1, n) \o <<>>) \o <<>>
    BY DEF Pipeline, ProcessEnds
  <1>2. /\ SubSeq(wal \o (batch \o walEntries), 1, n) = SubSeq(wal, 1, n)
        /\ SubSeq(wal, 1, n) \in Seq(Entry)
    BY SequencesType, PipelineType, PartsOfConcat
  <1>3. SubSeq(wal, 1, n) \o <<>> = SubSeq(wal, 1, n)
    BY <1>2, WholeAndEmpty
  <1> QED BY <1>1, <1>2, <1>3, PipelineType

\* Every step lets a write in at the end of the pipeline, or takes a run of entries
\* out of it, which may be empty.
LEMMA PipelineStep ==
  ASSUME TypeOK, [Next]_vars
  PROVE  \/ \E k \in Keys : Log(k)
         \/ \E m, n \in 0..Len(Pipeline) : m <= n /\ Pipeline' = Without(Pipeline, m, n)
  <1> USE DEF walVars, lifeVars
  <1>0. /\ Pipeline \in Seq(Entry) /\ Len(Pipeline) \in Nat
        /\ wal \in Seq(Entry) /\ Len(wal) \in Nat /\ synced \in Nat /\ synced <= Len(wal)
    BY PipelineType, SequencesType
  <1>1. ASSUME Pipeline' = Pipeline
        PROVE  \E m, n \in 0..Len(Pipeline) : m <= n /\ Pipeline' = Without(Pipeline, m, n)
    <2>1. Without(Pipeline, 0, 0) = Pipeline
      BY <1>0, WholeAndEmpty DEF Without
    <2> QED BY <1>0, <1>1, <2>1
  <1>2. ASSUME NEW n \in 0..Len(wal), wal' = SubSeq(wal, 1, n), ProcessEnds
        PROVE  \E m, nn \in 0..Len(Pipeline) : m <= nn /\ Pipeline' = Without(Pipeline, m, nn)
    <2>1. Pipeline' = SubSeq(Pipeline, 1, n)
      BY <1>2, EndPipeline
    <2>2. n \in 0..Len(Pipeline) /\ n <= Len(Pipeline)
      BY <1>0, PipelineType, LenProperties
    <2>3. SubSeq(Pipeline, 1, n) \in Seq(Entry)
      BY <1>0, <2>2, PartsOfConcat
    <2>4. Without(Pipeline, n, Len(Pipeline)) = SubSeq(Pipeline, 1, n)
      BY <1>0, <2>3, WholeAndEmpty DEF Without
    <2> QED BY <1>0, <2>1, <2>2, <2>4
  <1>3. CASE UNCHANGED <<wal, batch, walEntries>>
    BY <1>1, <1>3 DEF Pipeline
  <1>4. CASE TakeEntry \/ Flush \/ FinalFlush \/ Drain
    <2>1. PICK b \in Seq(Entry), q \in Seq(Entry) : Handed(b, q)
      BY <1>4, ProcStep
    <2>2. /\ Pipeline = wal \o (b \o q)
          /\ Pipeline' = Pipeline \/ Pipeline' = wal \o q
      BY <2>1, HandedPipeline
    <2>3. CASE Pipeline' = wal \o q
      <3>1. /\ Without(Pipeline, Len(wal), Len(wal) + Len(b)) = wal \o q
            /\ Len(Pipeline) = Len(wal) + Len(b) + Len(q)
            /\ Len(b) \in Nat /\ Len(q) \in Nat
        BY <1>0, <2>2, WithoutMiddle
      <3>2. /\ Len(wal) \in 0..Len(Pipeline) /\ Len(wal) + Len(b) \in 0..Len(Pipeline)
            /\ Len(wal) <= Len(wal) + Len(b)
        BY <1>0, <3>1
      <3> QED BY <2>3, <3>1, <3>2
    <2> QED BY <1>1, <2>2, <2>3
  <1>5. CASE Exit \/ Panic
    <2>1. ProcessEnds /\ wal' = wal
      BY <1>5 DEF Exit, Panic
    <2>2. wal' = SubSeq(wal, 1, Len(wal)) /\ Len(wal) \in 0..Len(wal)
      BY <1>0, <2>1, WholeAndEmpty
    <2> QED BY <1>2, <2>1, <2>2
  <1>6. CASE PowerLoss
    <2>1. PICK n \in synced..Len(wal) : wal' = SubSeq(wal, 1, n)
      BY <1>6 DEF PowerLoss
    <2>2. ProcessEnds /\ n \in 0..Len(wal)
      BY <1>0, <1>6 DEF PowerLoss
    <2> QED BY <1>2, <2>1, <2>2
  <1>7. CASE \/ NewStorage \/ Start \/ Fsync \/ Cancel \/ ShutdownCall \/ CloseFile \/ CloseDB
             \/ CloseStream \/ BadgerFlush \/ UNCHANGED vars
             \/ \E w \in writers : Commit(w) \/ Ack(w)
    <2>1. UNCHANGED <<wal, batch, walEntries>>
      BY <1>7 DEF NewStorage, Start, Fsync, Cancel, ShutdownCall, CloseFile, CloseDB,
                  CloseStream, ShutdownStep, BadgerFlush, vars, Commit, Ack
    <2> QED BY <1>3, <2>1
  <1> QED BY <1>4, <1>5, <1>6, <1>7 DEF Next

----------------------------------------------------------------------------
\* The order of the log

\* Versions in the pipeline rise, and are those of writes begun.
OrderInv ==
    /\ LogInOrder
    /\ \A i \in 1..Len(Pipeline) : Pipeline[i].ver < next

\* next only counts the writes up.
LEMMA NextVersion ==
  ASSUME TypeOK, [Next]_vars
  PROVE  next' = next \/ \E k \in Keys : Log(k)
  BY DEF Next, NewStorage, Start, Commit, Ack, TakeEntry, Flush, FinalFlush, Drain, Fsync,
         Cancel, ShutdownCall, CloseFile, CloseDB, CloseStream, ShutdownStep, Exit, Panic,
         PowerLoss, ProcessEnds, BadgerFlush, vars

\* A step that leaves next alone logs nothing.
LEMMA LogCounts ==
  ASSUME TypeOK, next' = next
  PROVE  ~\E k \in Keys : Log(k)
  <1>1. next \in Nat
    BY MaxWritesAssumption DEF TypeOK
  <1>2. ASSUME NEW k \in Keys, Log(k) PROVE FALSE
    <2>1. next' = next + 1
      BY <1>2 DEF Log
    <2> QED BY <1>1, <2>1
  <1> QED BY <1>2

\* The elements of a sequence of entries.
LEMMA EntryTypes ==
  ASSUME NEW s \in Seq(Entry), NEW i \in 1..Len(s)
  PROVE  s[i] \in Entry /\ s[i].ver \in Nat /\ s[i].key \in Keys
  <1>1. s[i] \in Entry
    BY ElementOfSeq
  <1> QED BY <1>1, MaxWritesAssumption DEF Entry, Versions

\* Every step keeps the order.
LEMMA NextOrder == TypeOK /\ OrderInv /\ [Next]_vars => OrderInv'
  <1> SUFFICES ASSUME TypeOK, OrderInv, [Next]_vars PROVE OrderInv'
    OBVIOUS
  <1> DEFINE s == Pipeline
             t == Pipeline'
  <1>0. s \in Seq(Entry) /\ Len(s) \in Nat /\ next \in Nat
    BY PipelineType, MaxWritesAssumption DEF TypeOK
  <1>1. /\ \A i, j \in 1..Len(s) : i < j => s[i].ver < s[j].ver
        /\ \A i \in 1..Len(s) : s[i].ver < next /\ s[i].ver \in Nat
    BY <1>0, EntryTypes DEF OrderInv, LogInOrder
  <1>2. ASSUME /\ \A i, j \in 1..Len(t) : i < j => t[i].ver < t[j].ver
               /\ \A i \in 1..Len(t) : t[i].ver < next'
        PROVE  OrderInv'
    BY <1>2 DEF OrderInv, LogInOrder
  <1>3. ASSUME NEW k \in Keys, Log(k) PROVE OrderInv'
    <2> DEFINE e == [key |-> k, ver |-> next]
    <2>1. t = Append(s, e) /\ e \in Entry /\ next' = next + 1
      BY <1>3, LogPipeline DEF Log
    <2>2. e.ver = next
      OBVIOUS
    <2> HIDE DEF e, s, t
    <2>3. /\ Len(t) = Len(s) + 1 /\ \A i \in 1..Len(s) : t[i] = s[i]
          /\ t[Len(s) + 1] = e
      BY <1>0, <2>1, AppendProperties
    <2>4. \A i \in 1..Len(t) : i \in 1..Len(s) \/ i = Len(s) + 1
      BY <1>0, <2>3
    <2>5. \A i \in 1..Len(t) : t[i].ver < next'
      BY <1>0, <1>1, <2>1, <2>2, <2>3, <2>4
    <2>6. ASSUME NEW i \in 1..Len(t), NEW j \in 1..Len(t), i < j PROVE t[i].ver < t[j].ver
      <3>1. i \in 1..Len(s)
        BY <1>0, <2>3, <2>6
      <3>2. CASE j \in 1..Len(s)
        BY <1>1, <2>3, <2>6, <3>1, <3>2
      <3>3. CASE j = Len(s) + 1
        BY <1>1, <2>2, <2>3, <3>1, <3>3
      <3> QED BY <2>4, <3>2, <3>3
    <2> QED BY <1>2, <2>5, <2>6
  <1>4. ASSUME NEW m \in 0..Len(s), NEW n \in 0..Len(s), m <= n, t = Without(s, m, n),
               next' = next
        PROVE  OrderInv'
    <2> HIDE DEF s, t
    <2> DEFINE at(i) == IF i <= m THEN i ELSE i + (n - m)
    <2>1. /\ Len(t) = Len(s) - (n - m)
          /\ \A i \in 1..Len(t) : t[i] = IF i <= m THEN s[i] ELSE s[i + (n - m)]
      BY <1>0, <1>4, WithoutElements
    <2>2. /\ \A i \in 1..Len(t) : at(i) \in 1..Len(s) /\ t[i] = s[at(i)]
          /\ \A i, j \in 1..Len(t) : i < j => at(i) < at(j)
      BY <1>0, <1>4, <2>1
    <2> HIDE DEF at
    <2>3. \A i \in 1..Len(t) : t[i].ver < next'
      BY <1>1, <1>4, <2>2
    <2>4. \A i, j \in 1..Len(t) : i < j => t[i].ver < t[j].ver
      BY <1>1, <2>2
    <2> QED BY <1>2, <2>3, <2>4
  <1> HIDE DEF s, t
  <1> QED BY <1>3, <1>4, PipelineStep, NextVersion DEF s, t

\* The log keeps the order of the writes: no batch, drain loop, failed write, crash
\* or restart puts a write before an earlier one, or logs one twice.
THEOREM LogKeepsOrder == Spec => []LogInOrder
  <1>1. Init => OrderInv
    <2> SUFFICES ASSUME Init PROVE OrderInv
      OBVIOUS
    <2>1. TypeOK
      BY InitType
    <2>2. wal = <<>> /\ batch = <<>> /\ walEntries = <<>>
      BY DEF Init
    <2>3. Pipeline = <<>>
      BY <2>2, WholeAndEmpty, SequencesType, <2>1 DEF Pipeline
    <2>4. 1..Len(Pipeline) = {}
      BY <2>3
    <2> QED BY <2>4 DEF OrderInv, LogInOrder
  <1>2. OrderInv => LogInOrder
    BY DEF OrderInv
  <1> QED BY <1>1, <1>2, InitType, NextType, NextOrder, PTL DEF Spec

----------------------------------------------------------------------------
\* Logged work units are stored

\* The entries of the pipeline, in no order.
Logged == {Pipeline[i] : i \in 1..Len(Pipeline)}

\* A write is known by its version, and a work unit is written once.
SameWrite(x, y) ==
    /\ x.ver = y.ver => x.key = y.key
    /\ x.key = y.key /\ x.key \in WorkUnits => x.ver = y.ver

\* x was begun: its version is used, and its key if it is a UUID.
Begun(x) == x.ver < next /\ (x.key \in WorkUnits => x.key \in issued)

\* Badger has the work unit, or the call that stores it is about to put it there.
InStore(e) ==
    e.key \in WorkUnits =>
        \/ db[e.key] = e.ver
        \/ \E w \in writers : w.stage = "logged" /\ w.ver = e.ver

\* The entries and the calls belong together; a process that is down has nothing
\* in memory; LoggedIsStored holds of the whole pipeline.
StoreInv ==
    /\ \A x \in Logged \cup writers : Begun(x)
    /\ \A x \in Logged, y \in Logged \cup writers : SameWrite(x, y)
    /\ status = "down" => batch = <<>> /\ walEntries = <<>> /\ writers = {}
    /\ Up /\ DBOpen => \A e \in Logged : InStore(e)

\* A step that logs nothing keeps some of the entries.
LEMMA LoggedShrinks ==
  ASSUME TypeOK, [Next]_vars, ~\E k \in Keys : Log(k)
  PROVE  Logged' \subseteq Logged
  <1>0. Pipeline \in Seq(Entry) /\ Len(Pipeline) \in Nat
    BY PipelineType
  <1>1. PICK m \in 0..Len(Pipeline), n \in 0..Len(Pipeline) :
           m <= n /\ Pipeline' = Without(Pipeline, m, n)
    BY PipelineStep
  <1>2. /\ Len(Pipeline') = Len(Pipeline) - (n - m)
        /\ \A i \in 1..Len(Pipeline') :
              Pipeline'[i] = IF i <= m THEN Pipeline[i] ELSE Pipeline[i + (n - m)]
    BY <1>0, <1>1, WithoutElements
  <1>3. ASSUME NEW i \in 1..Len(Pipeline')
        PROVE  \E j \in 1..Len(Pipeline) : Pipeline'[i] = Pipeline[j]
    <2>1. CASE i <= m
      <3>1. i \in 1..Len(Pipeline)
        BY <1>0, <1>1, <1>2, <2>1
      <3>2. Pipeline'[i] = Pipeline[i]
        BY <1>2, <2>1
      <3> QED BY <3>1, <3>2
    <2>2. CASE ~(i <= m)
      <3>1. i + (n - m) \in 1..Len(Pipeline)
        BY <1>0, <1>1, <1>2, <2>2
      <3>2. Pipeline'[i] = Pipeline[i + (n - m)]
        BY <1>2, <2>2
      <3> QED BY <3>1, <3>2
    <2> QED BY <2>1, <2>2
  <1> QED BY <1>3 DEF Logged

\* A write adds its entry.
LEMMA LoggedGrows ==
  ASSUME TypeOK, NEW k \in Keys, Log(k)
  PROVE  Logged' = Logged \cup {[key |-> k, ver |-> next]}
  <1> DEFINE e == [key |-> k, ver |-> next]
  <1>0. Pipeline \in Seq(Entry) /\ Len(Pipeline) \in Nat
    BY PipelineType
  <1>1. e \in Entry /\ Pipeline' = Append(Pipeline, e)
    BY LogPipeline
  <1> HIDE DEF e
  <1>2. /\ Len(Pipeline') = Len(Pipeline) + 1
        /\ \A i \in 1..Len(Pipeline) : Pipeline'[i] = Pipeline[i]
        /\ Pipeline'[Len(Pipeline) + 1] = e
    BY <1>0, <1>1, AppendProperties
  <1>3. 1..Len(Pipeline') = (1..Len(Pipeline)) \cup {Len(Pipeline) + 1}
    BY <1>0, <1>2
  <1>4. Logged' = {Pipeline'[i] : i \in 1..Len(Pipeline')}
    BY DEF Logged
  <1>5. \A x \in Logged' : x \in Logged \cup {e}
    BY <1>2, <1>3, <1>4 DEF Logged
  <1>6. \A x \in Logged \cup {e} : x \in Logged'
    BY <1>2, <1>3, <1>4 DEF Logged
  <1>7. Logged' = Logged \cup {e}
    BY <1>5, <1>6
  <1> QED BY <1>7 DEF e

\* The entries and the writes are what they look like.
LEMMA LoggedTypes ==
  ASSUME TypeOK
  PROVE  /\ Logged \subseteq Entry /\ writers \subseteq Write
         /\ \A x \in Logged \cup writers : x.ver \in Nat /\ x.key \in Keys
         /\ next \in Nat
  <1>1. Logged \subseteq Entry
    BY PipelineType, ElementOfSeq DEF Logged
  <1>2. writers \subseteq Write /\ next \in Nat
    BY MaxWritesAssumption DEF TypeOK
  <1>3. \A x \in Entry : x.ver \in Nat /\ x.key \in Keys
    BY MaxWritesAssumption DEF Entry, Versions
  <1>4. \A x \in Write : x.ver \in Nat /\ x.key \in Keys
    BY MaxWritesAssumption DEF Write, Versions
  <1> QED BY <1>1, <1>2, <1>3, <1>4

\* Steps that log nothing, begin no write and leave db and the writes to Badger
\* alone, while storage is up.
LEMMA StoreInvShrinks ==
  ASSUME TypeOK, StoreInv, Logged' \subseteq Logged, next' = next, issued' = issued,
         writers' \subseteq writers,
         status' = "down" => batch' = <<>> /\ walEntries' = <<>> /\ writers' = {},
         Up' /\ DBOpen' => \/ \A e \in Logged' : InStore(e)'
                           \/ /\ Up /\ DBOpen /\ db' = db
                              /\ \A w \in writers : w.stage = "logged" => w \in writers'
  PROVE  StoreInv'
  <1>1. \A x \in (Logged \cup writers)' : Begun(x)'
    BY DEF StoreInv, Begun
  <1>2. \A x \in Logged', y \in (Logged \cup writers)' : SameWrite(x, y)'
    BY DEF StoreInv, SameWrite
  <1>3. Up' /\ DBOpen' => \A e \in Logged' : InStore(e)'
    BY DEF StoreInv, InStore
  <1> QED BY <1>1, <1>2, <1>3 DEF StoreInv

\* A call begins.
LEMMA LogStored ==
  ASSUME TypeOK, StoreInv, NEW k \in Keys, Log(k)
  PROVE  StoreInv'
  <1> DEFINE e == [key |-> k, ver |-> next]
             w == [stage |-> "logged", key |-> k, ver |-> next]
  <1>0. /\ Logged' = Logged \cup {e} /\ writers' = writers \cup {w} /\ next' = next + 1
        /\ issued' = issued \cup ({k} \cap WorkUnits) /\ k \notin issued
        /\ UNCHANGED <<status, shutdown, db>> /\ status # "down"
    BY LoggedGrows DEF Log, lifeVars, Up
  <1>1. e.key = k /\ e.ver = next /\ w.key = k /\ w.ver = next /\ w.stage = "logged"
    OBVIOUS
  <1> HIDE DEF e, w
  <1>2. /\ \A x \in Logged \cup writers : x.ver \in Nat /\ x.ver < next
        /\ next \in Nat
    BY LoggedTypes DEF StoreInv, Begun
  <1>3. \A x \in (Logged \cup writers)' : Begun(x)'
    <2>1. \A x \in Logged \cup writers : Begun(x)'
      BY <1>0, <1>2 DEF StoreInv, Begun
    <2>2. ASSUME NEW x, x = e \/ x = w PROVE Begun(x)'
      <3>1. x.ver = next /\ x.key = k
        BY <1>1, <2>2
      <3> QED BY <1>0, <1>2, <3>1 DEF Begun
    <2>3. (Logged \cup writers)' = Logged \cup writers \cup {e, w}
      BY <1>0
    <2> QED BY <2>1, <2>2, <2>3
  <1>4. \A x \in Logged', y \in (Logged \cup writers)' : SameWrite(x, y)
    <2>1. \A x \in Logged, y \in Logged \cup writers : SameWrite(x, y)
      BY DEF StoreInv
    <2>2. \A x \in Logged \cup writers : x.ver # next /\ (x.key \in WorkUnits => x.key # k)
      BY <1>0, <1>2 DEF StoreInv, Begun
    <2>3. \A x \in Logged \cup writers : SameWrite(x, e) /\ SameWrite(e, x) /\ SameWrite(x, w)
      BY <1>1, <2>2 DEF SameWrite
    <2>4. SameWrite(e, e) /\ SameWrite(e, w)
      BY <1>1 DEF SameWrite
    <2> QED BY <1>0, <2>1, <2>3, <2>4
  <1>5. Up' /\ DBOpen' => \A x \in Logged' : InStore(x)'
    <2>1. ASSUME NEW x \in Logged, InStore(x) PROVE InStore(x)'
      BY <1>0, <2>1 DEF InStore
    <2>2. ASSUME NEW x, x = e PROVE InStore(x)'
      BY <1>0, <1>1, <2>2 DEF InStore
    <2> QED BY <1>0, <2>1, <2>2 DEF StoreInv, Up, DBOpen
  <1>6. \A x \in Logged', y \in (Logged \cup writers)' : SameWrite(x, y)'
    BY <1>4 DEF SameWrite
  <1> QED BY <1>0, <1>3, <1>5, <1>6 DEF StoreInv

\* The Badger transaction of a call.
LEMMA CommitStored ==
  ASSUME TypeOK, StoreInv, NEW w \in writers, Commit(w), Logged' = Logged
  PROVE  StoreInv'
  <1> DEFINE c == [w EXCEPT !.stage = "committed"]
  <1>0. /\ UNCHANGED <<status, shutdown, batch, walEntries, next, issued>>
        /\ w.stage = "logged" /\ w \in Write /\ db \in [Keys -> 0..MaxWrites]
    BY DEF Commit, lifeVars, walVars, TypeOK
  <1>1. c.key = w.key /\ c.ver = w.ver /\ c.stage = "committed" /\ w.key \in Keys
    BY <1>0 DEF Write
  <1>2. CASE ~DBOpen
    <2>1. writers' = writers \ {w} /\ ~DBOpen'
      BY <1>0, <1>2 DEF Commit, DBOpen
    <2>2. status # "down"
      BY DEF StoreInv
    <2> QED BY <1>0, <2>1, <2>2, StoreInvShrinks
  <1>3. CASE DBOpen
    <2>1. db' = [db EXCEPT ![w.key] = w.ver] /\ writers' = (writers \ {w}) \cup {c}
      BY <1>3 DEF Commit
    <2> HIDE DEF c
    <2>2. \A x \in (Logged \cup writers)' : Begun(x)'
      BY <1>0, <1>1, <2>1 DEF StoreInv, Begun
    <2>3. \A x \in Logged', y \in (Logged \cup writers)' : SameWrite(x, y)'
      <3>1. \A x \in Logged : SameWrite(x, w)
        BY DEF StoreInv
      <3>2. \A x \in Logged : SameWrite(x, c)
        BY <1>1, <3>1 DEF SameWrite
      <3>3. \A x \in Logged, y \in Logged \cup writers' : SameWrite(x, y)
        BY <2>1, <3>2 DEF StoreInv
      <3> QED BY <3>3 DEF SameWrite
    <2>4. ASSUME Up', DBOpen', NEW x \in Logged', x.key \in WorkUnits
          PROVE  InStore(x)'
      <3>1. SameWrite(x, w) /\ InStore(x) /\ x.key \in Keys
        BY <1>0, <2>4, LoggedTypes DEF StoreInv, Up, DBOpen
      <3>2. CASE x.key = w.key
        <4>1. db'[x.key] = w.ver /\ x.ver = w.ver
          BY <1>0, <2>1, <2>4, <3>1, <3>2 DEF SameWrite
        <4> QED BY <4>1 DEF InStore
      <3>3. CASE x.key # w.key
        <4>1. db'[x.key] = db[x.key] /\ x.ver # w.ver
          BY <1>0, <2>1, <3>1, <3>3 DEF SameWrite
        <4>2. CASE db[x.key] = x.ver
          BY <4>1, <4>2 DEF InStore
        <4>3. ASSUME NEW v \in writers, v.stage = "logged", v.ver = x.ver
              PROVE  InStore(x)'
          <5>1. v \in writers'
            BY <2>1, <4>1, <4>3
          <5> QED BY <4>3, <5>1 DEF InStore
        <4> QED BY <2>4, <3>1, <4>2, <4>3 DEF InStore
      <3> QED BY <3>2, <3>3
    <2>5. status' # "down"
      BY <1>0 DEF StoreInv
    <2>6. Up' /\ DBOpen' => \A x \in Logged' : InStore(x)'
      BY <2>4 DEF InStore
    <2> QED BY <2>2, <2>3, <2>5, <2>6 DEF StoreInv
  <1> QED BY <1>2, <1>3

\* Replay gives a work unit the version of its entry in the file.
LEMMA ReplayStores ==
  ASSUME TypeOK, StoreInv, NewStorage, Logged' = Logged
  PROVE  \A e \in Logged' : InStore(e)'
  <1>0. batch = <<>> /\ walEntries = <<>> /\ wal \in Seq(Entry) /\ db' = Replayed
    BY SequencesType DEF NewStorage, StoreInv
  <1>1. Pipeline = wal
    BY <1>0, WholeAndEmpty DEF Pipeline
  <1> SUFFICES ASSUME NEW e \in Logged, e.key \in WorkUnits PROVE db'[e.key] = e.ver
    BY DEF InStore
  <1> DEFINE hits == {i \in 1..Len(wal) : wal[i].key = e.key}
  <1>2. e.key \in Keys
    BY DEF Keys
  <1>3. hits # {}
    BY <1>1 DEF Logged
  <1>4. Replayed[e.key] = wal[Max(hits)].ver
    BY <1>2, <1>3 DEF Replayed
  <1>5. Max(hits) \in hits
    BY <1>0, <1>3, MaxIsLast, LenProperties
  <1>6. wal[Max(hits)] \in Logged /\ wal[Max(hits)].key = e.key
    BY <1>1, <1>5 DEF Logged
  <1>7. SameWrite(wal[Max(hits)], e)
    BY <1>6 DEF StoreInv
  <1> QED BY <1>0, <1>4, <1>6, <1>7 DEF SameWrite

\* Every step keeps StoreInv.
LEMMA NextStored == TypeOK /\ StoreInv /\ [Next]_vars => StoreInv'
  <1> SUFFICES ASSUME TypeOK, StoreInv, [Next]_vars PROVE StoreInv'
    OBVIOUS
  <1> USE DEF walVars, lifeVars
  <1>1. ASSUME NEW k \in Keys, Log(k) PROVE StoreInv'
    BY <1>1, LogStored
  <1>2. ASSUME UNCHANGED <<wal, batch, walEntries>> PROVE Logged' = Logged
    BY <1>2 DEF Logged, Pipeline
  <1>3. ASSUME NEW w \in writers, Commit(w) PROVE StoreInv'
    BY <1>2, <1>3, CommitStored DEF Commit
  <1>4. ASSUME NEW w \in writers, Ack(w) PROVE StoreInv'
    <2>1. /\ UNCHANGED <<wal, batch, walEntries, next, issued, status, shutdown, db>>
          /\ w.stage = "committed" /\ writers' = writers \ {w}
      BY <1>4 DEF Ack
    <2>2. \A v \in writers : v.stage = "logged" => v \in writers'
      BY <2>1
    <2> QED BY <1>2, <2>1, <2>2, StoreInvShrinks DEF Up, DBOpen, StoreInv
  <1>5. CASE NewStorage
    <2>1. /\ UNCHANGED <<wal, batch, walEntries, next, issued, shutdown, writers>>
          /\ status' = "open"
      BY <1>5 DEF NewStorage
    <2>2. \A e \in Logged' : InStore(e)'
      BY <1>2, <1>5, <2>1, ReplayStores
    <2> QED BY <1>2, <2>1, <2>2, StoreInvShrinks
  <1>6. CASE TakeEntry \/ Flush \/ FinalFlush \/ Drain \/ Fsync \/ Start \/ Cancel \/ ShutdownCall
             \/ CloseFile \/ CloseDB \/ CloseStream \/ BadgerFlush \/ UNCHANGED vars
    <2>1. /\ UNCHANGED <<next, issued, db, writers>>
          /\ shutdown' = "no" => shutdown = "no"
          /\ DBOpen' => DBOpen
      BY <1>6 DEF TakeEntry, Flush, FinalFlush, Drain, Fsync, Start, Cancel, ShutdownCall,
                  CloseFile, CloseDB, CloseStream, ShutdownStep, BadgerFlush, vars, DBOpen
    <2>2. status' = status \/ Start
      BY <1>6 DEF TakeEntry, Flush, FinalFlush, Drain, Fsync, Cancel, ShutdownCall,
                  CloseFile, CloseDB, CloseStream, ShutdownStep, BadgerFlush, vars
    <2>3. Up' => Up
      BY <2>2 DEF Up, Start
    <2>4. ~\E k \in Keys : Log(k)
      BY <2>1, LogCounts
    <2>5. Logged' \subseteq Logged
      BY <2>4, LoggedShrinks
    <2>6. ASSUME status' = "down"
          PROVE  batch' = <<>> /\ walEntries' = <<>> /\ writers' = {}
      <3>1. status = "down" /\ batch = <<>> /\ walEntries = <<>> /\ writers = {}
        BY <2>2, <2>6 DEF StoreInv, Start
      <3>2. CASE TakeEntry \/ Flush \/ FinalFlush \/ Drain
        <4>1. PICK b \in Seq(Entry), q \in Seq(Entry) : Handed(b, q)
          BY <3>2, ProcStep
        <4>2. b \o q = <<>>
          BY <3>1, <4>1, ConcatEmptySeq DEF Handed
        <4>3. b = <<>> /\ q = <<>>
          BY <4>2, ConcatEqualIffEmpty
        <4> QED BY <2>1, <3>1, <4>1, <4>3 DEF Handed
      <3>3. CASE ~(TakeEntry \/ Flush \/ FinalFlush \/ Drain)
        <4>1. UNCHANGED <<batch, walEntries>>
          BY <1>6, <3>3 DEF Fsync, Start, Cancel, ShutdownCall, CloseFile, CloseDB,
                  CloseStream, ShutdownStep, BadgerFlush, vars
        <4> QED BY <2>1, <3>1, <4>1
      <3> QED BY <3>2, <3>3
    <2> QED BY <2>1, <2>3, <2>5, <2>6, StoreInvShrinks
  <1>7. CASE Exit \/ Panic \/ PowerLoss
    <2>1. ProcessEnds
      BY <1>7 DEF Exit, Panic, PowerLoss
    <2>2. /\ batch' = <<>> /\ walEntries' = <<>> /\ writers' = {} /\ status' = "down"
          /\ next' = next /\ issued' = issued
      BY <2>1 DEF ProcessEnds
    <2>3. ~\E k \in Keys : Log(k)
      BY <2>2, LogCounts
    <2>4. Logged' \subseteq Logged
      BY <2>3, LoggedShrinks
    <2>5. ~Up'
      BY <2>2 DEF Up
    <2> QED BY <2>2, <2>4, <2>5, StoreInvShrinks
  <1> QED BY <1>1, <1>3, <1>4, <1>5, <1>6, <1>7 DEF Next

\* A work unit in the file is in Badger whenever storage is usable and no call is in
\* the middle of storing it, for any history of crashes, power losses, shutdowns and
\* restarts: replayWAL brings back what a crash kept out of Badger.
THEOREM LoggedUnitsAreStored == Spec => []LoggedIsStored
  <1>1. Init => StoreInv
    <2> SUFFICES ASSUME Init PROVE StoreInv
      OBVIOUS
    <2>1. wal = <<>> /\ batch = <<>> /\ walEntries = <<>> /\ writers = {} /\ status = "down"
      BY DEF Init
    <2>2. wal \in Seq(Entry)
      BY InitType, SequencesType
    <2>3. Pipeline = <<>>
      BY <2>1, <2>2, WholeAndEmpty DEF Pipeline
    <2>4. Logged = {}
      BY <2>3 DEF Logged
    <2> QED BY <2>1, <2>4 DEF StoreInv, Up
  <1>2. TypeOK /\ StoreInv => LoggedIsStored
    <2> SUFFICES ASSUME TypeOK, StoreInv, Up, DBOpen, NEW i \in 1..Len(wal)
                 PROVE  InStore(wal[i])
      BY DEF LoggedIsStored, InStore
    <2>1. /\ wal \in Seq(Entry) /\ batch \o walEntries \in Seq(Entry)
          /\ Pipeline = wal \o (batch \o walEntries)
      BY SequencesType, PipelineType
    <2>2. i \in 1..Len(Pipeline) /\ Pipeline[i] = wal[i]
      BY <2>1, ConcatProperties, LenProperties
    <2>3. wal[i] \in Logged
      BY <2>2 DEF Logged
    <2> QED BY <2>3 DEF StoreInv
  <1> QED BY <1>1, <1>2, InitType, NextType, NextStored, PTL DEF Spec

----------------------------------------------------------------------------
\* The refinement of DurableLog

\* What DurableLog calls log and pending.
Durable == SubSeq(wal, 1, synced)
Pending == SubSeq(Pipeline, synced + 1, Len(Pipeline))

\* What is in the file and not covered by an fsync, and what is in memory.
Unsynced == SubSeq(wal, synced + 1, Len(wal))
InMemory == batch \o walEntries

\* The first elements of a rest of s.
LEMMA StartOfRest ==
  ASSUME NEW S, NEW s \in Seq(S), NEW k \in 0..Len(s), NEW n \in k..Len(s)
  PROVE  SubSeq(SubSeq(s, k + 1, Len(s)), 1, n - k) = SubSeq(s, k + 1, n)
  <1> DEFINE r == SubSeq(s, k + 1, Len(s))
             a == SubSeq(r, 1, n - k)
             b == SubSeq(s, k + 1, n)
  <1>0. Len(s) \in Nat /\ k \in Nat /\ n \in Nat /\ k <= n /\ n <= Len(s)
    OBVIOUS
  <1>1. \A i \in 1..Len(s) : s[i] \in S
    BY ElementOfSeq
  <1>2. r \in Seq(S) /\ Len(r) = Len(s) - k /\ \A i \in 1..(Len(s) - k) : r[i] = s[k + i]
    <2>1. \A i \in (k + 1)..Len(s) : s[i] \in S
      BY <1>0, <1>1
    <2> QED BY <1>0, <2>1, SubSeqProperties
  <1>3. b \in Seq(S) /\ Len(b) = n - k /\ \A i \in 1..(n - k) : b[i] = s[k + i]
    <2>1. \A i \in (k + 1)..n : s[i] \in S
      BY <1>0, <1>1
    <2> QED BY <1>0, <2>1, SubSeqProperties
  <1> HIDE DEF r
  <1>4. a \in Seq(S) /\ Len(a) = n - k /\ \A i \in 1..(n - k) : a[i] = r[i]
    <2>1. \A i \in 1..(n - k) : r[i] \in S
      BY <1>0, <1>1, <1>2
    <2>2. 1 \in Int /\ n - k \in Int
      BY <1>0
    <2> QED BY <1>0, <2>1, <2>2, SubSeqProperties
  <1> HIDE DEF a, b
  <1>5. \A i \in 1..Len(a) : a[i] = b[i]
    BY <1>0, <1>2, <1>3, <1>4
  <1>6. a = b
    BY <1>3, <1>4, <1>5, SeqEqual
  <1> QED BY <1>6 DEF a, b, r

\* How the abstract state lies in the concrete one.
LEMMA Layout ==
  ASSUME TypeOK
  PROVE  /\ wal \in Seq(Entry) /\ Len(wal) \in Nat /\ synced \in Nat /\ synced <= Len(wal)
         /\ Durable \in Seq(Entry) /\ Unsynced \in Seq(Entry) /\ InMemory \in Seq(Entry)
         /\ Pending \in Seq(Entry) /\ Len(Pending) \in Nat
         /\ Pending = Unsynced \o InMemory /\ Len(Unsynced) = Len(wal) - synced
         /\ Len(Pending) = Len(Unsynced) + Len(InMemory) /\ Len(InMemory) \in Nat
         /\ wal = Durable \o Unsynced /\ Pipeline = wal \o InMemory
  <1>1. /\ wal \in Seq(Entry) /\ Len(wal) \in Nat /\ synced \in Nat /\ synced <= Len(wal)
        /\ InMemory \in Seq(Entry) /\ Pipeline = wal \o InMemory
    BY SequencesType, PipelineType DEF InMemory
  <1>2. synced \in 0..Len(wal)
    BY <1>1
  <1>3. /\ SubSeq(wal, 1, synced) \in Seq(Entry)
        /\ SubSeq(wal, synced + 1, Len(wal)) \in Seq(Entry)
        /\ Len(SubSeq(wal, synced + 1, Len(wal))) = Len(wal) - synced
    BY <1>1, <1>2, PartsOfConcat
  <1>4. SubSeq(Pipeline, synced + 1, Len(Pipeline))
           = SubSeq(wal, synced + 1, Len(wal)) \o InMemory
    BY <1>1, <1>2, PartsOfConcat
  <1>5. /\ Pending = Unsynced \o InMemory /\ Durable \in Seq(Entry)
        /\ Unsynced \in Seq(Entry) /\ Len(Unsynced) = Len(wal) - synced
    BY <1>3, <1>4 DEF Pending, Unsynced, Durable
  <1>6. Pending \in Seq(Entry) /\ Len(Pending) = Len(Unsynced) + Len(InMemory)
    BY <1>1, <1>5, ConcatProperties
  <1>7. Len(InMemory) \in Nat /\ Len(Pending) \in Nat
    BY <1>1, <1>6, LenProperties
  <1>8. wal = Durable \o Unsynced
    <2>1. SubSeq(wal, 1, synced) \o SubSeq(wal, synced + 1, Len(wal)) = SubSeq(wal, 1, Len(wal))
      <3>1. /\ 1 \in 1..Len(wal) + 1 /\ synced \in (1 - 1)..Len(wal)
            /\ Len(wal) \in synced..Len(wal)
        BY <1>1
      <3> QED BY <1>1, <3>1, ConcatAdjacentSubSeq
    <2>2. SubSeq(wal, 1, Len(wal)) = wal
      BY <1>1, WholeAndEmpty
    <2> QED BY <2>1, <2>2 DEF Durable, Unsynced
  <1> QED BY <1>1, <1>5, <1>6, <1>7, <1>8

\* The parts of pending.
LEMMA PendingParts ==
  ASSUME TypeOK
  PROVE  /\ SubSeq(Pending, 1, Len(Unsynced)) = Unsynced
         /\ SubSeq(Pending, Len(Unsynced) + 1, Len(Pending)) = InMemory
         /\ SubSeq(Pipeline, Len(wal) + 1, Len(Pipeline)) = InMemory
  <1>0. /\ Unsynced \in Seq(Entry) /\ InMemory \in Seq(Entry) /\ wal \in Seq(Entry)
        /\ Pending = Unsynced \o InMemory /\ Pipeline = wal \o InMemory
    BY Layout
  <1>1. ASSUME NEW s \in Seq(Entry), NEW t \in Seq(Entry)
        PROVE  SubSeq(s \o t, 1, Len(s)) = s /\ SubSeq(s \o t, Len(s) + 1, Len(s \o t)) = t
    <2>1. Len(s) \in 0..Len(s)
      OBVIOUS
    <2>2. /\ SubSeq(s \o t, 1, Len(s)) = SubSeq(s, 1, Len(s))
          /\ SubSeq(s \o t, Len(s) + 1, Len(s \o t)) = SubSeq(s, Len(s) + 1, Len(s)) \o t
      BY <2>1, PartsOfConcat
    <2>3. SubSeq(s, 1, Len(s)) = s /\ SubSeq(s, Len(s) + 1, Len(s)) = <<>> /\ <<>> \o t = t
      BY WholeAndEmpty
    <2> QED BY <2>2, <2>3
  <1> QED BY <1>0, <1>1

\* A write is submitted.
LEMMA LogSubmits ==
  ASSUME TypeOK, NEW k \in Keys, Log(k)
  PROVE  WriteAheadLog!Submit([key |-> k, ver |-> next]) /\ [key |-> k, ver |-> next] \in Entry
  <1> DEFINE e == [key |-> k, ver |-> next]
  <1>1. e \in Entry /\ Pipeline' = Append(Pipeline, e) /\ UNCHANGED <<wal, synced>>
    BY LogPipeline DEF Log
  <1> HIDE DEF e
  <1>2. Pipeline \in Seq(Entry) /\ <<e>> \in Seq(Entry) /\ synced \in 0..Len(Pipeline)
    BY <1>1, PipelineType, Layout
  <1>3. Pipeline' = Pipeline \o <<e>>
    BY <1>1, <1>2, AppendIsConcat
  <1>4. SubSeq(Pipeline', synced + 1, Len(Pipeline'))
           = SubSeq(Pipeline, synced + 1, Len(Pipeline)) \o <<e>>
    BY <1>2, <1>3, PartsOfConcat
  <1>5. Pending' = Pending \o <<e>>
    BY <1>1, <1>3, <1>4 DEF Pending
  <1>6. Pending' = Append(Pending, e) /\ Durable' = Durable
    BY <1>1, <1>5, Layout, AppendIsConcat DEF Durable
  <1> QED BY <1>1, <1>6 DEF WriteAheadLog!Submit, Pending, Durable, e

\* Between the channel and the file nothing happens, or a run of entries is dropped.
LEMMA HandedDrops ==
  ASSUME TypeOK, NEW b \in Seq(Entry), NEW q \in Seq(Entry), Handed(b, q)
  PROVE  \/ UNCHANGED <<Durable, Pending>>
         \/ \E n \in 1..Len(Pending), m \in 0..Len(Pending) :
               m < n /\ WriteAheadLog!Drop(m, n)
  <1>0. /\ wal \in Seq(Entry) /\ synced \in 0..Len(wal) /\ synced' = synced
        /\ Len(wal) \in Nat
    BY Layout DEF Handed
  <1>1. /\ Pipeline = wal \o (b \o q)
        /\ \/ Pipeline' = Pipeline
           \/ Pipeline' = wal \o q /\ wal' = wal /\ batch' = <<>> /\ walEntries' = q
    BY HandedPipeline
  <1>2. Durable' = Durable
    <2>1. wal' = wal \/ wal' = wal \o b
      BY DEF Handed
    <2>2. SubSeq(wal \o b, 1, synced) = SubSeq(wal, 1, synced)
      BY <1>0, PartsOfConcat
    <2> QED BY <1>0, <2>1, <2>2 DEF Durable
  <1>3. CASE Pipeline' = Pipeline
    BY <1>0, <1>2, <1>3 DEF Pending
  <1>4. CASE Pipeline' = wal \o q
    <2>1. SubSeq(Pipeline', synced + 1, Len(Pipeline')) = SubSeq(wal, synced + 1, Len(wal)) \o q
      BY <1>0, <1>4, PartsOfConcat
    <2>2. Pending' = Unsynced \o q
      BY <1>0, <2>1 DEF Pending, Unsynced
    <2>3. Pending = Unsynced \o (b \o q) /\ Unsynced \in Seq(Entry)
      BY Layout DEF Handed, InMemory
    <2>4. /\ Without(Pending, Len(Unsynced), Len(Unsynced) + Len(b)) = Unsynced \o q
          /\ Len(Pending) = Len(Unsynced) + Len(b) + Len(q)
          /\ Len(Unsynced) \in Nat /\ Len(b) \in Nat /\ Len(q) \in Nat
      BY <2>3, WithoutMiddle
    <2>5. CASE b = <<>>
      <3>1. Pending = Unsynced \o q
        BY <2>3, <2>5, WholeAndEmpty
      <3> QED BY <1>2, <2>2, <3>1
    <2>6. CASE b # <<>>
      <3> DEFINE m == Len(Unsynced)
                 n == Len(Unsynced) + Len(b)
      <3>1. Len(b) > 0
        BY <2>4, <2>6, EmptySeq
      <3>2. n \in 1..Len(Pending) /\ m \in 0..Len(Pending) /\ m < n
        BY <2>4, <3>1
      <3> HIDE DEF m, n
      <3>3. Pending' = SubSeq(Pending, 1, m) \o SubSeq(Pending, n + 1, Len(Pending))
        BY <2>2, <2>4 DEF Without, m, n
      <3>4. WriteAheadLog!Drop(m, n)
        BY <1>2, <3>3 DEF WriteAheadLog!Drop, Pending, Durable
      <3> QED BY <3>2, <3>4
    <2> QED BY <2>5, <2>6
  <1> QED BY <1>1, <1>3, <1>4

\* An fsync makes durable what is in the file.
LEMMA FsyncPersists ==
  ASSUME TypeOK, Fsync
  PROVE  \/ UNCHANGED <<Durable, Pending>>
         \/ \E n \in 1..Len(Pending) : WriteAheadLog!Persist(n)
  <1>0. wal' = wal /\ Pipeline' = Pipeline
    BY DEF Fsync, Pipeline
  <1>1. CASE ~FileOpen
    BY <1>0, <1>1 DEF Fsync, Durable, Pending
  <1>2. CASE FileOpen
    <2> DEFINE n == Len(Unsynced)
    <2>1. synced' = Len(wal)
      BY <1>2 DEF Fsync
    <2>2. Durable' = wal /\ Pending' = InMemory
      BY <1>0, <2>1, Layout, WholeAndEmpty, PendingParts DEF Durable, Pending
    <2>3. /\ Durable' = Durable \o SubSeq(Pending, 1, n)
          /\ Pending' = SubSeq(Pending, n + 1, Len(Pending))
      BY <2>2, Layout, PendingParts
    <2>4. CASE n = 0
      <3>1. Unsynced = <<>>
        BY <2>4, Layout, EmptySeq
      <3>2. Durable \o <<>> = Durable /\ <<>> \o InMemory = InMemory
        BY Layout, WholeAndEmpty
      <3> QED BY <2>2, <3>1, <3>2, Layout
    <2>5. CASE n # 0
      <3>1. n \in 1..Len(Pending)
        BY <2>5, Layout
      <3>2. WriteAheadLog!Persist(n)
        <4> HIDE DEF n
        <4> QED BY <2>3 DEF WriteAheadLog!Persist, Pending, Durable
      <3> QED BY <3>1, <3>2
    <2> QED BY <2>4, <2>5
  <1> QED BY <1>1, <1>2

\* The end of the process is a crash of the log.
LEMMA EndCrashes ==
  ASSUME TypeOK, Exit \/ Panic \/ PowerLoss
  PROVE  \E n, m \in 0..Len(Pending) : n <= m /\ WriteAheadLog!Crash(n, m)
  <1>0. ProcessEnds
    BY DEF Exit, Panic, PowerLoss
  <1>1. /\ wal \in Seq(Entry) /\ Len(wal) \in Nat /\ synced \in Nat /\ synced <= Len(wal)
        /\ Durable \in Seq(Entry) /\ Unsynced \in Seq(Entry) /\ InMemory \in Seq(Entry)
        /\ Pending \in Seq(Entry) /\ Len(Pending) \in Nat /\ Pending = Unsynced \o InMemory
        /\ Len(Unsynced) = Len(wal) - synced
        /\ Len(Unsynced) \in Nat /\ Len(Unsynced) <= Len(Pending)
    BY Layout
  <1>2. CASE Exit \/ Panic
    <2>1. wal' = wal /\ synced' = synced
      BY <1>2 DEF Exit, Panic
    <2>2. Pipeline' = wal
      <3>1. SubSeq(wal, 1, Len(wal)) = wal /\ Len(wal) \in 0..Len(wal)
        BY <1>1, WholeAndEmpty
      <3> QED BY <1>0, <2>1, <3>1, EndPipeline
    <2>3. Pending' = SubSeq(Pending, 0 + 1, Len(Unsynced))
      <3>1. Pending' = Unsynced
        BY <2>1, <2>2 DEF Pending, Unsynced
      <3> QED BY <3>1, PendingParts
    <2>4. Durable' = Durable \o SubSeq(Pending, 1, 0)
      BY <1>1, <2>1, WholeAndEmpty DEF Durable
    <2>5. WriteAheadLog!Crash(0, Len(Unsynced))
      <3> DEFINE m == Len(Unsynced)
      <3>1. Pending' = SubSeq(Pending, 0 + 1, m)
        BY <2>3
      <3> HIDE DEF m
      <3>2. WriteAheadLog!Crash(0, m)
        BY <2>4, <3>1 DEF WriteAheadLog!Crash, Pending, Durable
      <3> QED BY <3>2 DEF m
    <2>6. 0 \in 0..Len(Pending) /\ Len(Unsynced) \in 0..Len(Pending) /\ 0 <= Len(Unsynced)
      BY <1>1
    <2> QED BY <2>5, <2>6
  <1>3. CASE PowerLoss
    <2>1. PICK n \in synced..Len(wal) : wal' = SubSeq(wal, 1, n) /\ synced' = n
      BY <1>3 DEF PowerLoss
    <2>2. n \in 0..Len(wal) /\ n \in Nat /\ synced <= n /\ n <= Len(wal)
      BY <1>1
    <2>3. Pipeline' = wal'
      BY <1>0, <2>1, <2>2, EndPipeline
    <2>4. wal' \in Seq(Entry) /\ Len(wal') = n
      <3>1. SubSeq(wal, 1, n) \in Seq(Entry) /\ Len(SubSeq(wal, 1, n)) = n
        BY <1>1, <2>2, PartsOfConcat
      <3> QED BY <2>1, <3>1
    <2>5. Durable' = wal' /\ Pending' = <<>>
      <3>1. SubSeq(wal', 1, Len(wal')) = wal' /\ SubSeq(wal', Len(wal') + 1, Len(wal')) = <<>>
        BY <2>4, WholeAndEmpty
      <3> QED BY <2>1, <2>3, <2>4, <3>1 DEF Durable, Pending
    <2> DEFINE k == n - synced
    <2>6. k \in 0..Len(Pending) /\ k \in 0..Len(Unsynced) /\ k \in Nat
      BY <1>1, <2>2
    <2>7. SubSeq(Pending, 1, k) = SubSeq(wal, synced + 1, n)
      <3>1. SubSeq(Unsynced \o InMemory, 1, k) = SubSeq(Unsynced, 1, k)
        <4> HIDE DEF k
        <4> QED BY <1>1, <2>6, PartsOfConcat
      <3>2. SubSeq(Unsynced, 1, k) = SubSeq(wal, synced + 1, n)
        BY <1>1, <2>2, StartOfRest DEF Unsynced
      <3> QED BY <1>1, <3>1, <3>2
    <2>8. Durable \o SubSeq(wal, synced + 1, n) = SubSeq(wal, 1, n)
      <3>1. /\ 1 \in 1..Len(wal) + 1 /\ synced \in (1 - 1)..Len(wal)
            /\ n \in synced..Len(wal)
        BY <1>1
      <3> QED BY <1>1, <3>1, ConcatAdjacentSubSeq DEF Durable
    <2>9. Durable' = Durable \o SubSeq(Pending, 1, k) /\ Pending' = SubSeq(Pending, k + 1, k)
      <3>1. SubSeq(Pending, k + 1, k) = <<>>
        <4> HIDE DEF k
        <4> QED BY <2>6, SubSeqEmpty
      <3> QED BY <2>1, <2>5, <2>7, <2>8, <3>1
    <2>10. WriteAheadLog!Crash(k, k)
      <3> HIDE DEF k
      <3> QED BY <2>9 DEF WriteAheadLog!Crash, Pending, Durable
    <2> QED BY <2>6, <2>10
  <1> QED BY <1>2, <1>3

\* Every step of the write path is a step of DurableLog, or leaves it as it is.
LEMMA NextRefines == TypeOK /\ [Next]_vars => [WriteAheadLog!Next]_(WriteAheadLog!vars)
  <1> SUFFICES ASSUME TypeOK, [Next]_vars PROVE [WriteAheadLog!Next]_(WriteAheadLog!vars)
    OBVIOUS
  <1> USE DEF walVars, lifeVars
  <1>0. ASSUME UNCHANGED <<Durable, Pending>> PROVE UNCHANGED WriteAheadLog!vars
    BY <1>0 DEF WriteAheadLog!vars, Durable, Pending
  <1>1. ASSUME NEW k \in Keys, Log(k) PROVE WriteAheadLog!Next
    BY <1>1, LogSubmits DEF WriteAheadLog!Next
  <1>2. CASE TakeEntry \/ Flush \/ FinalFlush \/ Drain
    <2>1. PICK b \in Seq(Entry), q \in Seq(Entry) : Handed(b, q)
      BY <1>2, ProcStep
    <2>2. CASE \E n \in 1..Len(Pending), m \in 0..Len(Pending) :
                  m < n /\ WriteAheadLog!Drop(m, n)
      BY <2>2 DEF WriteAheadLog!Next, Pending
    <2> QED BY <1>0, <2>1, <2>2, HandedDrops
  <1>3. CASE Fsync
    <2>1. CASE \E n \in 1..Len(Pending) : WriteAheadLog!Persist(n)
      BY <2>1 DEF WriteAheadLog!Next, Pending
    <2> QED BY <1>0, <1>3, <2>1, FsyncPersists
  <1>4. CASE Exit \/ Panic \/ PowerLoss
    BY <1>4, EndCrashes DEF WriteAheadLog!Next, Pending
  <1>5. CASE \/ NewStorage \/ Start \/ Cancel \/ ShutdownCall \/ CloseFile \/ CloseDB
             \/ CloseStream \/ BadgerFlush \/ UNCHANGED vars
             \/ \E w \in writers : Commit(w) \/ Ack(w)
    <2>1. UNCHANGED <<wal, batch, walEntries, synced>>
      BY <1>5 DEF NewStorage, Start, Cancel, ShutdownCall, CloseFile, CloseDB,
                  CloseStream, ShutdownStep, BadgerFlush, vars, Commit, Ack
    <2>2. UNCHANGED <<Durable, Pending>>
      BY <2>1 DEF Durable, Pending, Pipeline
    <2> QED BY <1>0, <2>2
  <1> QED BY <1>1, <1>2, <1>3, <1>4, <1>5 DEF Next

\* The write path with its channel, batch, file, fsyncs, shutdown and crashes
\* implements the durable log of DurableLog: what an fsync has covered is never
\* undone or reordered, and the rest is lost only to a failing write or to a crash,
\* never out of turn.
THEOREM StorageImplementsDurableLog == Spec => ImplementsDurableLog
  <1>1. Init => WriteAheadLog!Init
    <2> SUFFICES ASSUME Init PROVE WriteAheadLog!Init
      OBVIOUS
    <2>1. wal = <<>> /\ batch = <<>> /\ walEntries = <<>> /\ synced = 0 /\ wal \in Seq(Entry)
      BY InitType, SequencesType DEF Init
    <2>2. Pipeline = <<>>
      BY <2>1, WholeAndEmpty DEF Pipeline
    <2>3. SubSeq(wal, 1, 0) = <<>> /\ SubSeq(wal, 0 + 1, Len(wal)) = <<>>
      BY <2>1, WholeAndEmpty
    <2> QED BY <2>1, <2>2, <2>3 DEF WriteAheadLog!Init
  <1> QED BY <1>1, InitType, NextType, NextRefines, PTL
          DEF Spec, ImplementsDurableLog, WriteAheadLog!Spec

=============================================================================
