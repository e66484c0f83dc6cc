--------------------------- MODULE NotifierProofs ---------------------------
(***************************************************************************)
(* Proofs about Notifier and its broadcast buffer, for every number of     *)
(* clients, every traffic and every capacity: the types, who may close a   *)
(* channel, which clients flush serves, the order in which a client is     *)
(* sent units, and that none is lost on the way without a reason.          *)
(***************************************************************************)
EXTENDS Notifier, SequenceTheorems, TLAPS

----------------------------------------------------------------------------
\* Sequences of units

Elems(s) == {s[i] : i \in DOMAIN s}

\* The units of s are in the order of their publication.
Increasing(s) == \A i, j \in DOMAIN s : i < j => s[i] < s[j]

\* The first unit of s and the others.
LEMMA FirstAndRest ==
  ASSUME NEW s \in Seq(Nat), s # <<>>
  PROVE  /\ Len(s) \in Nat /\ Len(s) >= 1
         /\ Head(s) \in Nat /\ Tail(s) \in Seq(Nat)
         /\ Head(s) \in Elems(s)
         /\ Elems(s) = {Head(s)} \cup Elems(Tail(s))
         /\ Len(s) = 1 <=> Tail(s) = <<>>
         /\ Increasing(s) => /\ Increasing(Tail(s))
                             /\ \A x \in Elems(Tail(s)) : Head(s) < x
  <1>1. /\ Len(s) \in Nat /\ Len(s) >= 1 /\ DOMAIN s = 1..Len(s)
        /\ Head(s) = s[1] /\ s[1] \in Nat
    BY EmptySeq, ElementOfSeq
  <1>2. /\ Tail(s) \in Seq(Nat) /\ Len(Tail(s)) = Len(s) - 1
        /\ DOMAIN Tail(s) = 1..(Len(s) - 1)
        /\ \A i \in 1..(Len(s) - 1) : Tail(s)[i] = s[i + 1]
    BY <1>1, HeadTailProperties
  <1>3. Len(s) = 1 <=> Tail(s) = <<>>
    <2> DEFINE t == Tail(s)
    <2>1. t \in Seq(Nat) /\ Len(t) = Len(s) - 1 /\ Len(s) \in Nat
      BY <1>1, <1>2
    <2> HIDE DEF t
    <2>2. t = <<>> <=> Len(t) = 0
      BY <2>1, EmptySeq
    <2> QED BY <2>1, <2>2 DEF t
  <1> DEFINE n == Len(s)
             t == Tail(s)
  <1>4. n \in Nat /\ n >= 1 /\ DOMAIN s = 1..n /\ DOMAIN t = 1..(n - 1)
        /\ \A i \in 1..(n - 1) : t[i] = s[i + 1]
    BY <1>1, <1>2
  <1> HIDE DEF n, t
  <1>5. Elems(s) = {s[1]} \cup Elems(t)
    <2>1. ASSUME NEW i \in 1..n PROVE s[i] \in {s[1]} \cup Elems(t)
      <3>1. CASE i = 1
        BY <3>1
      <3>2. CASE i # 1
        <4>1. i - 1 \in 1..(n - 1) /\ (i - 1) + 1 = i
          BY <1>4, <3>2
        <4>2. t[i - 1] = s[i]
          BY <1>4, <4>1
        <4> QED BY <1>4, <4>1, <4>2 DEF Elems
      <3> QED BY <3>1, <3>2
    <2>2. ASSUME NEW i \in 1..(n - 1) PROVE t[i] \in Elems(s)
      <3>1. i + 1 \in 1..n
        BY <1>4
      <3> QED BY <1>4, <3>1 DEF Elems
    <2>3. 1 \in 1..n
      BY <1>4
    <2> QED BY <1>4, <2>1, <2>2, <2>3 DEF Elems
  <1>6. ASSUME Increasing(s)
        PROVE  Increasing(t) /\ \A x \in Elems(t) : s[1] < x
    <2>1. ASSUME NEW i \in 1..(n - 1), NEW j \in 1..(n - 1), i < j
          PROVE  t[i] < t[j]
      <3>1. i + 1 \in 1..n /\ j + 1 \in 1..n /\ i + 1 < j + 1
        BY <1>4, <2>1
      <3> QED BY <1>4, <1>6, <3>1 DEF Increasing
    <2>2. ASSUME NEW i \in 1..(n - 1) PROVE s[1] < t[i]
      <3>1. i + 1 \in 1..n /\ 1 \in 1..n /\ 1 < i + 1
        BY <1>4
      <3> QED BY <1>4, <1>6, <3>1 DEF Increasing
    <2> QED BY <1>4, <2>1, <2>2 DEF Increasing, Elems
  <1> QED BY <1>1, <1>2, <1>3, <1>5, <1>6 DEF n, t, Elems

\* One more unit at the end of s.
LEMMA OneMore ==
  ASSUME NEW s \in Seq(Nat), NEW x \in Nat
  PROVE  /\ Append(s, x) \in Seq(Nat)
         /\ Append(s, x) # <<>>
         /\ Elems(Append(s, x)) = Elems(s) \cup {x}
         /\ Increasing(s) /\ (\A y \in Elems(s) : y < x) => Increasing(Append(s, x))
  <1> DEFINE n == Len(s)
             t == Append(s, x)
  <1>1. n \in Nat /\ DOMAIN s = 1..n /\ t \in Seq(Nat) /\ Len(t) = n + 1
        /\ DOMAIN t = 1..(n + 1) /\ t[n + 1] = x /\ \A i \in 1..n : t[i] = s[i]
    BY AppendProperties
  <1>2. t # <<>>
    BY <1>1, EmptySeq
  <1> HIDE DEF n, t
  <1>3. \A i \in 1..(n + 1) : i \in 1..n \/ i = n + 1
    BY <1>1
  <1>4. n + 1 \in 1..(n + 1) /\ \A i \in 1..n : i \in 1..(n + 1)
    BY <1>1
  <1>5. Elems(t) = Elems(s) \cup {x}
    BY <1>1, <1>3, <1>4 DEF Elems
  <1>6. ASSUME Increasing(s), \A y \in Elems(s) : y < x
        PROVE  Increasing(t)
    <2> SUFFICES ASSUME NEW i \in 1..(n + 1), NEW j \in 1..(n + 1), i < j
                 PROVE  t[i] < t[j]
      BY <1>1 DEF Increasing
    <2>1. i \in 1..n
      BY <1>1
    <2>2. CASE j = n + 1
      BY <1>1, <1>6, <2>1, <2>2 DEF Elems
    <2>3. CASE j # n + 1
      BY <1>1, <1>3, <1>6, <2>1, <2>3 DEF Increasing
    <2> QED BY <2>2, <2>3
  <1> QED BY <1>1, <1>2, <1>5, <1>6 DEF t

\* No units.
LEMMA NoUnits == <<>> \in Seq(Nat) /\ Elems(<<>>) = {} /\ Increasing(<<>>)
  BY DEF Elems, Increasing

----------------------------------------------------------------------------
\* The shape of the flush and of a client

\* A flush carries a batch from the swap to its end, and sends it to one
\* subscriber of its copy of the map after the other.
FlushShape(f) ==
    /\ f.stage \in {"wait", "swap", "ended"} => f.batch = <<>>
    /\ f.stage \in {"snapshot", "send"} => f.batch # <<>>
    /\ f.stage # "send" => f.snapshot = {} /\ f.to = "none"
    /\ f.to = "none" <=> f.left = <<>>
    /\ f.to \notin f.snapshot

\* Only a WebSocket client's goroutine writes, with a unit in hand, and only the
\* goroutine of an SSE client fills sseChannel.
ClientShape(k) ==
    /\ k.stage # "registered" => k.sender = "wait" /\ k.sse = <<>>
    /\ k.sender \in {"write", "failed"} => ~k.isSSE
    /\ k.sender # "write" => k.hand = 0
    /\ k.sse # <<>> => k.isSSE

ShapeInv ==
    /\ TypeOK
    /\ FlushShape(flush)
    /\ \A c \in ClientIds : ClientShape(client[c])

\* What the type invariant says of one client and its channel.
LEMMA ClientParts ==
  ASSUME TypeOK, NEW c \in ClientIds
  PROVE  /\ client \in [ClientIds -> Client] /\ client[c] \in Client
         /\ client[c].hand \in Nat /\ client[c].newest \in Nat
         /\ client[c].sse \in Seq(Nat) /\ client[c].done \subseteq Nat
         /\ client[c].isSSE \in BOOLEAN
         /\ channels \in [ClientIds -> Channel] /\ channels[c] \in Channel
         /\ channels[c].queue \in Seq(Nat) /\ channels[c].dropped \subseteq Nat
         /\ channels[c].open \in BOOLEAN /\ channels[c].joined \in Nat
  <1>1. client \in [ClientIds -> Client] /\ channels \in [ClientIds -> Channel]
    BY DEF TypeOK, BufferTypeOK
  <1>2. client[c] \in Client /\ channels[c] \in Channel
    BY <1>1
  <1> QED BY <1>1, <1>2 DEF Client, Channel

\* What the type invariant says of the flush.
LEMMA FlushParts ==
  ASSUME TypeOK
  PROVE  /\ flush \in Flush /\ flush.batch \in Seq(Nat) /\ flush.left \in Seq(Nat)
         /\ flush.snapshot \subseteq ClientIds /\ flush.to \in ClientIds \cup {"none"}
         /\ flush.final \in BOOLEAN /\ currentBuffer \in Seq(Nat) /\ published \in Nat
         /\ flush.stage \in {"wait", "swap", "snapshot", "send", "ended"}
  <1>1. flush \in Flush /\ currentBuffer \in Seq(Nat) /\ published \in Nat
    BY DEF TypeOK, BufferTypeOK
  <1> QED BY <1>1 DEF Flush

\* A flush that carries nothing.
LEMMA FlushStageType ==
  ASSUME NEW s \in {"wait", "swap", "ended"}, NEW f \in BOOLEAN
  PROVE  FlushStage(s, f) \in Flush /\ FlushShape(FlushStage(s, f))
         /\ FlushStage(s, f).stage = s
         /\ FlushStage(s, f).batch = <<>> /\ FlushStage(s, f).left = <<>>
         /\ FlushStage(s, f).snapshot = {} /\ FlushStage(s, f).to = "none"
  BY DEF FlushStage, Flush, FlushShape

----------------------------------------------------------------------------
\* The broadcast buffer, step by step

\* Closing some channels leaves what they hold alone.
SameQueues ==
    /\ channels' \in [ClientIds -> Channel]
    /\ \A c \in ClientIds : /\ channels'[c].queue = channels[c].queue
                            /\ channels'[c].joined = channels[c].joined
                            /\ channels'[c].dropped = channels[c].dropped

\* A client subscribes: its channel is new and open.
LEMMA SubscribeStep ==
  ASSUME ShapeInv, NEW c \in ClientIds, Subscribe(c)
  PROVE  /\ BufferTypeOK' /\ subscribers' = subscribers \cup {c}
         /\ channels'[c].open = TRUE /\ channels'[c].queue = <<>>
         /\ channels'[c].joined = published /\ channels'[c].dropped = {}
         /\ \A d \in ClientIds \ {c} : channels'[d] = channels[d]
         /\ UNCHANGED <<currentBuffer, flush, closed, panic, published>>
  <1> DEFINE ch == [NoChannel EXCEPT !.open = TRUE, !.joined = published]
  <1>1. published \in Nat /\ channels \in [ClientIds -> Channel]
    BY DEF ShapeInv, TypeOK, BufferTypeOK
  <1>2. ch \in Channel /\ ch.open = TRUE /\ ch.queue = <<>> /\ ch.joined = published
        /\ ch.dropped = {}
    <2>1. NoChannel \in Channel /\ NoChannel.queue = <<>> /\ NoChannel.dropped = {}
      BY NoUnits DEF NoChannel, Channel
    <2> QED BY <1>1, <2>1 DEF Channel
  <1>3. channels' = [channels EXCEPT ![c] = ch] /\ subscribers' = subscribers \cup {c}
        /\ UNCHANGED <<currentBuffer, flush, closed, panic, published>>
    BY DEF Subscribe
  <1> HIDE DEF ch
  <1>4. /\ channels' \in [ClientIds -> Channel] /\ channels'[c] = ch
        /\ \A d \in ClientIds \ {c} : channels'[d] = channels[d]
    BY <1>1, <1>2, <1>3
  <1>5. BufferTypeOK'
    BY <1>3, <1>4 DEF ShapeInv, TypeOK, BufferTypeOK
  <1> QED BY <1>2, <1>3, <1>4, <1>5

\* Closing a channel, which is a panic when it is closed already.
LEMMA CloseChannelStep ==
  ASSUME ShapeInv, NEW c \in ClientIds, CloseChannel(c)
  PROVE  /\ SameQueues /\ channels'[c].open = FALSE
         /\ \A d \in ClientIds \ {c} : channels'[d] = channels[d]
         /\ panic' \in {"none", "send", "close"}
         /\ panic' = IF channels[c].open THEN panic ELSE "close"
  <1>1. channels \in [ClientIds -> Channel] /\ panic \in {"none", "send", "close"}
    BY DEF ShapeInv, TypeOK, BufferTypeOK
  <1>2. channels' = [channels EXCEPT ![c].open = FALSE]
        /\ panic' = IF channels[c].open THEN panic ELSE "close"
    BY DEF CloseChannel
  <1>3. /\ channels' \in [ClientIds -> Channel] /\ channels'[c].open = FALSE
        /\ channels'[c].queue = channels[c].queue
        /\ channels'[c].joined = channels[c].joined
        /\ channels'[c].dropped = channels[c].dropped
        /\ \A d \in ClientIds \ {c} : channels'[d] = channels[d]
    BY <1>1, <1>2 DEF Channel
  <1>4. SameQueues
    BY <1>3 DEF SameQueues
  <1> QED BY <1>1, <1>2, <1>3, <1>4

\* A removed client's channel is closed and taken off the map.
LEMMA UnsubscribeStep ==
  ASSUME ShapeInv, NEW c \in ClientIds, Unsubscribe(c)
  PROVE  /\ BufferTypeOK' /\ SameQueues /\ subscribers' = subscribers \ {c}
         /\ \A d \in ClientIds \ {c} : channels'[d] = channels[d]
         /\ panic' = IF c \in subscribers /\ ~channels[c].open THEN "close" ELSE panic
         /\ UNCHANGED <<currentBuffer, flush, closed, published>>
  <1>1. channels \in [ClientIds -> Channel] /\ panic \in {"none", "send", "close"}
    BY DEF ShapeInv, TypeOK, BufferTypeOK
  <1>2. subscribers' = subscribers \ {c}
        /\ UNCHANGED <<currentBuffer, flush, closed, published>>
    BY DEF Unsubscribe
  <1>3. /\ SameQueues /\ panic' \in {"none", "send", "close"}
        /\ \A d \in ClientIds \ {c} : channels'[d] = channels[d]
        /\ panic' = IF c \in subscribers /\ ~channels[c].open THEN "close" ELSE panic
    <2>1. CASE c \in subscribers
      BY <2>1, CloseChannelStep DEF Unsubscribe
    <2>2. CASE c \notin subscribers
      BY <1>1, <2>2 DEF Unsubscribe, SameQueues
    <2> QED BY <2>1, <2>2
  <1>4. BufferTypeOK'
    BY <1>2, <1>3 DEF ShapeInv, TypeOK, BufferTypeOK, SameQueues
  <1> QED BY <1>2, <1>3, <1>4

\* Close: every channel on the map is closed and taken off it.
LEMMA CloseAllStep ==
  ASSUME ShapeInv, CloseAll
  PROVE  /\ BufferTypeOK' /\ SameQueues /\ subscribers' = {}
         /\ panic' = IF \A c \in subscribers : channels[c].open THEN panic ELSE "close"
         /\ UNCHANGED <<currentBuffer, flush, closed, published>>
  <1>1. channels \in [ClientIds -> Channel] /\ panic \in {"none", "send", "close"}
        /\ subscribers \subseteq ClientIds
    BY DEF ShapeInv, TypeOK, BufferTypeOK
  <1>2. /\ channels' = [c \in ClientIds |-> IF c \in subscribers
                                           THEN [channels[c] EXCEPT !.open = FALSE]
                                           ELSE channels[c]]
        /\ panic' = IF \A c \in subscribers : channels[c].open THEN panic ELSE "close"
        /\ subscribers' = {} /\ UNCHANGED <<currentBuffer, flush, closed, published>>
    BY DEF CloseAll
  <1>3. \A c \in ClientIds : channels'[c] = IF c \in subscribers
                                           THEN [channels[c] EXCEPT !.open = FALSE]
                                           ELSE channels[c]
    BY <1>2
  <1>4. \A c \in ClientIds : channels[c] \in Channel
    BY <1>1
  <1>5. \A c \in ClientIds :
           /\ channels'[c] \in Channel /\ channels'[c].queue = channels[c].queue
           /\ channels'[c].joined = channels[c].joined
           /\ channels'[c].dropped = channels[c].dropped
    BY <1>3, <1>4 DEF Channel
  <1>6. SameQueues
    BY <1>2, <1>5 DEF SameQueues
  <1>7. panic' \in {"none", "send", "close"}
    BY <1>1, <1>2
  <1>8. BufferTypeOK'
    BY <1>2, <1>6, <1>7 DEF ShapeInv, TypeOK, BufferTypeOK, SameQueues
  <1> QED BY <1>2, <1>6, <1>8

\* A client's goroutine takes the first unit of its channel.
LEMMA TakeStep ==
  ASSUME ShapeInv, NEW c \in ClientIds, Take(c)
  PROVE  /\ BufferTypeOK' /\ channels[c].queue # <<>>
         /\ channels[c].queue \in Seq(Nat)
         /\ channels'[c].queue = Tail(channels[c].queue)
         /\ channels'[c].open = channels[c].open
         /\ channels'[c].joined = channels[c].joined
         /\ channels'[c].dropped = channels[c].dropped
         /\ \A d \in ClientIds \ {c} : channels'[d] = channels[d]
         /\ UNCHANGED <<currentBuffer, subscribers, flush, closed, panic, published>>
  <1>1. channels \in [ClientIds -> Channel] /\ channels[c].queue \in Seq(Nat)
    BY ClientParts DEF ShapeInv
  <1>2. channels[c].queue # <<>>
        /\ channels' = [channels EXCEPT ![c].queue = Tail(channels[c].queue)]
        /\ UNCHANGED <<currentBuffer, subscribers, flush, closed, panic, published>>
    BY DEF Take
  <1> DEFINE q == Tail(channels[c].queue)
  <1>3. q \in Seq(Nat)
    BY <1>1, <1>2, FirstAndRest
  <1>4. channels' = [channels EXCEPT ![c].queue = q]
    BY <1>2
  <1> HIDE DEF q
  <1>5. /\ channels' \in [ClientIds -> Channel] /\ channels'[c].queue = q
        /\ channels'[c].open = channels[c].open
        /\ channels'[c].joined = channels[c].joined
        /\ channels'[c].dropped = channels[c].dropped
        /\ \A d \in ClientIds \ {c} : channels'[d] = channels[d]
    BY <1>1, <1>3, <1>4 DEF Channel
  <1>6. BufferTypeOK'
    BY <1>2, <1>5 DEF ShapeInv, TypeOK, BufferTypeOK
  <1> QED BY <1>1, <1>2, <1>5, <1>6 DEF q

\* A unit is published, and the flush loop is woken when it waits and the buffer
\* is full.
LEMMA PublishStep ==
  ASSUME ShapeInv, Publish
  PROVE  /\ BufferTypeOK' /\ FlushShape(flush')
         /\ published' = published + 1 /\ published + 1 \in Nat
         /\ currentBuffer' = Append(currentBuffer, published + 1)
         /\ \/ flush' = flush
            \/ flush.stage = "wait" /\ flush' = FlushStage("swap", FALSE)
         /\ UNCHANGED <<subscribers, channels, closed, panic>>
  <1>1. TypeOK /\ published \in Nat /\ currentBuffer \in Seq(Nat) /\ flush \in Flush
        /\ FlushShape(flush)
    BY FlushParts DEF ShapeInv
  <1>2. published + 1 \in Nat
    BY <1>1
  <1>3. /\ published' = published + 1
        /\ currentBuffer' = Append(currentBuffer, published + 1)
        /\ \/ flush' = flush
           \/ flush.stage = "wait" /\ flush' = FlushStage("swap", FALSE)
        /\ UNCHANGED <<subscribers, channels, closed, panic>>
    BY DEF Publish
  <1>4. Append(currentBuffer, published + 1) \in Seq(Nat)
    BY <1>1, <1>2, OneMore
  <1>5. flush' \in Flush /\ FlushShape(flush')
    BY <1>1, <1>3, FlushStageType
  <1>6. BufferTypeOK'
    BY <1>1, <1>2, <1>3, <1>4, <1>5 DEF TypeOK, BufferTypeOK
  <1> QED BY <1>2, <1>3, <1>5, <1>6

\* The loop leaves its select.
LEMMA FlushWakes ==
  ASSUME ShapeInv, FlushTick \/ FlushFinal
  PROVE  /\ BufferTypeOK' /\ FlushShape(flush') /\ flush.stage = "wait"
         /\ flush'.batch = <<>> /\ flush'.left = <<>> /\ flush'.snapshot = {}
         /\ flush'.to = "none" /\ flush'.stage = "swap"
         /\ UNCHANGED <<currentBuffer, subscribers, channels, closed, panic, published>>
  <1>1. /\ flush.stage = "wait"
        /\ flush' = FlushStage("swap", FALSE) \/ flush' = FlushStage("swap", TRUE)
        /\ UNCHANGED <<currentBuffer, subscribers, channels, closed, panic, published>>
    BY DEF FlushTick, FlushFinal
  <1>2. /\ flush' \in Flush /\ FlushShape(flush')
        /\ flush'.batch = <<>> /\ flush'.left = <<>> /\ flush'.snapshot = {}
        /\ flush'.to = "none" /\ flush'.stage = "swap"
    BY <1>1, FlushStageType
  <1> QED BY <1>1, <1>2 DEF ShapeInv, TypeOK, BufferTypeOK

\* The flush has returned: it carries nothing.
LEMMA FlushDoneStep ==
  ASSUME ShapeInv, FlushDone
  PROVE  /\ flush' \in Flush /\ FlushShape(flush') /\ flush'.stage \in {"wait", "ended"}
         /\ flush'.batch = <<>> /\ flush'.left = <<>> /\ flush'.snapshot = {}
         /\ flush'.to = "none"
  <1>1. flush' = FlushStage("ended", FALSE) \/ flush' = FlushStage("wait", FALSE)
    BY DEF FlushDone
  <1> QED BY <1>1, FlushStageType

\* The batch is swapped out of the buffer.
LEMMA FlushSwapStep ==
  ASSUME ShapeInv, FlushSwap
  PROVE  /\ BufferTypeOK' /\ FlushShape(flush') /\ flush.stage = "swap"
         /\ currentBuffer' = <<>> /\ flush'.left = <<>> /\ flush'.snapshot = {}
         /\ flush'.to = "none" /\ flush'.batch = currentBuffer
         /\ flush'.stage = "snapshot" \/ flush'.batch = <<>>
         /\ UNCHANGED <<subscribers, channels, closed, panic, published>>
  <1>0. TypeOK /\ flush \in Flush /\ currentBuffer \in Seq(Nat) /\ FlushShape(flush)
    BY FlushParts DEF ShapeInv
  <1>1. flush.stage = "swap" /\ currentBuffer' = <<>>
        /\ UNCHANGED <<subscribers, channels, closed, panic, published>>
    BY DEF FlushSwap
  <1>2. /\ flush' \in Flush /\ FlushShape(flush') /\ flush'.left = <<>>
        /\ flush'.snapshot = {} /\ flush'.to = "none" /\ flush'.batch = currentBuffer
        /\ flush'.stage = "snapshot" \/ flush'.batch = <<>>
    <2>1. CASE currentBuffer = <<>>
      BY <2>1, FlushDoneStep DEF FlushSwap
    <2>2. CASE currentBuffer # <<>>
      <3>1. flush' = [flush EXCEPT !.stage = "snapshot", !.batch = currentBuffer]
        BY <2>2 DEF FlushSwap
      <3>2. /\ flush' \in Flush /\ flush'.stage = "snapshot"
            /\ flush'.batch = currentBuffer /\ flush'.snapshot = flush.snapshot
            /\ flush'.to = flush.to /\ flush'.left = flush.left
        BY <1>0, <3>1 DEF Flush
      <3>3. flush.snapshot = {} /\ flush.to = "none" /\ flush.left = <<>>
        BY <1>0, <1>1 DEF FlushShape
      <3> QED BY <2>2, <3>2, <3>3 DEF FlushShape
    <2> QED BY <2>1, <2>2
  <1>3. BufferTypeOK'
    BY <1>0, <1>1, <1>2, NoUnits DEF TypeOK, BufferTypeOK
  <1> QED BY <1>1, <1>2, <1>3

\* The map of subscribers is copied; without subscribers the batch is gone.
LEMMA FlushSnapshotStep ==
  ASSUME ShapeInv, FlushSnapshot
  PROVE  /\ BufferTypeOK' /\ FlushShape(flush') /\ flush.stage = "snapshot"
         /\ flush'.left = <<>> /\ flush'.to = "none" /\ flush'.snapshot = subscribers
         /\ flush'.batch = flush.batch \/ flush'.batch = <<>>
         /\ subscribers # {} => flush'.batch = flush.batch
         /\ flush'.stage # "snapshot"
         /\ UNCHANGED <<currentBuffer, subscribers, channels, closed, panic, published>>
  <1>0. TypeOK /\ flush \in Flush /\ FlushShape(flush) /\ subscribers \subseteq ClientIds
    BY FlushParts DEF ShapeInv, TypeOK, BufferTypeOK
  <1>1. flush.stage = "snapshot"
        /\ UNCHANGED <<currentBuffer, subscribers, channels, closed, panic, published>>
    BY DEF FlushSnapshot
  <1>2. /\ flush' \in Flush /\ FlushShape(flush') /\ flush'.left = <<>>
        /\ flush'.to = "none" /\ flush'.snapshot = subscribers
        /\ flush'.batch = flush.batch \/ flush'.batch = <<>>
        /\ subscribers # {} => flush'.batch = flush.batch
        /\ flush'.stage # "snapshot"
    <2>1. CASE subscribers = {}
      <3>1. FlushDone
        BY <2>1 DEF FlushSnapshot
      <3> QED BY <2>1, <3>1, FlushDoneStep
    <2>2. CASE subscribers # {}
      <3>1. flush' = [flush EXCEPT !.stage = "send", !.snapshot = subscribers]
        BY <2>2 DEF FlushSnapshot
      <3>2. /\ flush' \in Flush /\ flush'.stage = "send"
            /\ flush'.batch = flush.batch /\ flush'.snapshot = subscribers
            /\ flush'.to = flush.to /\ flush'.left = flush.left
        BY <1>0, <3>1 DEF Flush
      <3>3. flush.batch # <<>> /\ flush.to = "none" /\ flush.left = <<>>
        BY <1>0, <1>1 DEF FlushShape
      <3>4. "none" \notin subscribers
        BY <1>0, ClientAssumption
      <3> QED BY <2>2, <3>2, <3>3, <3>4 DEF FlushShape
    <2> QED BY <2>1, <2>2
  <1>3. BufferTypeOK'
    BY <1>0, <1>1, <1>2 DEF TypeOK, BufferTypeOK
  <1> QED BY <1>1, <1>2, <1>3

\* What flush still has for the client it turns to.
SendUnits(id) == IF flush.to = id THEN flush.left ELSE flush.batch

\* The unit is in the channel or refused by it.
Offered(id, unit) ==
    \/ /\ channels'[id].queue = Append(channels[id].queue, unit)
       /\ channels'[id].dropped = channels[id].dropped
    \/ /\ channels'[id].queue = channels[id].queue
       /\ channels'[id].dropped = channels[id].dropped \cup {unit}

\* One send: a panic, or the next unit of the batch is offered to the channel.
LEMMA FlushSendStep ==
  ASSUME ShapeInv, NEW id \in ClientIds, FlushSend(id)
  PROVE  LET units == SendUnits(id)
         IN /\ BufferTypeOK' /\ FlushShape(flush') /\ flush.stage = "send"
            /\ units \in Seq(Nat) /\ units # <<>>
            /\ (flush.to = "none" /\ id \in flush.snapshot) \/ flush.to = id
            /\ UNCHANGED <<currentBuffer, subscribers, closed, published>>
            /\ \A c \in ClientIds \ {id} : channels'[c] = channels[c]
            /\ channels'[id].open = channels[id].open
            /\ channels'[id].joined = channels[id].joined
            /\ \/ panic' = "send" /\ UNCHANGED <<channels, flush>>
               \/ /\ panic' = panic /\ Offered(id, Head(units))
                  /\ flush'.left = Tail(units) /\ flush'.snapshot = flush.snapshot \ {id}
                  /\ flush'.stage # "snapshot"
                  /\ flush'.to = IF Tail(units) = <<>> THEN "none" ELSE id
                  /\ \/ flush'.batch = flush.batch
                     \/ flush'.batch = <<>> /\ flush'.snapshot = {}
  <1> DEFINE units == SendUnits(id)
             ch == channels[id]
             unit == Head(units)
  <1>0. /\ TypeOK /\ flush \in Flush /\ FlushShape(flush)
        /\ flush.left \in Seq(Nat) /\ flush.batch \in Seq(Nat)
        /\ flush.snapshot \subseteq ClientIds
    BY FlushParts DEF ShapeInv
  <1>1. /\ flush.stage = "send" /\ id # "none"
        /\ (flush.to = "none" /\ id \in flush.snapshot) \/ flush.to = id
        /\ UNCHANGED <<currentBuffer, subscribers, closed, published>>
    BY ClientAssumption DEF FlushSend
  <1>2. units \in Seq(Nat) /\ units # <<>>
    BY <1>0, <1>1 DEF SendUnits, FlushShape
  <1>3. \/ panic' = "send" /\ UNCHANGED <<channels, flush>>
        \/ /\ panic' = panic
           /\ channels' = [channels EXCEPT ![id] =
                 IF Len(ch.queue) < ChanSize THEN [ch EXCEPT !.queue = Append(ch.queue, unit)]
                 ELSE [ch EXCEPT !.dropped = ch.dropped \cup {unit}]]
           /\ FlushAfter(id, units)
    BY DEF FlushSend, SendUnits
  <1>4. /\ channels \in [ClientIds -> Channel] /\ ch \in Channel
        /\ ch.queue \in Seq(Nat) /\ ch.dropped \subseteq Nat
    BY <1>0, ClientParts
  <1> HIDE DEF units
  <1>5. /\ unit \in Nat /\ Tail(units) \in Seq(Nat)
        /\ Len(units) = 1 <=> Tail(units) = <<>>
    BY <1>2, FirstAndRest
  <1>6. CASE panic' = "send" /\ UNCHANGED <<channels, flush>>
    <2>1. BufferTypeOK' /\ FlushShape(flush')
      BY <1>0, <1>1, <1>6 DEF TypeOK, BufferTypeOK
    <2> QED BY <1>1, <1>2, <1>6, <2>1 DEF units
  <1>7. CASE /\ panic' = panic
             /\ channels' = [channels EXCEPT ![id] =
                   IF Len(ch.queue) < ChanSize
                   THEN [ch EXCEPT !.queue = Append(ch.queue, unit)]
                   ELSE [ch EXCEPT !.dropped = ch.dropped \cup {unit}]]
             /\ FlushAfter(id, units)
    <2> DEFINE q == Append(ch.queue, unit)
               d == ch.dropped \cup {unit}
    <2>1. q \in Seq(Nat) /\ d \subseteq Nat
      BY <1>4, <1>5, OneMore
    <2> HIDE DEF q, d, unit
    <2>2. /\ [ch EXCEPT !.queue = q] \in Channel
          /\ [ch EXCEPT !.queue = q].queue = q
          /\ [ch EXCEPT !.queue = q].open = ch.open
          /\ [ch EXCEPT !.queue = q].joined = ch.joined
          /\ [ch EXCEPT !.queue = q].dropped = ch.dropped
      BY <1>4, <2>1 DEF Channel
    <2>3. /\ [ch EXCEPT !.dropped = d] \in Channel
          /\ [ch EXCEPT !.dropped = d].queue = ch.queue
          /\ [ch EXCEPT !.dropped = d].open = ch.open
          /\ [ch EXCEPT !.dropped = d].joined = ch.joined
          /\ [ch EXCEPT !.dropped = d].dropped = d
      BY <1>4, <2>1 DEF Channel
    <2>4. \/ channels' = [channels EXCEPT ![id] = [ch EXCEPT !.queue = q]]
          \/ channels' = [channels EXCEPT ![id] = [ch EXCEPT !.dropped = d]]
      BY <1>7 DEF q, d, unit
    <2>5. /\ channels' \in [ClientIds -> Channel]
          /\ \A c \in ClientIds \ {id} : channels'[c] = channels[c]
          /\ \/ channels'[id] = [ch EXCEPT !.queue = q]
             \/ channels'[id] = [ch EXCEPT !.dropped = d]
      BY <1>4, <2>2, <2>3, <2>4
    <2>6. /\ Offered(id, unit) /\ channels'[id].open = ch.open
          /\ channels'[id].joined = ch.joined
      BY <2>2, <2>3, <2>5 DEF Offered, q, d
    <2> DEFINE t == Tail(units)
    <2>7. /\ flush' \in Flush /\ FlushShape(flush')
          /\ flush'.left = t /\ flush'.snapshot = flush.snapshot \ {id}
          /\ flush'.stage # "snapshot" /\ flush'.to = IF t = <<>> THEN "none" ELSE id
          /\ \/ flush'.batch = flush.batch
             \/ flush'.batch = <<>> /\ flush'.snapshot = {}
      <3>1. CASE Len(units) = 1 /\ flush.snapshot \ {id} = {}
        <4>1. FlushDone
          BY <1>7, <3>1 DEF FlushAfter
        <4> QED BY <1>5, <3>1, <4>1, FlushDoneStep
      <3>2. CASE ~(Len(units) = 1 /\ flush.snapshot \ {id} = {})
        <4> DEFINE r == flush.snapshot \ {id}
                   o == IF t = <<>> THEN "none" ELSE id
        <4>1. flush' = [flush EXCEPT !.snapshot = r, !.to = o, !.left = t]
          BY <1>5, <1>7, <3>2 DEF FlushAfter
        <4>2. t \in Seq(Nat) /\ r \subseteq ClientIds /\ o \in ClientIds \cup {"none"}
          BY <1>0, <1>5
        <4>3. (o = "none" <=> t = <<>>) /\ o \notin r
          BY <1>0, <1>1, ClientAssumption
        <4>4. flush.batch # <<>>
          BY <1>0, <1>1 DEF FlushShape
        <4> HIDE DEF r, o, t
        <4>5. /\ flush' \in Flush /\ flush'.snapshot = r /\ flush'.to = o
              /\ flush'.left = t /\ flush'.stage = "send" /\ flush'.batch = flush.batch
          BY <1>0, <1>1, <4>1, <4>2 DEF Flush
        <4>6. FlushShape(flush')
          BY <4>3, <4>4, <4>5 DEF FlushShape
        <4> QED BY <4>5, <4>6 DEF r, o
      <3> QED BY <3>1, <3>2
    <2>8. BufferTypeOK'
      BY <1>0, <1>1, <1>7, <2>5, <2>7 DEF TypeOK, BufferTypeOK
    <2> HIDE DEF t
    <2> QED BY <1>1, <1>2, <1>7, <2>5, <2>6, <2>7, <2>8 DEF t, units, unit
  <1> QED BY <1>3, <1>6, <1>7

----------------------------------------------------------------------------
\* The clients, step by step

\* What units a client has, and where, stays as it is; its goroutine may end, and
\* it may enter the map.
Untouched(k, m) ==
    /\ m.isSSE <=> k.isSSE
    /\ m.hand = k.hand /\ m.sse = k.sse
    /\ m.newest = k.newest /\ m.done = k.done
    /\ \/ m.sender = k.sender
       \/ k.sender = "wait" /\ m.sender = "ended" /\ m.stage = "registered"
    /\ \/ m.stage = k.stage
       \/ k.stage = "subscribed" /\ m.stage = "registered"

\* A client with its units untouched keeps its shape.
LEMMA UntouchedShape ==
  ASSUME NEW k, NEW m, Untouched(k, m), ClientShape(k)
  PROVE  ClientShape(m)
  BY DEF Untouched, ClientShape

\* The map and the removals keep their types whoever calls removeClient.
LEMMA RemoveLookupType ==
  ASSUME TypeOK, NEW c \in ClientIds, RemoveLookup(c)
  PROVE  clients' \subseteq ClientIds
         /\ removing' \in [ClientIds -> {"no", "conn", "unsubscribe"}]
  BY DEF TypeOK, RemoveLookup

\* The steps in which no unit moves.
Idle ==
    \/ Tick \/ SweepScan \/ ShutdownSignal \/ ShutdownClients
    \/ \E c \in ClientIds :
         \/ Leave(c) \/ Register(c) \/ RemoveConn(c) \/ ChannelEnds(c)
         \/ ReadError(c) \/ SseEnds(c) \/ SseDisconnect(c)
         \/ SweepRemove(c) \/ HeartbeatFails(c)
         \/ \E contexts \in Requests : ClientMessage(c, contexts)

\* Their common effect.
IdleEffect ==
    /\ \A c \in ClientIds : Untouched(client[c], client'[c])
    /\ UNCHANGED <<currentBuffer, subscribers, channels, flush, panic, published>>

\* One client is replaced.
LEMMA OneClient ==
  ASSUME TypeOK, NEW c \in ClientIds, NEW m \in Client, client' = [client EXCEPT ![c] = m]
  PROVE  /\ client' \in [ClientIds -> Client] /\ client'[c] = m
         /\ \A d \in ClientIds \ {c} : client'[d] = client[d]
  BY DEF TypeOK

\* A step that changes one client, untouched, and none of the buffer.
LEMMA OneClientIdle ==
  ASSUME TypeOK, NEW c \in ClientIds, NEW m \in Client, client' = [client EXCEPT ![c] = m],
         Untouched(client[c], m), UNCHANGED bufferVars
  PROVE  client' \in [ClientIds -> Client] /\ IdleEffect
  <1>1. /\ client' \in [ClientIds -> Client] /\ client'[c] = m
        /\ \A d \in ClientIds \ {c} : client'[d] = client[d]
    BY OneClient
  <1>2. \A d \in ClientIds : Untouched(client[d], client'[d])
    BY <1>1 DEF Untouched
  <1> QED BY <1>1, <1>2 DEF IdleEffect, bufferVars

\* A step that leaves all clients alone.
LEMMA NoClientIdle ==
  ASSUME TypeOK, client' = client,
         UNCHANGED <<currentBuffer, subscribers, channels, flush, panic, published>>
  PROVE  IdleEffect
  BY DEF IdleEffect, Untouched

\* Each of these steps keeps the types and moves no unit.
LEMMA IdleStep ==
  ASSUME TypeOK, Idle
  PROVE  TypeOK' /\ IdleEffect
  <1>0. /\ client \in [ClientIds -> Client] /\ clock \in Nat /\ clients \subseteq ClientIds
        /\ removing \in [ClientIds -> {"no", "conn", "unsubscribe"}]
        /\ idle \subseteq ClientIds /\ swept \in ClientIds \cup {"none"}
    BY DEF TypeOK
  <1> USE DEF sweepVars
  <1>1. CASE Tick
    <2>1. TypeOK'
      BY <1>0, <1>1 DEF Tick, TypeOK, BufferTypeOK, bufferVars
    <2> QED BY <1>1, <2>1, NoClientIdle DEF Tick, bufferVars
  <1>2. CASE SweepScan
    <2>1. TypeOK'
      BY <1>0, <1>2 DEF SweepScan, TypeOK, BufferTypeOK, bufferVars
    <2> QED BY <1>2, <2>1, NoClientIdle DEF SweepScan, bufferVars
  <1>3. CASE ShutdownSignal
    <2>1. TypeOK'
      BY <1>3 DEF ShutdownSignal, SignalClose, TypeOK, BufferTypeOK
    <2> QED BY <1>3, <2>1, NoClientIdle DEF ShutdownSignal, SignalClose
  <1>4. CASE ShutdownClients
    <2>1. \A c \in ClientIds : client'[c] = client[c]
                               \/ client'[c] = [client[c] EXCEPT !.conn = "closed"]
      BY <1>4 DEF ShutdownClients
    <2>2. ASSUME NEW c \in ClientIds
          PROVE  client'[c] \in Client /\ Untouched(client[c], client'[c])
      <3>1. client[c] \in Client
        BY <1>0
      <3>2. [client[c] EXCEPT !.conn = "closed"] \in Client
            /\ Untouched(client[c], [client[c] EXCEPT !.conn = "closed"])
        BY <3>1 DEF Client, Untouched
      <3> QED BY <2>1, <3>1, <3>2 DEF Untouched
    <2>3. client' \in [ClientIds -> Client]
      BY <1>4, <2>2 DEF ShutdownClients
    <2>4. TypeOK'
      BY <1>4, <2>3 DEF ShutdownClients, TypeOK, BufferTypeOK, bufferVars
    <2> QED BY <1>4, <2>2, <2>4 DEF ShutdownClients, IdleEffect, bufferVars
  <1>5. ASSUME NEW c \in ClientIds, Leave(c) PROVE TypeOK' /\ IdleEffect
    <2> DEFINE m == [client[c] EXCEPT !.conn = "gone"]
    <2>1. client' = [client EXCEPT ![c] = m] /\ UNCHANGED bufferVars
      BY <1>0, <1>5 DEF Leave
    <2>2. m \in Client /\ Untouched(client[c], m)
      <3>1. client[c] \in Client
        BY <1>0
      <3> QED BY <3>1 DEF Client, Untouched
    <2> HIDE DEF m
    <2>3. client' \in [ClientIds -> Client] /\ IdleEffect
      BY <2>1, <2>2, OneClientIdle
    <2>4. TypeOK'
      BY <1>0, <1>5, <2>3
         DEF Leave, TypeOK, BufferTypeOK, bufferVars
    <2> QED BY <2>3, <2>4
  <1>6. ASSUME NEW c \in ClientIds, Register(c) PROVE TypeOK' /\ IdleEffect
    <2> DEFINE m == [client[c] EXCEPT !.stage = "registered"]
    <2>1. client' = [client EXCEPT ![c] = m] /\ UNCHANGED bufferVars
          /\ client[c].stage = "subscribed"
      BY <1>0, <1>6 DEF Register
    <2>2. m \in Client /\ Untouched(client[c], m)
      <3>1. client[c] \in Client /\ client[c].stage = "subscribed"
        BY <1>0, <2>1
      <3> QED BY <3>1 DEF Client, Untouched
    <2> HIDE DEF m
    <2>3. client' \in [ClientIds -> Client] /\ IdleEffect
      BY <2>1, <2>2, OneClientIdle
    <2>4. TypeOK'
      BY <1>0, <1>6, <2>3
         DEF Register, TypeOK, BufferTypeOK, bufferVars
    <2> QED BY <2>3, <2>4
  <1>7. ASSUME NEW c \in ClientIds, RemoveConn(c) PROVE TypeOK' /\ IdleEffect
    <2> DEFINE m == IF c \in WebSockets THEN [client[c] EXCEPT !.conn = "closed"]
                    ELSE client[c]
    <2>1. client' = [client EXCEPT ![c] = m] /\ UNCHANGED bufferVars
      BY <1>0, <1>7 DEF RemoveConn
    <2>2. m \in Client /\ Untouched(client[c], m)
      <3>1. client[c] \in Client
        BY <1>0
      <3> QED BY <3>1 DEF Client, Untouched
    <2> HIDE DEF m
    <2>3. client' \in [ClientIds -> Client] /\ IdleEffect
      BY <2>1, <2>2, OneClientIdle
    <2>4. TypeOK'
      BY <1>0, <1>7, <2>3
         DEF RemoveConn, TypeOK, BufferTypeOK, bufferVars
    <2> QED BY <2>3, <2>4
  <1>8. ASSUME NEW c \in ClientIds, ChannelEnds(c) PROVE TypeOK' /\ IdleEffect
    <2> DEFINE m == [client[c] EXCEPT !.sender = "ended",
                                        !.sseOpen = @ /\ c \in WebSockets]
    <2>1. client' = [client EXCEPT ![c] = m] /\ UNCHANGED bufferVars
          /\ client[c].sender = "wait" /\ client[c].stage = "registered"
      BY <1>0, <1>8 DEF ChannelEnds, Registered
    <2>2. m \in Client /\ Untouched(client[c], m)
      <3>1. client[c] \in Client /\ client[c].sender = "wait" /\ client[c].stage = "registered"
        BY <1>0, <2>1
      <3> QED BY <3>1 DEF Client, Untouched
    <2> HIDE DEF m
    <2>3. client' \in [ClientIds -> Client] /\ IdleEffect
      BY <2>1, <2>2, OneClientIdle
    <2>4. TypeOK'
      BY <1>0, <1>8, <2>3, RemoveLookupType
         DEF ChannelEnds, TypeOK, BufferTypeOK, bufferVars
    <2> QED BY <2>3, <2>4
  <1>9. ASSUME NEW c \in ClientIds, ReadError(c) \/ SseDisconnect(c)
        PROVE  TypeOK' /\ IdleEffect
    <2> DEFINE m == [client[c] EXCEPT !.handler = "ended"]
    <2>1. client' = [client EXCEPT ![c] = m] /\ UNCHANGED bufferVars
      BY <1>0, <1>9 DEF ReadError, SseDisconnect
    <2>2. m \in Client /\ Untouched(client[c], m)
      <3>1. client[c] \in Client
        BY <1>0
      <3> QED BY <3>1 DEF Client, Untouched
    <2> HIDE DEF m
    <2>3. client' \in [ClientIds -> Client] /\ IdleEffect
      BY <2>1, <2>2, OneClientIdle
    <2>4. TypeOK'
      BY <1>0, <1>9, <2>3, RemoveLookupType
         DEF ReadError, SseDisconnect, TypeOK, BufferTypeOK, bufferVars
    <2> QED BY <2>3, <2>4
  <1>10. ASSUME NEW c \in ClientIds, SseEnds(c) PROVE TypeOK' /\ IdleEffect
    <2> DEFINE m == [client[c] EXCEPT !.handler = "ended"]
    <2>1. client' = [client EXCEPT ![c] = m] /\ UNCHANGED bufferVars
      BY <1>0, <1>10 DEF SseEnds
    <2>2. m \in Client /\ Untouched(client[c], m)
      <3>1. client[c] \in Client
        BY <1>0
      <3> QED BY <3>1 DEF Client, Untouched
    <2> HIDE DEF m
    <2>3. client' \in [ClientIds -> Client] /\ IdleEffect
      BY <2>1, <2>2, OneClientIdle
    <2>4. TypeOK'
      BY <1>0, <1>10, <2>3
         DEF SseEnds, TypeOK, BufferTypeOK, bufferVars
    <2> QED BY <2>3, <2>4
  <1>11. ASSUME NEW c \in ClientIds, SweepRemove(c) PROVE TypeOK' /\ IdleEffect
    <2>1. TypeOK'
      BY <1>0, <1>11, RemoveLookupType DEF SweepRemove, TypeOK, BufferTypeOK, bufferVars
    <2> QED BY <1>11, <2>1, NoClientIdle DEF SweepRemove, bufferVars
  <1>12. ASSUME NEW c \in ClientIds, HeartbeatFails(c) PROVE TypeOK' /\ IdleEffect
    <2>1. TypeOK'
      BY <1>12, RemoveLookupType DEF HeartbeatFails, TypeOK, BufferTypeOK, bufferVars
    <2> QED BY <1>12, <2>1, NoClientIdle DEF HeartbeatFails, bufferVars
  <1>13. ASSUME NEW c \in ClientIds, NEW contexts \in Requests, ClientMessage(c, contexts)
         PROVE  TypeOK' /\ IdleEffect
    <2> DEFINE m == [client[c] EXCEPT !.last = clock, !.contexts = contexts]
    <2>1. client' = [client EXCEPT ![c] = m] /\ UNCHANGED bufferVars
      BY <1>0, <1>13 DEF ClientMessage
    <2>2. m \in Client /\ Untouched(client[c], m)
      <3>1. client[c] \in Client /\ clock \in Nat
            /\ contexts \in SUBSET (Contexts \cup {Star})
        BY <1>0, ContextAssumption
      <3> QED BY <3>1 DEF Client, Untouched
    <2> HIDE DEF m
    <2>3. client' \in [ClientIds -> Client] /\ IdleEffect
      BY <2>1, <2>2, OneClientIdle
    <2>4. TypeOK'
      BY <1>0, <1>13, <2>3
         DEF ClientMessage, TypeOK, BufferTypeOK, bufferVars
    <2> QED BY <2>3, <2>4
  <1> QED
    BY <1>1, <1>2, <1>3, <1>4, <1>5, <1>6, <1>7, <1>8, <1>9, <1>10, <1>11, <1>12,
       <1>13 DEF Idle

\* A client connects: nothing has been sent to it.
LEMMA ConnectStep ==
  ASSUME ShapeInv, NEW c \in ClientIds, NEW b \in BOOLEAN, NEW x \in Asked,
         Connect(c, b, x)
  PROVE  LET k == client[c]
             m == client'[c]
         IN /\ TypeOK' /\ ClientShape(m) /\ k.stage = "new" /\ m.stage = "subscribed"
            /\ m.hand = k.hand /\ m.sse = k.sse /\ m.newest = k.newest
            /\ m.sender = "wait" /\ m.done = k.done
            /\ \A d \in ClientIds \ {c} : client'[d] = client[d]
            /\ Subscribe(c)
            /\ UNCHANGED <<clock, clients, removing, sweepVars, shutdown>>
  <1> DEFINE k == client[c]
             m == [k EXCEPT !.stage = "subscribed", !.contexts = {x}, !.last = clock,
                            !.isSSE = b]
  <1>1. TypeOK /\ k \in Client /\ ClientShape(k) /\ clock \in Nat
        /\ {x} \subseteq Contexts \cup {Star}
    BY ClientParts, ContextAssumption DEF ShapeInv, TypeOK
  <1>2. client' = [client EXCEPT ![c] = m] /\ k.stage = "new" /\ Subscribe(c)
        /\ UNCHANGED <<clock, clients, removing, sweepVars, shutdown>>
    BY DEF Connect
  <1>3. /\ m \in Client /\ m.stage = "subscribed" /\ m.hand = k.hand /\ m.sse = k.sse
        /\ m.newest = k.newest /\ m.sender = k.sender /\ m.done = k.done
    <2> HIDE DEF k
    <2> QED BY <1>1 DEF Client
  <1> HIDE DEF m
  <1>4. /\ client' \in [ClientIds -> Client] /\ client'[c] = m
        /\ \A d \in ClientIds \ {c} : client'[d] = client[d]
    BY <1>1, <1>2, <1>3, OneClient
  <1>5. k.sender = "wait" /\ k.sse = <<>> /\ k.hand = 0
    BY <1>1, <1>2 DEF ClientShape
  <1>6. ClientShape(m)
    BY <1>3, <1>5 DEF ClientShape
  <1>7. BufferTypeOK'
    BY <1>2, SubscribeStep
  <1>8. TypeOK'
    BY <1>1, <1>2, <1>4, <1>7 DEF TypeOK, sweepVars
  <1> QED BY <1>2, <1>3, <1>4, <1>5, <1>6, <1>8

\* A WebSocket client's goroutine takes a unit: it writes it next, or passes it
\* over.
LEMMA TakeForWebSocketStep ==
  ASSUME ShapeInv, NEW c \in ClientIds, TakeForWebSocket(c)
  PROVE  LET k == client[c]
             m == client'[c]
             unit == Head(channels[c].queue)
         IN /\ TypeOK' /\ ClientShape(m) /\ k.sender = "wait"
            /\ k.hand = 0 /\ k.sse = <<>>
            /\ m.sse = k.sse /\ m.newest = k.newest /\ m.stage = k.stage
            /\ \/ m.sender = "write" /\ m.hand = unit /\ m.done = k.done
               \/ m.sender = "wait" /\ m.hand = 0 /\ m.done = k.done \cup {unit}
            /\ \A d \in ClientIds \ {c} : client'[d] = client[d]
            /\ Take(c)
            /\ UNCHANGED <<clock, clients, removing, sweepVars, shutdown>>
  <1> DEFINE k == client[c]
             unit == Head(channels[c].queue)
             m1 == [k EXCEPT !.sender = "write", !.hand = unit]
             done == k.done \cup {unit}
             m2 == [k EXCEPT !.done = done]
  <1>1. TypeOK /\ k \in Client /\ ClientShape(k) /\ k.done \subseteq Nat
    BY ClientParts DEF ShapeInv
  <1>2. /\ client' = [client EXCEPT ![c] = m1] \/ client' = [client EXCEPT ![c] = m2]
        /\ k.stage = "registered" /\ k.sender = "wait" /\ ~k.isSSE /\ Take(c)
        /\ UNCHANGED <<clock, clients, removing, sweepVars, shutdown>>
    <2>1. client' = [client EXCEPT ![c] = IF Wants(c, unit) THEN m1 ELSE m2]
      BY DEF TakeForWebSocket
    <2>2. client' = [client EXCEPT ![c] = m1] \/ client' = [client EXCEPT ![c] = m2]
      BY <2>1
    <2> QED BY <2>2 DEF TakeForWebSocket, WebSockets, SseClients, Registered
  <1>3. BufferTypeOK' /\ unit \in Nat
    BY <1>2, TakeStep, FirstAndRest
  <1>4. k.hand = 0 /\ k.sse = <<>>
    BY <1>1, <1>2 DEF ClientShape
  <1> HIDE DEF unit
  <1>5. done \subseteq Nat
    BY <1>1, <1>3
  <1> HIDE DEF done, k
  <1>6. /\ m1 \in Client /\ m1.sender = "write" /\ m1.hand = unit /\ m1.done = k.done
        /\ m1.sse = k.sse /\ m1.newest = k.newest /\ m1.stage = k.stage
        /\ m1.isSSE <=> k.isSSE
    BY <1>1, <1>3 DEF Client
  <1>7. /\ m2 \in Client /\ m2.sender = k.sender /\ m2.hand = k.hand /\ m2.done = done
        /\ m2.sse = k.sse /\ m2.newest = k.newest /\ m2.stage = k.stage
        /\ m2.isSSE <=> k.isSSE
    BY <1>1, <1>5 DEF Client
  <1> HIDE DEF m1, m2
  <1>8. /\ client' \in [ClientIds -> Client]
        /\ client'[c] = m1 \/ client'[c] = m2
        /\ \A d \in ClientIds \ {c} : client'[d] = client[d]
    BY <1>1, <1>2, <1>6, <1>7, OneClient
  <1>9. ClientShape(m1) /\ ClientShape(m2)
    BY <1>2, <1>4, <1>6, <1>7 DEF ClientShape
  <1>10. TypeOK'
    BY <1>1, <1>2, <1>3, <1>8 DEF TypeOK, sweepVars
  <1> QED BY <1>2, <1>4, <1>6, <1>7, <1>8, <1>9, <1>10 DEF k, unit, done

\* An SSE client's goroutine takes a unit: it goes to sseChannel, or not.
LEMMA TakeForSseStep ==
  ASSUME ShapeInv, NEW c \in ClientIds, TakeForSse(c)
  PROVE  LET k == client[c]
             m == client'[c]
             unit == Head(channels[c].queue)
         IN /\ TypeOK' /\ ClientShape(m) /\ m.sender = "wait" /\ k.sender = "wait"
            /\ k.hand = 0 /\ m.hand = 0
            /\ m.newest = k.newest /\ m.stage = k.stage
            /\ \/ m.sse = Append(k.sse, unit) /\ m.done = k.done
               \/ m.sse = k.sse /\ m.done = k.done \cup {unit}
            /\ \A d \in ClientIds \ {c} : client'[d] = client[d]
            /\ Take(c)
            /\ UNCHANGED <<clock, clients, removing, sweepVars, shutdown>>
  <1> DEFINE k == client[c]
             unit == Head(channels[c].queue)
             sse == Append(k.sse, unit)
             m1 == [k EXCEPT !.sse = sse]
             done == k.done \cup {unit}
             m2 == [k EXCEPT !.done = done]
  <1>1. TypeOK /\ k \in Client /\ ClientShape(k) /\ k.done \subseteq Nat
        /\ k.sse \in Seq(Nat)
    BY ClientParts DEF ShapeInv
  <1>2. /\ client' = [client EXCEPT ![c] = m1] \/ client' = [client EXCEPT ![c] = m2]
        /\ k.stage = "registered" /\ k.sender = "wait" /\ k.isSSE /\ Take(c)
        /\ UNCHANGED <<clock, clients, removing, sweepVars, shutdown>>
    <2>1. client' = [client EXCEPT ![c] =
                       IF Wants(c, unit) /\ Len(k.sse) < SseSize THEN m1 ELSE m2]
      BY DEF TakeForSse
    <2>2. client' = [client EXCEPT ![c] = m1] \/ client' = [client EXCEPT ![c] = m2]
      BY <2>1
    <2> QED BY <2>2 DEF TakeForSse, SseClients, Registered
  <1>3. BufferTypeOK' /\ unit \in Nat
    BY <1>2, TakeStep, FirstAndRest
  <1>4. k.hand = 0
    BY <1>1, <1>2 DEF ClientShape
  <1> HIDE DEF unit
  <1>5. done \subseteq Nat /\ sse \in Seq(Nat)
    BY <1>1, <1>3, OneMore
  <1> HIDE DEF done, sse, k
  <1>6. /\ m1 \in Client /\ m1.sender = k.sender /\ m1.hand = k.hand /\ m1.done = k.done
        /\ m1.sse = sse /\ m1.newest = k.newest /\ m1.stage = k.stage
        /\ m1.isSSE <=> k.isSSE
    BY <1>1, <1>5 DEF Client
  <1>7. /\ m2 \in Client /\ m2.sender = k.sender /\ m2.hand = k.hand /\ m2.done = done
        /\ m2.sse = k.sse /\ m2.newest = k.newest /\ m2.stage = k.stage
        /\ m2.isSSE <=> k.isSSE
    BY <1>1, <1>5 DEF Client
  <1> HIDE DEF m1, m2
  <1>8. /\ client' \in [ClientIds -> Client]
        /\ client'[c] = m1 \/ client'[c] = m2
        /\ \A d \in ClientIds \ {c} : client'[d] = client[d]
    BY <1>1, <1>2, <1>6, <1>7, OneClient
  <1>9. ClientShape(m1) /\ ClientShape(m2)
    BY <1>1, <1>2, <1>4, <1>6, <1>7 DEF ClientShape
  <1>10. TypeOK'
    BY <1>1, <1>2, <1>3, <1>8 DEF TypeOK, sweepVars
  <1> QED BY <1>2, <1>4, <1>6, <1>7, <1>8, <1>9, <1>10 DEF k, unit, done, sse

\* The unit in hand is written.
LEMMA WriteUnitStep ==
  ASSUME ShapeInv, NEW c \in ClientIds, WriteUnit(c)
  PROVE  LET k == client[c]
             m == client'[c]
         IN /\ TypeOK' /\ ClientShape(m) /\ k.sender = "write" /\ m.sender = "wait"
            /\ m.hand = 0 /\ m.newest = k.hand /\ m.done = k.done \cup {k.hand}
            /\ m.sse = k.sse /\ k.sse = <<>> /\ m.stage = k.stage
            /\ \A d \in ClientIds \ {c} : client'[d] = client[d]
            /\ UNCHANGED <<bufferVars, clock, clients, removing, sweepVars, shutdown>>
  <1> DEFINE k == client[c]
             done == k.done \cup {k.hand}
             m == [k EXCEPT !.sender = "wait", !.hand = 0, !.last = clock,
                            !.newest = k.hand, !.done = done]
  <1>1. TypeOK /\ k \in Client /\ ClientShape(k) /\ k.done \subseteq Nat /\ k.hand \in Nat
        /\ clock \in Nat
    BY ClientParts DEF ShapeInv, TypeOK
  <1>2. client' = [client EXCEPT ![c] = m] /\ k.sender = "write"
        /\ UNCHANGED <<bufferVars, clock, clients, removing, sweepVars, shutdown>>
    BY DEF WriteUnit
  <1>3. done \subseteq Nat /\ 0 \in Nat
    BY <1>1
  <1> HIDE DEF done, k
  <1>4. /\ m \in Client /\ m.sender = "wait" /\ m.hand = 0 /\ m.newest = k.hand
        /\ m.done = done /\ m.sse = k.sse /\ m.stage = k.stage
        /\ m.isSSE <=> k.isSSE
    BY <1>1, <1>3 DEF Client
  <1> HIDE DEF m
  <1>5. /\ client' \in [ClientIds -> Client] /\ client'[c] = m
        /\ \A d \in ClientIds \ {c} : client'[d] = client[d]
    BY <1>1, <1>2, <1>4, OneClient
  <1>6. ClientShape(m) /\ k.sse = <<>>
    BY <1>1, <1>2, <1>4 DEF ClientShape
  <1>7. TypeOK'
    BY <1>1, <1>2, <1>5 DEF TypeOK, BufferTypeOK, bufferVars, sweepVars
  <1> QED BY <1>2, <1>4, <1>5, <1>6, <1>7 DEF k, done

\* The write fails and the goroutine closes the client's channel.
LEMMA WriteFailsStep ==
  ASSUME ShapeInv, NEW c \in ClientIds, WriteFails(c)
  PROVE  LET k == client[c]
             m == client'[c]
         IN /\ TypeOK' /\ ClientShape(m) /\ k.sender = "write" /\ m.sender = "failed"
            /\ m.hand = 0 /\ m.newest = k.newest /\ m.sse = k.sse /\ m.stage = k.stage
            /\ ~m.isSSE
            /\ \A d \in ClientIds \ {c} : client'[d] = client[d]
            /\ SameQueues /\ channels'[c].open = FALSE
            /\ \A d \in ClientIds \ {c} : channels'[d] = channels[d]
            /\ UNCHANGED <<currentBuffer, subscribers, flush, closed, published>>
            /\ UNCHANGED <<clock, clients, removing, sweepVars, shutdown>>
  <1> DEFINE k == client[c]
             m == [k EXCEPT !.sender = "failed", !.hand = 0]
  <1>1. TypeOK /\ k \in Client /\ ClientShape(k)
    BY ClientParts DEF ShapeInv
  <1>2. client' = [client EXCEPT ![c] = m] /\ k.sender = "write" /\ CloseChannel(c)
        /\ UNCHANGED <<currentBuffer, subscribers, flush, closed, published>>
        /\ UNCHANGED <<clock, clients, removing, sweepVars, shutdown>>
    BY DEF WriteFails, CloseOwn
  <1> HIDE DEF k
  <1>3. /\ m \in Client /\ m.sender = "failed" /\ m.hand = 0 /\ m.newest = k.newest
        /\ m.sse = k.sse /\ m.stage = k.stage
        /\ m.isSSE <=> k.isSSE
    BY <1>1 DEF Client
  <1> HIDE DEF m
  <1>4. /\ client' \in [ClientIds -> Client] /\ client'[c] = m
        /\ \A d \in ClientIds \ {c} : client'[d] = client[d]
    BY <1>1, <1>2, <1>3, OneClient
  <1>5. ClientShape(m) /\ ~m.isSSE
    BY <1>1, <1>2, <1>3 DEF ClientShape
  <1>6. /\ SameQueues /\ channels'[c].open = FALSE
        /\ \A d \in ClientIds \ {c} : channels'[d] = channels[d]
        /\ panic' \in {"none", "send", "close"}
    BY <1>2, CloseChannelStep
  <1>7. TypeOK'
    BY <1>1, <1>2, <1>4, <1>6 DEF TypeOK, BufferTypeOK, SameQueues, sweepVars
  <1> QED BY <1>2, <1>3, <1>4, <1>5, <1>6, <1>7 DEF k

\* The SSE stream writer takes the next unit of sseChannel.
LEMMA SseWriteStep ==
  ASSUME ShapeInv, NEW c \in ClientIds, SseWrite(c)
  PROVE  LET k == client[c]
             m == client'[c]
         IN /\ TypeOK' /\ ClientShape(m) /\ k.sse # <<>> /\ k.sse \in Seq(Nat)
            /\ m.sender = k.sender /\ m.hand = k.hand /\ k.hand = 0
            /\ m.newest = Head(k.sse) /\ m.sse = Tail(k.sse)
            /\ m.done = k.done \cup {Head(k.sse)} /\ m.stage = k.stage
            /\ \A d \in ClientIds \ {c} : client'[d] = client[d]
            /\ UNCHANGED <<bufferVars, clock, clients, removing, sweepVars, shutdown>>
  <1> DEFINE k == client[c]
             h == Head(k.sse)
             sse == Tail(k.sse)
             done == k.done \cup {h}
             m == [k EXCEPT !.sse = sse, !.last = clock, !.newest = h, !.done = done]
  <1>1. TypeOK /\ k \in Client /\ ClientShape(k) /\ k.done \subseteq Nat
        /\ k.sse \in Seq(Nat) /\ clock \in Nat
    BY ClientParts DEF ShapeInv, TypeOK
  <1>2. client' = [client EXCEPT ![c] = m] /\ k.sse # <<>>
        /\ UNCHANGED <<bufferVars, clock, clients, removing, sweepVars, shutdown>>
    BY DEF SseWrite
  <1>3. h \in Nat /\ sse \in Seq(Nat)
    BY <1>1, <1>2, FirstAndRest
  <1> HIDE DEF h, sse
  <1>4. done \subseteq Nat
    BY <1>1, <1>3
  <1> HIDE DEF done, k
  <1>5. /\ m \in Client /\ m.sender = k.sender /\ m.hand = k.hand /\ m.newest = h
        /\ m.done = done /\ m.sse = sse /\ m.stage = k.stage
        /\ m.isSSE <=> k.isSSE
    BY <1>1, <1>3, <1>4 DEF Client
  <1> HIDE DEF m
  <1>6. /\ client' \in [ClientIds -> Client] /\ client'[c] = m
        /\ \A d \in ClientIds \ {c} : client'[d] = client[d]
    BY <1>1, <1>2, <1>5, OneClient
  <1>7. k.isSSE /\ k.hand = 0 /\ k.stage = "registered"
    BY <1>1, <1>2 DEF ClientShape
  <1>8. ClientShape(m)
    BY <1>1, <1>5, <1>7 DEF ClientShape
  <1>9. TypeOK'
    BY <1>1, <1>2, <1>6 DEF TypeOK, BufferTypeOK, bufferVars, sweepVars
  <1> QED BY <1>1, <1>2, <1>5, <1>6, <1>7, <1>8, <1>9 DEF k, h, sse, done

----------------------------------------------------------------------------
\* Types

\* The steps that move units or close channels, besides those in which no unit
\* moves.
LEMMA Kinds ==
  ASSUME Next
  PROVE  /\ panic = "none"
         /\ \/ Idle \/ Forward \/ BufferLoop \/ ShutdownChannels
            \/ \E c \in ClientIds :
                 \/ RemoveUnsubscribe(c)
                 \/ \E b \in BOOLEAN, x \in Asked : Connect(c, b, x)
                 \/ TakeForWebSocket(c) \/ TakeForSse(c)
                 \/ WriteUnit(c) \/ WriteFails(c) \/ SseWrite(c)
  BY DEF Next, Step, ClientStep, RemoveStep, ShutdownStep, Idle

\* A step of the buffer that leaves the clients alone.
LEMMA BufferShape ==
  ASSUME ShapeInv, BufferTypeOK', FlushShape(flush'), client' = client,
         UNCHANGED <<clock, clients, removing, idle>>,
         shutdown' \in {"no", "channels", "clients", "done"},
         swept' \in ClientIds \cup {"none"}
  PROVE  ShapeInv'
  BY DEF ShapeInv, TypeOK

\* A step of one client.
LEMMA ClientShapes ==
  ASSUME ShapeInv, NEW c \in ClientIds, TypeOK', ClientShape(client'[c]), flush' = flush,
         \A d \in ClientIds \ {c} : client'[d] = client[d]
  PROVE  ShapeInv'
  BY DEF ShapeInv

\* The flush loop, whatever it does.
LEMMA BufferLoopShape ==
  ASSUME ShapeInv, FlushTick \/ FlushFinal \/ FlushStep
  PROVE  BufferTypeOK' /\ FlushShape(flush')
  <1>1. CASE FlushTick \/ FlushFinal
    BY <1>1, FlushWakes
  <1>2. CASE FlushSwap
    BY <1>2, FlushSwapStep
  <1>3. CASE FlushSnapshot
    BY <1>3, FlushSnapshotStep
  <1>4. ASSUME NEW id \in ClientIds, FlushSend(id)
        PROVE  BufferTypeOK' /\ FlushShape(flush')
    BY <1>4, FlushSendStep
  <1> QED BY <1>1, <1>2, <1>3, <1>4 DEF FlushStep

\* Before the first client everything has its shape.
LEMMA InitShape == Init => ShapeInv
  <1> SUFFICES ASSUME Init PROVE ShapeInv
    OBVIOUS
  <1>1. NoChannel \in Channel
    BY NoUnits DEF NoChannel, Channel
  <1>2. NewClient \in Client /\ ClientShape(NewClient)
    BY NoUnits DEF NewClient, Client, ClientShape
  <1>3. FlushStage("wait", FALSE) \in Flush /\ FlushShape(FlushStage("wait", FALSE))
    BY FlushStageType
  <1>4. client \in [ClientIds -> Client] /\ \A c \in ClientIds : client[c] = NewClient
    BY <1>2 DEF Init
  <1>5. BufferTypeOK
    BY <1>1, <1>3, NoUnits DEF Init, BufferInit, BufferTypeOK
  <1>6. TypeOK
    BY <1>4, <1>5 DEF Init, TypeOK
  <1>7. flush = FlushStage("wait", FALSE)
    BY DEF Init, BufferInit
  <1> QED BY <1>2, <1>3, <1>4, <1>6, <1>7 DEF ShapeInv

\* Every step keeps types and shapes.
LEMMA NextShape == ShapeInv /\ [Next]_vars => ShapeInv'
  <1> SUFFICES ASSUME ShapeInv, [Next]_vars PROVE ShapeInv'
    OBVIOUS
  <1>0. shutdown \in {"no", "channels", "clients", "done"}
        /\ swept \in ClientIds \cup {"none"}
    BY DEF ShapeInv, TypeOK
  <1> USE DEF sweepVars
  <1>1. CASE UNCHANGED vars
    BY <1>1 DEF vars, bufferVars, ShapeInv, TypeOK, BufferTypeOK
  <1>2. CASE Idle
    <2>1. TypeOK' /\ IdleEffect
      BY <1>2, IdleStep DEF ShapeInv
    <2>2. \A c \in ClientIds : ClientShape(client'[c])
      BY <2>1, UntouchedShape DEF ShapeInv, IdleEffect
    <2> QED BY <2>1, <2>2 DEF ShapeInv, IdleEffect
  <1>3. CASE Forward
    <2>1. BufferTypeOK' /\ FlushShape(flush')
      BY <1>3, PublishStep DEF Forward
    <2> QED BY <1>0, <1>3, <2>1, BufferShape DEF Forward
  <1>4. CASE BufferLoop
    <2>1. BufferTypeOK' /\ FlushShape(flush')
      BY <1>4, BufferLoopShape DEF BufferLoop
    <2> QED BY <1>0, <1>4, <2>1, BufferShape DEF BufferLoop
  <1>5. CASE ShutdownChannels
    <2>1. BufferTypeOK' /\ flush' = flush
      BY <1>5, CloseAllStep DEF ShutdownChannels
    <2>2. FlushShape(flush')
      BY <2>1 DEF ShapeInv
    <2> QED BY <1>0, <1>5, <2>1, <2>2, BufferShape DEF ShutdownChannels
  <1>6. ASSUME NEW c \in ClientIds, RemoveUnsubscribe(c) PROVE ShapeInv'
    <2>1. BufferTypeOK' /\ flush' = flush
      BY <1>6, UnsubscribeStep DEF RemoveUnsubscribe
    <2>2. removing' \in [ClientIds -> {"no", "conn", "unsubscribe"}]
          /\ swept' \in ClientIds \cup {"none"}
      BY <1>0, <1>6 DEF RemoveUnsubscribe, ShapeInv, TypeOK
    <2>3. TypeOK'
      BY <1>0, <1>6, <2>1, <2>2 DEF RemoveUnsubscribe, ShapeInv, TypeOK
    <2> QED BY <1>6, <2>1, <2>3 DEF RemoveUnsubscribe, ShapeInv
  <1>7. ASSUME NEW c \in ClientIds, NEW b \in BOOLEAN, NEW x \in Asked, Connect(c, b, x)
        PROVE  ShapeInv'
    <2>1. flush' = flush
      BY <1>7 DEF Connect, Subscribe
    <2> QED BY <1>7, <2>1, ConnectStep, ClientShapes
  <1>8. ASSUME NEW c \in ClientIds, TakeForWebSocket(c) PROVE ShapeInv'
    <2>1. flush' = flush
      BY <1>8 DEF TakeForWebSocket, Take
    <2> QED BY <1>8, <2>1, TakeForWebSocketStep, ClientShapes
  <1>9. ASSUME NEW c \in ClientIds, TakeForSse(c) PROVE ShapeInv'
    <2>1. flush' = flush
      BY <1>9 DEF TakeForSse, Take
    <2> QED BY <1>9, <2>1, TakeForSseStep, ClientShapes
  <1>10. ASSUME NEW c \in ClientIds, WriteUnit(c) PROVE ShapeInv'
    <2>1. flush' = flush
      BY <1>10 DEF WriteUnit, bufferVars
    <2> QED BY <1>10, <2>1, WriteUnitStep, ClientShapes
  <1>11. ASSUME NEW c \in ClientIds, WriteFails(c) PROVE ShapeInv'
    BY <1>11, WriteFailsStep, ClientShapes
  <1>12. ASSUME NEW c \in ClientIds, SseWrite(c) PROVE ShapeInv'
    <2>1. flush' = flush
      BY <1>12 DEF SseWrite, bufferVars
    <2> QED BY <1>12, <2>1, SseWriteStep, ClientShapes
  <1> QED
    BY <1>1, <1>2, <1>3, <1>4, <1>5, <1>6, <1>7, <1>8, <1>9, <1>10, <1>11, <1>12, Kinds

\* Notifier and buffer keep their types in every reachable state.
THEOREM NotifierTypeCorrect == Spec => []TypeOK
  <1>1. ShapeInv => TypeOK
    BY DEF ShapeInv
  <1> QED BY <1>1, InitShape, NextShape, PTL DEF Spec

----------------------------------------------------------------------------
\* Who closes a channel

\* A channel on the map is open unless the client's own goroutine has closed it
\* after a write error: nobody who takes a channel off the map to close it can find
\* it closed by another removal.
MapIsOpen == \A c \in subscribers : channels[c].open \/ client[c].sender = "failed"

CloseInv == ShapeInv /\ MapIsOpen /\ DoubleCloseNeedsWriteError

\* The goroutine that failed was a WebSocket client's.
LEMMA FailedIsWebSocket ==
  ASSUME ShapeInv, NEW c \in ClientIds, client[c].sender = "failed"
  PROVE  c \in WebSockets
  BY DEF ShapeInv, ClientShape, WebSockets, SseClients

\* A step that leaves panic alone.
LEMMA NoPanicClose ==
  ASSUME ShapeInv', MapIsOpen', panic' # "close"
  PROVE  CloseInv'
  BY DEF CloseInv, DoubleCloseNeedsWriteError

\* Every step keeps the channels on the map open, save those closed after a write
\* error, and panics over a closed channel only after one.
LEMMA NextClose == CloseInv /\ [Next]_vars => CloseInv'
  <1> SUFFICES ASSUME CloseInv, [Next]_vars PROVE CloseInv'
    OBVIOUS
  <1>0. ShapeInv /\ ShapeInv' /\ subscribers \subseteq ClientIds /\ MapIsOpen
    BY NextShape DEF CloseInv, ShapeInv, TypeOK, BufferTypeOK
  <1>1. CASE UNCHANGED vars
    BY <1>0, <1>1 DEF vars, bufferVars, CloseInv, MapIsOpen, DoubleCloseNeedsWriteError,
       WebSockets, SseClients
  <1>2. CASE panic = "none" /\ Idle
    <2>1. IdleEffect
      BY <1>0, <1>2, IdleStep DEF ShapeInv
    <2>2. MapIsOpen'
      BY <1>0, <2>1 DEF MapIsOpen, IdleEffect, Untouched
    <2> QED BY <1>0, <1>2, <2>1, <2>2, NoPanicClose DEF IdleEffect
  <1>3. CASE panic = "none" /\ Forward
    BY <1>0, <1>3, NoPanicClose DEF Forward, Publish, MapIsOpen
  <1>4. CASE panic = "none" /\ BufferLoop
    <2>1. ASSUME UNCHANGED <<subscribers, channels, panic>>
          PROVE  MapIsOpen' /\ panic' # "close"
      BY <1>0, <1>4, <2>1 DEF MapIsOpen, BufferLoop
    <2>2. ASSUME NEW id \in ClientIds, FlushSend(id)
          PROVE  MapIsOpen' /\ panic' # "close"
      <3>1. /\ subscribers' = subscribers
            /\ \A c \in ClientIds : channels'[c].open = channels[c].open
            /\ panic' = "send" \/ panic' = panic
        BY <1>0, <2>2, FlushSendStep
      <3> QED BY <1>0, <1>4, <3>1 DEF MapIsOpen, BufferLoop
    <2>3. MapIsOpen' /\ panic' # "close"
      BY <1>4, <2>1, <2>2 DEF BufferLoop, FlushStep, FlushTick, FlushFinal, FlushSwap,
         FlushSnapshot
    <2> QED BY <1>0, <2>3, NoPanicClose
  <1>5. CASE panic = "none" /\ ShutdownChannels
    <2>1. /\ subscribers' = {} /\ client' = client
          /\ panic' = IF \A c \in subscribers : channels[c].open THEN panic ELSE "close"
      BY <1>0, <1>5, CloseAllStep DEF ShutdownChannels
    <2>2. MapIsOpen'
      BY <2>1 DEF MapIsOpen
    <2>3. CASE \A c \in subscribers : channels[c].open
      BY <1>0, <1>5, <2>1, <2>2, <2>3, NoPanicClose
    <2>4. CASE \E c \in subscribers : ~channels[c].open
      <3>1. PICK c \in subscribers : client[c].sender = "failed"
        BY <1>0, <2>4 DEF MapIsOpen
      <3>2. c \in WebSockets
        BY <1>0, <3>1, FailedIsWebSocket
      <3>3. DoubleCloseNeedsWriteError'
        BY <2>1, <3>1, <3>2 DEF DoubleCloseNeedsWriteError, WebSockets, SseClients
      <3> QED BY <1>0, <2>2, <3>3 DEF CloseInv
    <2> QED BY <2>3, <2>4
  <1>6. ASSUME NEW c \in ClientIds, panic = "none", RemoveUnsubscribe(c) PROVE CloseInv'
    <2>1. /\ subscribers' = subscribers \ {c} /\ client' = client
          /\ \A d \in ClientIds \ {c} : channels'[d] = channels[d]
          /\ panic' = IF c \in subscribers /\ ~channels[c].open THEN "close" ELSE panic
      BY <1>0, <1>6, UnsubscribeStep DEF RemoveUnsubscribe
    <2>2. MapIsOpen'
      BY <1>0, <2>1 DEF MapIsOpen
    <2>3. CASE ~(c \in subscribers /\ ~channels[c].open)
      BY <1>0, <1>6, <2>1, <2>2, <2>3, NoPanicClose
    <2>4. CASE c \in subscribers /\ ~channels[c].open
      <3>1. client[c].sender = "failed"
        BY <1>0, <2>4 DEF MapIsOpen
      <3>2. c \in WebSockets
        BY <1>0, <3>1, FailedIsWebSocket
      <3>3. DoubleCloseNeedsWriteError'
        BY <2>1, <3>1, <3>2 DEF DoubleCloseNeedsWriteError, WebSockets, SseClients
      <3> QED BY <1>0, <2>2, <3>3 DEF CloseInv
    <2> QED BY <2>3, <2>4
  <1>7. ASSUME NEW c \in ClientIds, NEW b \in BOOLEAN, NEW x \in Asked,
               panic = "none", Connect(c, b, x)
        PROVE  CloseInv'
    <2>1. /\ subscribers' = subscribers \cup {c} /\ channels'[c].open /\ panic' = panic
          /\ \A d \in ClientIds \ {c} : channels'[d] = channels[d]
      BY <1>0, <1>7, SubscribeStep DEF Connect
    <2>2. \A d \in ClientIds \ {c} : client'[d] = client[d]
      BY <1>0, <1>7, ConnectStep
    <2>3. MapIsOpen'
      BY <1>0, <2>1, <2>2 DEF MapIsOpen
    <2> QED BY <1>0, <1>7, <2>1, <2>3, NoPanicClose
  <1>8. ASSUME NEW c \in ClientIds, panic = "none", TakeForWebSocket(c) \/ TakeForSse(c)
        PROVE  CloseInv'
    <2>1. /\ subscribers' = subscribers /\ panic' = panic
          /\ channels'[c].open = channels[c].open
          /\ \A d \in ClientIds \ {c} : channels'[d] = channels[d]
      BY <1>0, <1>8, TakeStep DEF TakeForWebSocket, TakeForSse
    <2>2. /\ client[c].sender = "wait"
          /\ \A d \in ClientIds \ {c} : client'[d] = client[d]
      BY <1>0, <1>8, TakeForWebSocketStep, TakeForSseStep
    <2>3. MapIsOpen'
      BY <1>0, <2>1, <2>2 DEF MapIsOpen
    <2> QED BY <1>0, <1>8, <2>1, <2>3, NoPanicClose
  <1>9. ASSUME NEW c \in ClientIds, panic = "none", WriteUnit(c) \/ SseWrite(c)
        PROVE  CloseInv'
    <2>1. UNCHANGED <<subscribers, channels, panic>>
      BY <1>9 DEF WriteUnit, SseWrite, bufferVars
    <2>2. /\ client'[c].sender = client[c].sender \/ client[c].sender = "write"
          /\ \A d \in ClientIds \ {c} : client'[d] = client[d]
      BY <1>0, <1>9, WriteUnitStep, SseWriteStep
    <2>3. MapIsOpen'
      BY <1>0, <2>1, <2>2 DEF MapIsOpen
    <2> QED BY <1>0, <1>9, <2>1, <2>3, NoPanicClose
  <1>10. ASSUME NEW c \in ClientIds, WriteFails(c) PROVE CloseInv'
    <2>1. /\ client'[c].sender = "failed" /\ subscribers' = subscribers
          /\ \A d \in ClientIds \ {c} : client'[d] = client[d] /\ channels'[d] = channels[d]
      BY <1>0, <1>10, WriteFailsStep
    <2>2. MapIsOpen'
      BY <1>0, <2>1 DEF MapIsOpen
    <2>3. ~client'[c].isSSE
      BY <1>0, <1>10, WriteFailsStep
    <2>4. DoubleCloseNeedsWriteError'
      BY <2>1, <2>3 DEF DoubleCloseNeedsWriteError, WebSockets, SseClients
    <2> QED BY <1>0, <2>2, <2>4 DEF CloseInv
  <1> QED
    BY <1>1, <1>2, <1>3, <1>4, <1>5, <1>6, <1>7, <1>8, <1>9, <1>10, Kinds

\* However many parties remove a client, with any number of clients: the process
\* panics over a channel that is closed twice only when the goroutine of some
\* WebSocket client has closed its own channel after a write error.
THEOREM OneClosePerChannel == Spec => []DoubleCloseNeedsWriteError
  <1>1. Init => CloseInv
    BY InitShape DEF Init, BufferInit, CloseInv, MapIsOpen, DoubleCloseNeedsWriteError
  <1>2. CloseInv => DoubleCloseNeedsWriteError
    BY DEF CloseInv
  <1> QED BY <1>1, <1>2, NextClose, PTL DEF Spec

----------------------------------------------------------------------------
\* Which clients flush serves

\* Only a client that was registered is on the map or being removed, and never
\* both; until Shutdown one that has subscribed stays subscribed as long as it is on
\* its way to the map or on it.
OnTheMap(c) ==
    /\ client[c].stage # "registered" => c \notin clients /\ removing[c] = "no"
    /\ removing[c] # "no" => c \notin clients
    /\ ~closed /\ client[c].stage = "subscribed" => c \in subscribers
    /\ ~closed /\ c \in clients => c \in subscribers

ReachInv ==
    /\ CloseInv
    /\ closed <=> shutdown # "no"
    /\ \A c \in ClientIds : OnTheMap(c)

StagesSame == \A c \in ClientIds : client'[c].stage = client[c].stage

\* A step that concerns none of this.
LEMMA ReachSame ==
  ASSUME ReachInv, CloseInv', StagesSame,
         UNCHANGED <<clients, removing, closed, subscribers, shutdown>>
  PROVE  ReachInv'
  BY DEF ReachInv, OnTheMap, StagesSame

\* removeClient takes a client off the map, whoever calls it.
LEMMA ReachLookup ==
  ASSUME ReachInv, CloseInv', StagesSame, NEW c \in ClientIds, RemoveLookup(c),
         UNCHANGED <<closed, subscribers, shutdown>>
  PROVE  ReachInv'
  <1>1. removing \in [ClientIds -> {"no", "conn", "unsubscribe"}]
    BY DEF ReachInv, CloseInv, ShapeInv, TypeOK
  <1>2. /\ clients' = clients \ {c}
        /\ \A d \in ClientIds :
              removing'[d] = IF d = c /\ c \in clients THEN "conn" ELSE removing[d]
    BY <1>1 DEF RemoveLookup
  <1>3. \A d \in ClientIds : OnTheMap(d)'
    BY <1>2 DEF ReachInv, OnTheMap, StagesSame
  <1> QED BY <1>3 DEF ReachInv

\* Every step leaves the clients on the map within reach of flush.
LEMMA NextReach == ReachInv /\ [Next]_vars => ReachInv'
  <1> SUFFICES ASSUME ReachInv, [Next]_vars PROVE ReachInv'
    OBVIOUS
  <1>0. /\ CloseInv' /\ ShapeInv /\ client \in [ClientIds -> Client]
        /\ removing \in [ClientIds -> {"no", "conn", "unsubscribe"}]
    BY NextClose DEF ReachInv, CloseInv, ShapeInv, TypeOK
  <1> USE DEF sweepVars, bufferVars
  <1>1. CASE UNCHANGED vars \/ Tick \/ SweepScan \/ Forward \/ BufferLoop
    <2>1. UNCHANGED <<client, clients, removing, closed, subscribers, shutdown>>
      BY <1>0, <1>1, FlushSendStep
         DEF vars, Tick, SweepScan, Forward, Publish, BufferLoop, FlushStep, FlushTick,
             FlushFinal, FlushSwap, FlushSnapshot
    <2> QED BY <1>0, <2>1, ReachSame DEF StagesSame
  <1>2. ASSUME NEW c \in ClientIds,
               \/ Leave(c) \/ SseEnds(c)
               \/ \E contexts \in Requests : ClientMessage(c, contexts)
        PROVE  ReachInv'
    <2>1. StagesSame
      <3>1. CASE Leave(c)
        BY <1>0, <3>1 DEF Leave, StagesSame, Client
      <3>2. CASE SseEnds(c)
        BY <1>0, <3>2 DEF SseEnds, StagesSame, Client
      <3>3. ASSUME NEW contexts \in Requests, ClientMessage(c, contexts)
            PROVE  StagesSame
        BY <1>0, <3>3 DEF ClientMessage, StagesSame, Client
      <3> QED BY <1>2, <3>1, <3>2, <3>3
    <2> QED BY <1>0, <1>2, <2>1, ReachSame DEF Leave, SseEnds, ClientMessage
  <1>3. ASSUME NEW c \in ClientIds,
               ChannelEnds(c) \/ ReadError(c) \/ SseDisconnect(c) \/ SweepRemove(c)
               \/ HeartbeatFails(c)
        PROVE  ReachInv'
    <2>1. StagesSame
      <3>1. CASE ChannelEnds(c)
        BY <1>0, <3>1 DEF ChannelEnds, StagesSame, Client
      <3>2. CASE ReadError(c)
        BY <1>0, <3>2 DEF ReadError, StagesSame, Client
      <3>3. CASE SseDisconnect(c)
        BY <1>0, <3>3 DEF SseDisconnect, StagesSame, Client
      <3>4. CASE SweepRemove(c) \/ HeartbeatFails(c)
        BY <3>4 DEF SweepRemove, HeartbeatFails, StagesSame
      <3> QED BY <1>3, <3>1, <3>2, <3>3, <3>4
    <2>2. RemoveLookup(c) /\ UNCHANGED <<closed, subscribers, shutdown>>
      BY <1>3 DEF ChannelEnds, ReadError, SseDisconnect, SweepRemove, HeartbeatFails
    <2> QED BY <1>0, <2>1, <2>2, ReachLookup
  <1>4. ASSUME NEW c \in ClientIds, RemoveConn(c) PROVE ReachInv'
    <2>1. StagesSame
      BY <1>0, <1>4 DEF RemoveConn, StagesSame, Client
    <2>2. /\ \A d \in ClientIds :
                removing'[d] = IF d = c THEN "unsubscribe" ELSE removing[d]
          /\ removing[c] = "conn" /\ UNCHANGED <<clients, closed, subscribers, shutdown>>
      BY <1>0, <1>4 DEF RemoveConn
    <2>3. \A d \in ClientIds : OnTheMap(d)'
      BY <2>1, <2>2 DEF ReachInv, OnTheMap, StagesSame
    <2> QED BY <1>0, <2>2, <2>3 DEF ReachInv
  <1>5. ASSUME NEW c \in ClientIds, RemoveUnsubscribe(c) PROVE ReachInv'
    <2>1. /\ \A d \in ClientIds : removing'[d] = IF d = c THEN "no" ELSE removing[d]
          /\ removing[c] = "unsubscribe" /\ UNCHANGED <<client, clients, shutdown>>
      BY <1>0, <1>5 DEF RemoveUnsubscribe
    <2>2. subscribers' = subscribers \ {c} /\ closed' = closed
      BY <1>0, <1>5, UnsubscribeStep DEF RemoveUnsubscribe
    <2>3. c \notin clients /\ client[c].stage = "registered"
      BY <2>1 DEF ReachInv, OnTheMap
    <2>4. \A d \in ClientIds : OnTheMap(d)'
      BY <2>1, <2>2, <2>3 DEF ReachInv, OnTheMap
    <2> QED BY <1>0, <2>1, <2>2, <2>4 DEF ReachInv
  <1>6. ASSUME NEW c \in ClientIds, Register(c) PROVE ReachInv'
    <2>1. /\ client[c].stage = "subscribed" /\ clients' = clients \cup {c}
          /\ client'[c].stage = "registered"
          /\ \A d \in ClientIds \ {c} : client'[d] = client[d]
          /\ UNCHANGED <<removing, closed, subscribers, shutdown>>
      BY <1>0, <1>6 DEF Register, Client
    <2>2. \A d \in ClientIds : OnTheMap(d)'
      BY <2>1 DEF ReachInv, OnTheMap
    <2> QED BY <1>0, <2>1, <2>2 DEF ReachInv
  <1>7. ASSUME NEW c \in ClientIds, NEW b \in BOOLEAN, NEW x \in Asked, Connect(c, b, x)
        PROVE  ReachInv'
    <2>1. /\ client[c].stage = "new" /\ client'[c].stage = "subscribed"
          /\ \A d \in ClientIds \ {c} : client'[d] = client[d]
          /\ Subscribe(c) /\ UNCHANGED <<clients, removing, shutdown>>
      BY <1>0, <1>7, ConnectStep
    <2>2. subscribers' = subscribers \cup {c} /\ closed' = closed
      BY <2>1 DEF Subscribe
    <2>3. \A d \in ClientIds : OnTheMap(d)'
      BY <2>1, <2>2 DEF ReachInv, OnTheMap
    <2> QED BY <1>0, <2>1, <2>2, <2>3 DEF ReachInv
  <1>8. ASSUME NEW c \in ClientIds,
               TakeForWebSocket(c) \/ TakeForSse(c) \/ WriteUnit(c) \/ WriteFails(c)
               \/ SseWrite(c)
        PROVE  ReachInv'
    <2>1. /\ client'[c].stage = client[c].stage
          /\ \A d \in ClientIds \ {c} : client'[d] = client[d]
      BY <1>0, <1>8, TakeForWebSocketStep, TakeForSseStep, WriteUnitStep, WriteFailsStep,
         SseWriteStep
    <2>2. UNCHANGED <<clients, removing, closed, subscribers, shutdown>>
      BY <1>8 DEF TakeForWebSocket, TakeForSse, WriteUnit, WriteFails, SseWrite, Take,
         CloseOwn
    <2> QED BY <1>0, <2>1, <2>2, ReachSame DEF StagesSame
  <1>9. CASE ShutdownSignal
    <2>1. closed' = TRUE /\ shutdown' = "channels"
          /\ UNCHANGED <<client, clients, removing, subscribers>>
      BY <1>9 DEF ShutdownSignal, SignalClose
    <2> QED BY <1>0, <2>1 DEF ReachInv, OnTheMap
  <1>10. CASE ShutdownChannels
    <2>1. closed' = closed /\ shutdown = "channels" /\ shutdown' = "clients"
          /\ UNCHANGED <<client, clients, removing>>
      BY <1>10 DEF ShutdownChannels, CloseAll
    <2> QED BY <1>0, <2>1 DEF ReachInv, OnTheMap
  <1>11. CASE ShutdownClients
    <2>1. StagesSame
      BY <1>0, <1>11 DEF ShutdownClients, StagesSame, Client
    <2>2. closed' = closed /\ shutdown = "clients" /\ shutdown' = "done"
          /\ clients' = {} /\ UNCHANGED <<removing, subscribers>>
      BY <1>11 DEF ShutdownClients
    <2> QED BY <1>0, <2>1, <2>2 DEF ReachInv, OnTheMap, StagesSame
  <1> QED
    BY <1>1, <1>2, <1>3, <1>4, <1>5, <1>6, <1>7, <1>8, <1>9, <1>10, <1>11, Kinds DEF Idle

\* Until Shutdown begins every client in the map has a channel that flush serves,
\* and the channel is open unless the client's own goroutine has closed it.
THEOREM RegisteredClientsAreServed == Spec => []RegisteredIsReachable
  <1>1. Init => ReachInv
    <2> SUFFICES ASSUME Init PROVE ReachInv
      OBVIOUS
    <2>1. CloseInv
      BY InitShape DEF Init, BufferInit, CloseInv, MapIsOpen, DoubleCloseNeedsWriteError
    <2>2. \A c \in ClientIds : client[c].stage = "new" /\ removing[c] = "no"
      BY DEF Init, NewClient
    <2> QED BY <2>1, <2>2 DEF Init, BufferInit, ReachInv, OnTheMap
  <1>2. ReachInv => RegisteredIsReachable
    BY DEF ReachInv, OnTheMap, CloseInv, MapIsOpen, RegisteredIsReachable, ShapeInv, TypeOK
  <1> QED BY <1>1, <1>2, NextReach, PTL DEF Spec

----------------------------------------------------------------------------
\* The order in which a client is sent units

\* The units that a flush f and a buffer b have for the client c.
Due(c, f, b) ==
    Elems(b) \cup (IF f.stage = "snapshot" \/ c \in f.snapshot THEN Elems(f.batch) ELSE {})
             \cup (IF f.to = c THEN Elems(f.left) ELSE {})

\* They are the pending ones.
LEMMA PendingIsDue ==
  ASSUME NEW c
  PROVE  /\ Pending(c) = Due(c, flush, currentBuffer)
         /\ Pending(c)' = Due(c, flush', currentBuffer')
  BY DEF Pending, Due, Elems

\* Batch and buffer are in order, the batch before the buffer, and hold units that
\* were published.
BufferOrder(f, b, n) ==
    /\ Increasing(b) /\ Increasing(f.batch) /\ Increasing(f.left)
    /\ \A x \in Elems(b) \cup Elems(f.batch) \cup Elems(f.left) : x \in 1..n
    /\ \A x \in Elems(f.batch) \cup Elems(f.left), y \in Elems(b) : x < y

\* What a client with the channel contents q was sent last or holds.
Held(k, q) == {k.newest, k.hand} \cup Elems(k.sse) \cup Elems(q)

\* It is in order along the way to the client.
ClientOrder(k, q) ==
    /\ k.sender = "write" => k.newest < k.hand
    /\ Increasing(k.sse) /\ Increasing(q)
    /\ \A x \in Elems(k.sse) : k.newest < x
    /\ \A y \in Elems(q) : k.newest < y /\ k.hand < y /\ \A x \in Elems(k.sse) : x < y

\* It was published, and comes before what is due to the client.
ClientInv(k, q, due, n) ==
    /\ ClientOrder(k, q)
    /\ \A x \in Held(k, q) : x \in 0..n
    /\ \A x \in Held(k, q), y \in due : x < y

OrderInv ==
    /\ ShapeInv
    /\ BufferOrder(flush, currentBuffer, published)
    /\ \A c \in ClientIds :
          ClientInv(client[c], channels[c].queue, Due(c, flush, currentBuffer), published)

\* More is published, and what is due was due before or is new.
LEMMA DueChanges ==
  ASSUME NEW k, NEW q, NEW due, NEW due2, NEW n \in Nat, NEW n2 \in Nat,
         ClientInv(k, q, due, n), n <= n2, \A y \in due2 : y \in due \/ y = n + 1
  PROVE  ClientInv(k, q, due2, n2)
  <1>1. \A x \in Held(k, q) : x \in 0..n
    BY DEF ClientInv
  <1>2. \A x \in Held(k, q) : x \in 0..n2 /\ x < n + 1
    BY <1>1
  <1> QED BY <1>2 DEF ClientInv

\* A client with its units untouched.
LEMMA UntouchedOrder ==
  ASSUME NEW k, NEW m, NEW q, NEW due, NEW n, ClientInv(k, q, due, n), Untouched(k, m)
  PROVE  ClientInv(m, q, due, n)
  BY DEF ClientInv, ClientOrder, Held, Untouched

\* The next unit due goes into the channel.
LEMMA OfferOrder ==
  ASSUME NEW k \in Client, NEW q \in Seq(Nat), NEW due, NEW due2, NEW n \in Nat,
         NEW u \in due, u \in 1..n, ClientInv(k, q, due, n),
         \A y \in due2 : y \in due /\ u < y
  PROVE  ClientInv(k, Append(q, u), due2, n)
  <1>1. Elems(Append(q, u)) = Elems(q) \cup {u}
        /\ (Increasing(q) /\ (\A y \in Elems(q) : y < u) => Increasing(Append(q, u)))
    BY OneMore
  <1>2. \A x \in Held(k, q) : x < u
    BY DEF ClientInv
  <1>3. Increasing(Append(q, u))
    BY <1>1, <1>2 DEF ClientInv, ClientOrder, Held
  <1>4. ClientOrder(k, Append(q, u))
    BY <1>1, <1>2, <1>3 DEF ClientInv, ClientOrder, Held
  <1>5. Held(k, Append(q, u)) = Held(k, q) \cup {u}
    BY <1>1 DEF Held
  <1>6. u \in 0..n
    OBVIOUS
  <1> QED BY <1>4, <1>5, <1>6 DEF ClientInv

\* A goroutine takes the first unit of the channel: it has it in hand, has put it in
\* sseChannel or has passed it over.
LEMMA TakeOrder ==
  ASSUME NEW k \in Client, NEW m \in Client, NEW q \in Seq(Nat), q # <<>>, NEW due,
         NEW n \in Nat,
         ClientInv(k, q, due, n), m.newest = k.newest, k.hand = 0,
         \/ m.sse = k.sse /\ k.sse = <<>> /\ m.hand = Head(q)
         \/ m.sse = k.sse /\ m.hand = 0 /\ m.sender = "wait"
         \/ m.sse = Append(k.sse, Head(q)) /\ m.hand = 0 /\ m.sender = "wait"
  PROVE  ClientInv(m, Tail(q), due, n)
  <1> DEFINE h == Head(q)
             t == Tail(q)
  <1>1. /\ h \in Nat /\ h \in Elems(q) /\ Elems(q) = {h} \cup Elems(t)
        /\ Increasing(q) => Increasing(t) /\ \A x \in Elems(t) : h < x
    BY FirstAndRest
  <1>2. /\ k.newest < h /\ \A x \in Elems(k.sse) : x < h
        /\ Increasing(t) /\ \A x \in Elems(t) : h < x
    BY <1>1 DEF ClientInv, ClientOrder
  <1>3. k.newest \in Nat /\ k.sse \in Seq(Nat)
    BY DEF Client
  <1> HIDE DEF h, t
  <1>4. CASE m.sse = k.sse /\ k.sse = <<>> /\ m.hand = h
    <2>1. Elems(k.sse) = {} /\ Increasing(k.sse)
      BY <1>4, NoUnits
    <2>2. ClientOrder(m, t)
      BY <1>1, <1>2, <1>4, <2>1 DEF ClientInv, ClientOrder
    <2>3. Held(m, t) \subseteq Held(k, q)
      BY <1>1, <1>4 DEF Held
    <2> QED BY <2>2, <2>3 DEF ClientInv, t
  <1>5. CASE m.sse = k.sse /\ m.hand = 0 /\ m.sender = "wait"
    <2>1. ClientOrder(m, t)
      BY <1>1, <1>2, <1>5 DEF ClientInv, ClientOrder
    <2>2. Held(m, t) \subseteq Held(k, q)
      BY <1>1, <1>5 DEF Held
    <2> QED BY <2>1, <2>2 DEF ClientInv, t
  <1>6. CASE m.sse = Append(k.sse, h) /\ m.hand = 0 /\ m.sender = "wait"
    <2>1. Elems(m.sse) = Elems(k.sse) \cup {h}
          /\ (Increasing(k.sse) /\ (\A y \in Elems(k.sse) : y < h) => Increasing(m.sse))
      BY <1>1, <1>3, <1>6, OneMore
    <2>2. ClientOrder(m, t)
      BY <1>1, <1>2, <1>6, <2>1 DEF ClientInv, ClientOrder
    <2>3. Held(m, t) \subseteq Held(k, q)
      BY <1>1, <1>6, <2>1 DEF Held
    <2> QED BY <2>2, <2>3 DEF ClientInv, t
  <1> QED BY <1>4, <1>5, <1>6 DEF h

\* The unit in hand, or the first one of sseChannel, is written; or the write fails.
LEMMA WriteOrder ==
  ASSUME NEW k \in Client, NEW m \in Client, NEW q \in Seq(Nat), NEW due \in SUBSET Nat,
         NEW n \in Nat,
         ClientInv(k, q, due, n), m.hand = 0, m.sender # "write",
         \/ m.newest = k.newest /\ m.sse = k.sse
         \/ m.newest = k.hand /\ m.sse = k.sse /\ k.sse = <<>>
         \/ k.sse # <<>> /\ m.newest = Head(k.sse) /\ m.sse = Tail(k.sse)
  PROVE  ClientInv(m, q, due, n)
  <1>1. k.newest \in Nat /\ k.sse \in Seq(Nat) /\ k.hand \in Nat
    BY DEF Client
  <1>2. \A y \in Elems(q) \cup due : k.newest < y /\ y \in Nat
    <2>1. \A y \in Elems(q) : y \in Nat
      BY ElementOfSeq DEF Elems
    <2> QED BY <2>1 DEF ClientInv, ClientOrder, Held
  <1>3. \A y \in Elems(q) \cup due : 0 < y
    BY <1>1, <1>2
  <1>4. 0 \in 0..n
    OBVIOUS
  <1>5. CASE m.newest = k.newest /\ m.sse = k.sse
    <2>1. ClientOrder(m, q)
      BY <1>3, <1>5 DEF ClientInv, ClientOrder
    <2>2. Held(m, q) \subseteq Held(k, q) \cup {0}
      BY <1>5 DEF Held
    <2> QED BY <1>3, <1>4, <2>1, <2>2 DEF ClientInv
  <1>6. CASE m.newest = k.hand /\ m.sse = k.sse /\ k.sse = <<>>
    <2>1. Elems(m.sse) = {} /\ Increasing(m.sse)
      BY <1>6, NoUnits
    <2>2. ClientOrder(m, q)
      BY <1>3, <1>6, <2>1 DEF ClientInv, ClientOrder
    <2>3. Held(m, q) \subseteq Held(k, q) \cup {0}
      BY <1>6 DEF Held
    <2> QED BY <1>3, <1>4, <2>2, <2>3 DEF ClientInv
  <1>7. CASE k.sse # <<>> /\ m.newest = Head(k.sse) /\ m.sse = Tail(k.sse)
    <2>1. /\ m.newest \in Elems(k.sse) /\ Elems(k.sse) = {m.newest} \cup Elems(m.sse)
          /\ Increasing(k.sse) => /\ Increasing(m.sse)
                                  /\ \A x \in Elems(m.sse) : m.newest < x
      BY <1>1, <1>7, FirstAndRest
    <2>2. ClientOrder(m, q)
      BY <1>3, <2>1 DEF ClientInv, ClientOrder
    <2>3. Held(m, q) \subseteq Held(k, q) \cup {0}
      BY <2>1 DEF Held
    <2> QED BY <1>3, <1>4, <2>2, <2>3 DEF ClientInv
  <1> QED BY <1>5, <1>6, <1>7

\* What is due was published, and comes in order: a batch before the buffer.
LEMMA DueType ==
  ASSUME NEW c, NEW f, NEW b, NEW n \in Nat, BufferOrder(f, b, n)
  PROVE  Due(c, f, b) \in SUBSET Nat /\ \A y \in Due(c, f, b) : y \in 1..n
  BY DEF Due, BufferOrder

\* A step of one client that leaves the buffer alone.
LEMMA OneClientOrder ==
  ASSUME OrderInv, ShapeInv', NEW c \in ClientIds,
         UNCHANGED <<currentBuffer, flush, published>>,
         ClientInv(client'[c], channels'[c].queue, Due(c, flush, currentBuffer), published),
         \A d \in ClientIds \ {c} :
            client'[d] = client[d] /\ channels'[d].queue = channels[d].queue
  PROVE  OrderInv'
  <1>1. BufferOrder(flush', currentBuffer', published')
    BY DEF OrderInv
  <1>2. \A d \in ClientIds : ClientInv(client'[d], channels'[d].queue,
                                       Due(d, flush', currentBuffer'), published')
    BY DEF OrderInv
  <1> QED BY <1>1, <1>2 DEF OrderInv

\* A step that moves no unit along a client's way; less may be due, or a new unit.
LEMMA BufferStepOrder ==
  ASSUME OrderInv, ShapeInv', BufferOrder(flush', currentBuffer', published'),
         published' = published \/ published' = published + 1,
         \A c \in ClientIds :
            /\ Untouched(client[c], client'[c])
            /\ channels'[c].queue = channels[c].queue
            /\ \A y \in Due(c, flush', currentBuffer') :
                  y \in Due(c, flush, currentBuffer) \/ y = published + 1
  PROVE  OrderInv'
  <1>1. published \in Nat /\ published' \in Nat /\ published <= published'
    BY DEF OrderInv, ShapeInv, TypeOK, BufferTypeOK
  <1>2. ASSUME NEW c \in ClientIds
        PROVE  ClientInv(client'[c], channels'[c].queue,
                         Due(c, flush', currentBuffer'), published')
    <2>1. ClientInv(client[c], channels[c].queue, Due(c, flush, currentBuffer), published)
      BY DEF OrderInv
    <2>2. ClientInv(client'[c], channels'[c].queue, Due(c, flush, currentBuffer), published)
      BY <2>1, UntouchedOrder
    <2> QED BY <1>1, <2>2, DueChanges
  <1> QED BY <1>2 DEF OrderInv

\* The flush loop leaves its select, or swaps the buffers, or copies the map: no
\* unit is due that was not.
LEMMA FlushOrder ==
  ASSUME OrderInv, FlushTick \/ FlushFinal \/ FlushSwap \/ FlushSnapshot
  PROVE  /\ BufferOrder(flush', currentBuffer', published')
         /\ \A c \in ClientIds : \A y \in Due(c, flush', currentBuffer') :
               y \in Due(c, flush, currentBuffer)
         /\ UNCHANGED <<channels, published>>
  <1>0. ShapeInv /\ BufferOrder(flush, currentBuffer, published)
    BY DEF OrderInv
  <1>1. CASE FlushTick \/ FlushFinal
    <2>1. /\ flush'.batch = <<>> /\ flush'.left = <<>>
          /\ UNCHANGED <<currentBuffer, channels, published>>
      BY <1>0, <1>1, FlushWakes
    <2> QED BY <1>0, <2>1, NoUnits DEF BufferOrder, Due
  <1>2. CASE FlushSwap
    <2>1. /\ currentBuffer' = <<>> /\ flush'.left = <<>> /\ flush'.batch = currentBuffer
          /\ UNCHANGED <<channels, published>>
      BY <1>0, <1>2, FlushSwapStep
    <2> QED BY <1>0, <2>1, NoUnits DEF BufferOrder, Due
  <1>3. CASE FlushSnapshot
    <2>1. /\ flush.stage = "snapshot" /\ flush'.left = <<>>
          /\ flush'.batch = flush.batch \/ flush'.batch = <<>>
          /\ UNCHANGED <<currentBuffer, channels, published>>
      BY <1>0, <1>3, FlushSnapshotStep
    <2> QED BY <1>0, <2>1, NoUnits DEF BufferOrder, Due
  <1> QED BY <1>1, <1>2, <1>3

\* flush sends the next unit of the batch to a client.
LEMMA SendOrder ==
  ASSUME OrderInv, ShapeInv', NEW id \in ClientIds, FlushSend(id), client' = client
  PROVE  OrderInv'
  <1> DEFINE units == SendUnits(id)
             u == Head(units)
             rest == Tail(units)
             due(c) == Due(c, flush, currentBuffer)
  <1>0. /\ ShapeInv /\ BufferOrder(flush, currentBuffer, published) /\ published \in Nat
        /\ client[id] \in Client /\ channels[id].queue \in Seq(Nat)
        /\ \A c \in ClientIds : ClientInv(client[c], channels[c].queue, due(c), published)
    BY ClientParts DEF OrderInv, ShapeInv, TypeOK, BufferTypeOK
  <1>1. /\ units \in Seq(Nat) /\ units # <<>>
        /\ (flush.to = "none" /\ id \in flush.snapshot) \/ flush.to = id
        /\ currentBuffer' = currentBuffer /\ published' = published
        /\ \A c \in ClientIds \ {id} : channels'[c] = channels[c]
        /\ \/ UNCHANGED <<channels, flush>>
           \/ /\ Offered(id, u)
              /\ flush'.left = rest /\ flush'.snapshot = flush.snapshot \ {id}
              /\ flush'.stage # "snapshot" /\ flush'.to \in {"none", id}
              /\ \/ flush'.batch = flush.batch
                 \/ flush'.batch = <<>> /\ flush'.snapshot = {}
    BY <1>0, FlushSendStep
  <1>2. /\ u \in Nat /\ u \in Elems(units) /\ Elems(units) = {u} \cup Elems(rest)
        /\ Increasing(units) => Increasing(rest) /\ \A y \in Elems(rest) : u < y
    BY <1>1, FirstAndRest
  <1>3. /\ Increasing(units) /\ Elems(units) \subseteq due(id)
        /\ \A y \in Elems(units) : y \in 1..published
        /\ \A x \in Elems(units), y \in Elems(currentBuffer) : x < y
    BY <1>0, <1>1, ClientAssumption DEF SendUnits, BufferOrder, Due
  <1> HIDE DEF units, u, rest
  <1>4. CASE UNCHANGED <<channels, flush>>
    BY <1>0, <1>1, <1>4 DEF OrderInv
  <1>5. CASE /\ Offered(id, u)
             /\ flush'.left = rest /\ flush'.snapshot = flush.snapshot \ {id}
             /\ flush'.stage # "snapshot" /\ flush'.to \in {"none", id}
             /\ \/ flush'.batch = flush.batch
                \/ flush'.batch = <<>> /\ flush'.snapshot = {}
    <2>1. BufferOrder(flush', currentBuffer', published')
      BY <1>0, <1>1, <1>2, <1>3, <1>5, NoUnits DEF BufferOrder
    <2>2. ASSUME NEW c \in ClientIds \ {id}
          PROVE  ClientInv(client'[c], channels'[c].queue,
                           Due(c, flush', currentBuffer'), published')
      <3>1. \A y \in Due(c, flush', currentBuffer') : y \in due(c)
        BY <1>1, <1>5, NoUnits, ClientAssumption DEF Due
      <3> QED BY <1>0, <1>1, <3>1, DueChanges
    <2> DEFINE left == Due(id, flush', currentBuffer')
    <2>3. \A y \in left : y \in due(id) /\ u < y
      <3>1. left \subseteq Elems(currentBuffer) \cup Elems(rest)
        BY <1>1, <1>5 DEF Due
      <3>2. Elems(currentBuffer) \subseteq due(id)
        BY DEF Due
      <3> QED BY <1>2, <1>3, <3>1, <3>2
    <2>4. u \in due(id) /\ u \in 1..published
      BY <1>2, <1>3
    <2> HIDE DEF left, due
    <2>5. ClientInv(client[id], channels'[id].queue, left, published)
      <3>1. CASE channels'[id].queue = Append(channels[id].queue, u)
        BY <1>0, <2>3, <2>4, <3>1, OfferOrder
      <3>2. CASE channels'[id].queue = channels[id].queue
        BY <1>0, <2>3, <3>2, DueChanges
      <3> QED BY <1>5, <3>1, <3>2 DEF Offered
    <2> QED BY <1>1, <2>1, <2>2, <2>5 DEF OrderInv, left
  <1> QED BY <1>1, <1>4, <1>5

\* A unit is published: it comes after everything that was.
LEMMA PublishOrder ==
  ASSUME OrderInv, Publish
  PROVE  /\ BufferOrder(flush', currentBuffer', published')
         /\ \A c \in ClientIds : \A y \in Due(c, flush', currentBuffer') :
               y \in Due(c, flush, currentBuffer) \/ y = published + 1
         /\ published' = published + 1 /\ channels' = channels
  <1> DEFINE n == published + 1
  <1>0. /\ ShapeInv /\ BufferOrder(flush, currentBuffer, published)
        /\ currentBuffer \in Seq(Nat) /\ published \in Nat
    BY FlushParts DEF OrderInv, ShapeInv
  <1>1. /\ published' = n /\ n \in Nat /\ currentBuffer' = Append(currentBuffer, n)
        /\ channels' = channels
        /\ \/ flush' = flush
           \/ flush' = FlushStage("swap", FALSE)
    BY <1>0, PublishStep
  <1>2. /\ \A x \in Elems(currentBuffer) \cup Elems(flush.batch) \cup Elems(flush.left) :
              x \in 1..n /\ x < n
        /\ n \in 1..n
    BY <1>0 DEF BufferOrder
  <1> HIDE DEF n
  <1>3. /\ Elems(currentBuffer') = Elems(currentBuffer) \cup {n}
        /\ Increasing(currentBuffer')
    BY <1>0, <1>1, <1>2, OneMore DEF BufferOrder
  <1>4. CASE flush' = flush
    BY <1>0, <1>1, <1>2, <1>3, <1>4 DEF BufferOrder, Due, n
  <1>5. CASE flush' = FlushStage("swap", FALSE)
    <2>1. flush'.batch = <<>> /\ flush'.left = <<>>
      BY <1>5, FlushStageType
    <2> QED BY <1>0, <1>1, <1>2, <1>3, <2>1, NoUnits DEF BufferOrder, Due, n
  <1> QED BY <1>1, <1>4, <1>5

\* A client connects: nothing is in its channel.
LEMMA ConnectOrder ==
  ASSUME NEW k, NEW m, NEW q, NEW due, NEW n, ClientInv(k, q, due, n),
         m.hand = k.hand, m.newest = k.newest, m.sse = k.sse, m.sender = "wait"
  PROVE  ClientInv(m, <<>>, due, n)
  <1>1. Held(m, <<>>) \subseteq Held(k, q)
    BY NoUnits DEF Held
  <1>2. ClientOrder(m, <<>>)
    BY NoUnits DEF ClientInv, ClientOrder
  <1> QED BY <1>1, <1>2 DEF ClientInv

\* Every step keeps the order.
LEMMA NextOrder == OrderInv /\ [Next]_vars => OrderInv'
  <1> SUFFICES ASSUME OrderInv, [Next]_vars PROVE OrderInv'
    OBVIOUS
  <1>0. ShapeInv /\ ShapeInv' /\ TypeOK /\ TypeOK' /\ published \in Nat
        /\ BufferOrder(flush, currentBuffer, published)
    BY NextShape DEF OrderInv, ShapeInv, TypeOK, BufferTypeOK
  <1>1. CASE IdleEffect
    <2>1. UNCHANGED <<currentBuffer, channels, flush, published>>
          /\ \A c \in ClientIds : Untouched(client[c], client'[c])
      BY <1>1 DEF IdleEffect
    <2> QED BY <1>0, <2>1, BufferStepOrder
  <1>2. CASE UNCHANGED vars \/ Idle
    <2>1. IdleEffect
      BY <1>0, <1>2, IdleStep, NoClientIdle DEF vars, bufferVars
    <2> QED BY <1>1, <2>1
  <1>3. ASSUME client' = client PROVE \A c \in ClientIds : Untouched(client[c], client'[c])
    BY <1>3 DEF Untouched
  <1>4. CASE Forward
    <2>1. client' = client /\ Publish
      BY <1>4 DEF Forward
    <2> QED BY <1>0, <1>3, <2>1, PublishOrder, BufferStepOrder
  <1>5. CASE BufferLoop
    <2>1. client' = client
      BY <1>5 DEF BufferLoop
    <2>2. CASE FlushTick \/ FlushFinal \/ FlushSwap \/ FlushSnapshot
      BY <1>0, <1>3, <2>1, <2>2, FlushOrder, BufferStepOrder
    <2>3. ASSUME NEW id \in ClientIds, FlushSend(id) PROVE OrderInv'
      BY <1>0, <2>1, <2>3, SendOrder
    <2> QED BY <1>5, <2>2, <2>3 DEF BufferLoop, FlushStep
  <1>6. ASSUME ShutdownChannels \/ \E c \in ClientIds : RemoveUnsubscribe(c)
        PROVE  OrderInv'
    <2>1. SameQueues /\ UNCHANGED <<currentBuffer, flush, published, client>>
      BY <1>0, <1>6, CloseAllStep, UnsubscribeStep DEF ShutdownChannels, RemoveUnsubscribe
    <2> QED BY <1>0, <1>3, <2>1, BufferStepOrder DEF SameQueues
  <1>7. ASSUME NEW c \in ClientIds,
               \/ \E b \in BOOLEAN, x \in Asked : Connect(c, b, x)
               \/ TakeForWebSocket(c) \/ TakeForSse(c)
               \/ WriteUnit(c) \/ WriteFails(c) \/ SseWrite(c)
        PROVE  OrderInv'
    <2> DEFINE k == client[c]
               m == client'[c]
               q == channels[c].queue
               due == Due(c, flush, currentBuffer)
    <2>1. /\ k \in Client /\ m \in Client /\ q \in Seq(Nat) /\ due \in SUBSET Nat
          /\ ClientInv(k, q, due, published)
      BY <1>0, ClientParts, DueType DEF OrderInv, TypeOK
    <2>2. ASSUME NEW b \in BOOLEAN, NEW x \in Asked, Connect(c, b, x) PROVE OrderInv'
      <3>1. /\ m.hand = k.hand /\ m.sse = k.sse /\ m.newest = k.newest /\ m.sender = "wait"
            /\ Subscribe(c) /\ \A d \in ClientIds \ {c} : client'[d] = client[d]
        BY <1>0, <2>2, ConnectStep
      <3>2. /\ channels'[c].queue = <<>>
            /\ \A d \in ClientIds \ {c} : channels'[d] = channels[d]
            /\ UNCHANGED <<currentBuffer, flush, published>>
        BY <1>0, <3>1, SubscribeStep
      <3>3. ClientInv(m, <<>>, due, published)
        BY <2>1, <3>1, ConnectOrder
      <3> QED BY <1>0, <3>1, <3>2, <3>3, OneClientOrder
    <2>3. CASE TakeForWebSocket(c) \/ TakeForSse(c)
      <3>1. /\ m.newest = k.newest /\ k.hand = 0 /\ Take(c)
            /\ \/ m.sse = k.sse /\ k.sse = <<>> /\ m.hand = Head(q)
               \/ m.sse = k.sse /\ m.hand = 0 /\ m.sender = "wait"
               \/ m.sse = Append(k.sse, Head(q)) /\ m.hand = 0 /\ m.sender = "wait"
            /\ \A d \in ClientIds \ {c} : client'[d] = client[d]
        <4>1. CASE TakeForWebSocket(c)
          BY <1>0, <4>1, TakeForWebSocketStep
        <4>2. CASE TakeForSse(c)
          BY <1>0, <4>2, TakeForSseStep
        <4> QED BY <2>3, <4>1, <4>2
      <3>2. /\ q # <<>> /\ channels'[c].queue = Tail(q)
            /\ \A d \in ClientIds \ {c} : channels'[d] = channels[d]
            /\ UNCHANGED <<currentBuffer, flush, published>>
        BY <1>0, <3>1, TakeStep
      <3> HIDE DEF k, m, q, due
      <3>3. ClientInv(m, Tail(q), due, published)
        BY <1>0, <2>1, <3>1, <3>2, TakeOrder
      <3> QED BY <1>0, <3>1, <3>2, <3>3, OneClientOrder DEF k, m, q, due
    <2>4. CASE WriteUnit(c) \/ WriteFails(c) \/ SseWrite(c)
      <3>1. /\ m.hand = 0 /\ m.sender # "write"
            /\ \/ m.newest = k.newest /\ m.sse = k.sse
               \/ m.newest = k.hand /\ m.sse = k.sse /\ k.sse = <<>>
               \/ k.sse # <<>> /\ m.newest = Head(k.sse) /\ m.sse = Tail(k.sse)
            /\ \A d \in ClientIds \ {c} : client'[d] = client[d]
            /\ UNCHANGED <<currentBuffer, flush, published>>
            /\ \A d \in ClientIds : channels'[d].queue = channels[d].queue
        <4>1. CASE WriteUnit(c)
          BY <1>0, <4>1, WriteUnitStep DEF bufferVars
        <4>2. CASE WriteFails(c)
          BY <1>0, <4>2, WriteFailsStep DEF SameQueues
        <4>3. CASE SseWrite(c)
          <5>1. k.sse # <<>> /\ m.hand = 0 /\ m.sender = k.sender
                /\ m.newest = Head(k.sse) /\ m.sse = Tail(k.sse)
                /\ UNCHANGED bufferVars
                /\ \A d \in ClientIds \ {c} : client'[d] = client[d]
            BY <1>0, <4>3, SseWriteStep
          <5>2. k.sender # "write"
            BY <1>0, <5>1 DEF ShapeInv, ClientShape
          <5> QED BY <5>1, <5>2 DEF bufferVars
        <4> QED BY <2>4, <4>1, <4>2, <4>3
      <3>2. channels'[c].queue = q
        BY <3>1
      <3> HIDE DEF k, m, q, due
      <3>3. ClientInv(m, q, due, published)
        BY <1>0, <2>1, <3>1, WriteOrder
      <3> QED BY <1>0, <3>1, <3>2, <3>3, OneClientOrder DEF k, m, q, due
    <2> QED BY <1>7, <2>2, <2>3, <2>4
  <1> QED BY <1>2, <1>4, <1>5, <1>6, <1>7, Kinds

\* Two runs of units after each other.
LEMMA OneAfterOther ==
  ASSUME NEW s \in Seq(Nat), NEW t \in Seq(Nat), Increasing(s), Increasing(t),
         \A x \in Elems(s), y \in Elems(t) : x < y
  PROVE  /\ s \o t \in Seq(Nat) /\ Increasing(s \o t)
         /\ Elems(s \o t) = Elems(s) \cup Elems(t)
  <1> DEFINE r == s \o t
  <1>1. /\ Len(s) \in Nat /\ Len(t) \in Nat /\ DOMAIN s = 1..Len(s) /\ DOMAIN t = 1..Len(t)
        /\ r \in Seq(Nat) /\ DOMAIN r = 1..(Len(s) + Len(t))
        /\ \A i \in 1..(Len(s) + Len(t)) : r[i] = IF i <= Len(s) THEN s[i] ELSE t[i - Len(s)]
    BY ConcatProperties
  <1> HIDE DEF r
  <1> DEFINE a == Len(s)
             b == Len(t)
  <1>2. /\ \A i \in 1..a : i \in 1..(a + b) /\ r[i] = s[i]
        /\ \A i \in 1..b : a + i \in 1..(a + b) /\ r[a + i] = t[i]
        /\ \A i \in 1..(a + b) : i \in 1..a \/ \E j \in 1..b : i = a + j
    <2>1. \A i \in 1..a : i \in 1..(a + b) /\ i <= a
      BY <1>1
    <2>2. \A i \in 1..b : a + i \in 1..(a + b) /\ ~(a + i <= a) /\ (a + i) - a = i
      BY <1>1
    <2>3. ASSUME NEW i \in 1..(a + b), i \notin 1..a PROVE \E j \in 1..b : i = a + j
      <3>1. i - a \in 1..b /\ i = a + (i - a)
        BY <1>1, <2>3
      <3> QED BY <3>1
    <2> QED BY <1>1, <2>1, <2>2, <2>3
  <1>3. a \in Nat /\ b \in Nat /\ DOMAIN s = 1..a /\ DOMAIN t = 1..b /\ DOMAIN r = 1..(a + b)
    BY <1>1
  <1> HIDE DEF a, b
  <1>4. Elems(r) = Elems(s) \cup Elems(t)
    <2>1. \A i \in 1..a : r[i] \in Elems(s) /\ s[i] \in Elems(r)
      BY <1>2, <1>3 DEF Elems
    <2>2. \A i \in 1..b : r[a + i] \in Elems(t) /\ t[i] \in Elems(r)
      BY <1>2, <1>3 DEF Elems
    <2>3. \A i \in 1..(a + b) : r[i] \in Elems(s) \cup Elems(t)
      BY <1>2, <2>1, <2>2
    <2>4. Elems(s) \cup Elems(t) \subseteq Elems(r)
      <3>1. Elems(s) = {s[i] : i \in 1..a} /\ Elems(t) = {t[i] : i \in 1..b}
        BY <1>3 DEF Elems
      <3> QED BY <2>1, <2>2, <3>1
    <2>5. Elems(r) \subseteq Elems(s) \cup Elems(t)
      <3>1. Elems(r) = {r[i] : i \in 1..(a + b)}
        BY <1>3 DEF Elems
      <3> QED BY <2>3, <3>1
    <2> QED BY <2>4, <2>5
  <1>5. ASSUME NEW i \in 1..(a + b), NEW j \in 1..(a + b), i < j PROVE r[i] < r[j]
    <2>1. CASE i \in 1..a /\ j \in 1..a
      BY <1>2, <1>3, <1>5, <2>1 DEF Increasing
    <2>2. CASE i \in 1..a /\ j \notin 1..a
      <3>1. PICK y \in 1..b : j = a + y
        BY <1>2, <2>2
      <3>2. r[i] = s[i] /\ r[j] = t[y]
        BY <1>2, <2>2, <3>1
      <3>3. s[i] \in Elems(s) /\ t[y] \in Elems(t)
        BY <1>3, <2>2 DEF Elems
      <3> QED BY <3>2, <3>3
    <2>3. CASE i \notin 1..a
      <3>1. PICK x \in 1..b : i = a + x
        BY <1>2, <2>3
      <3>2. PICK y \in 1..b : j = a + y
        <4>1. j \notin 1..a
          BY <1>3, <1>5, <2>3
        <4> QED BY <1>2, <4>1
      <3>3. x < y
        BY <1>3, <1>5, <3>1, <3>2
      <3> QED BY <1>2, <1>3, <3>1, <3>2, <3>3 DEF Increasing
    <2> QED BY <2>1, <2>2, <2>3
  <1> QED BY <1>1, <1>3, <1>4, <1>5 DEF Increasing, r

\* A single unit.
LEMMA OneUnit ==
  ASSUME NEW x \in Nat
  PROVE  <<x>> \in Seq(Nat) /\ Increasing(<<x>>) /\ Elems(<<x>>) = {x}
  BY DEF Increasing, Elems

\* For every traffic and every number of clients: what a client was sent last, what
\* its goroutines hold and what waits in its channels is in the order of
\* publication, and nothing comes twice.
THEOREM ClientsAreSentInOrder == Spec => []DeliveredInOrder
  <1>1. Init => OrderInv
    <2> SUFFICES ASSUME Init PROVE OrderInv
      OBVIOUS
    <2>1. /\ flush.batch = <<>> /\ flush.left = <<>> /\ currentBuffer = <<>>
          /\ flush.snapshot = {} /\ published = 0
      BY DEF Init, BufferInit, FlushStage
    <2>2. \A c \in ClientIds : /\ client[c].newest = 0 /\ client[c].hand = 0
                               /\ client[c].sse = <<>> /\ client[c].sender = "wait"
                               /\ channels[c].queue = <<>>
      BY DEF Init, BufferInit, NewClient, NoChannel
    <2>3. BufferOrder(flush, currentBuffer, published)
      BY <2>1, NoUnits DEF BufferOrder
    <2>4. ASSUME NEW c \in ClientIds
          PROVE  ClientInv(client[c], channels[c].queue, Due(c, flush, currentBuffer),
                           published)
      <3>1. Held(client[c], channels[c].queue) = {0}
        BY <2>2, NoUnits DEF Held
      <3>2. Due(c, flush, currentBuffer) = {}
        BY <2>1, NoUnits DEF Due
      <3>3. ClientOrder(client[c], channels[c].queue)
        BY <2>2, NoUnits DEF ClientOrder
      <3> QED BY <2>1, <3>1, <3>2, <3>3 DEF ClientInv
    <2> QED BY <2>3, <2>4, InitShape DEF OrderInv
  <1>2. OrderInv => DeliveredInOrder
    <2> SUFFICES ASSUME OrderInv, NEW c \in ClientIds
                 PROVE  LET k == client[c]
                            hand == IF k.hand = 0 THEN <<>> ELSE <<k.hand>>
                        IN  Increasing(<<k.newest>> \o hand \o k.sse \o channels[c].queue)
      BY DEF DeliveredInOrder, Increasing
    <2> DEFINE k == client[c]
               q == channels[c].queue
               hand == IF k.hand = 0 THEN <<>> ELSE <<k.hand>>
    <2>1. /\ k.newest \in Nat /\ k.hand \in Nat /\ k.sse \in Seq(Nat) /\ q \in Seq(Nat)
          /\ ClientOrder(k, q) /\ ClientShape(k)
      BY ClientParts DEF OrderInv, ShapeInv, ClientInv
    <2>2. /\ k.hand # 0 => k.newest < k.hand /\ k.sse = <<>>
          /\ Increasing(k.sse) /\ Increasing(q) /\ \A x \in Elems(k.sse) : k.newest < x
          /\ \A y \in Elems(q) : k.newest < y /\ k.hand < y /\ \A x \in Elems(k.sse) : x < y
      BY <2>1 DEF ClientOrder, ClientShape
    <2> HIDE DEF k, q
    <2>3. /\ hand \in Seq(Nat) /\ Increasing(hand)
          /\ Elems(hand) = IF k.hand = 0 THEN {} ELSE {k.hand}
      BY <2>1, NoUnits, OneUnit
    <2>4. <<k.newest>> \in Seq(Nat) /\ Increasing(<<k.newest>>)
          /\ Elems(<<k.newest>>) = {k.newest}
      BY <2>1, OneUnit
    <2> DEFINE first == <<k.newest>>
    <2> HIDE DEF hand, first
    <2>5. /\ first \o hand \in Seq(Nat) /\ Increasing(first \o hand)
          /\ Elems(first \o hand) = {k.newest} \cup Elems(hand)
      BY <2>2, <2>3, <2>4, OneAfterOther DEF first
    <2>6. /\ \A x \in Elems(first \o hand), y \in Elems(k.sse) : x < y
          /\ \A x \in Elems(first \o hand) \cup Elems(k.sse), y \in Elems(q) : x < y
      BY <2>2, <2>3, <2>5, NoUnits
    <2>7. /\ first \o hand \o k.sse \in Seq(Nat) /\ Increasing(first \o hand \o k.sse)
          /\ Elems(first \o hand \o k.sse) = Elems(first \o hand) \cup Elems(k.sse)
      BY <2>1, <2>2, <2>5, <2>6, OneAfterOther
    <2>8. Increasing(first \o hand \o k.sse \o q)
      BY <2>1, <2>2, <2>6, <2>7, OneAfterOther
    <2> QED BY <2>8 DEF first, hand, k, q
  <1> QED BY <1>1, <1>2, NextOrder, PTL DEF Spec

----------------------------------------------------------------------------
\* No unit is lost on the way

\* What a client k has been given, or was denied for a stated reason, when its
\* channel is ch.
Reasons(k, ch) == Elems(ch.queue) \cup ch.dropped \cup {k.hand} \cup Elems(k.sse) \cup k.done

\* Every unit published since the client joined is due to it or has its reason.
Complete(joined, n, due, reasons) == \A x \in (joined + 1)..n : x \in due \cup reasons

LossInv ==
    /\ ShapeInv
    /\ \A c \in subscribers :
          channels[c].open =>
             Complete(channels[c].joined, published, Due(c, flush, currentBuffer),
                      Reasons(client[c], channels[c]))

\* No unit leaves what is due and what has its reason.
Keeps(due, reasons, due2, reasons2) ==
    \A x \in Nat \ {0} : x \in due \cup reasons => x \in due2 \cup reasons2

\* A step that keeps every unit of every client that stays subscribed.
LEMMA LossSame ==
  ASSUME LossInv, ShapeInv', published' = published, subscribers' \subseteq subscribers,
         \A c \in subscribers' : channels'[c].open =>
            /\ channels[c].open /\ channels'[c].joined = channels[c].joined
            /\ Keeps(Due(c, flush, currentBuffer), Reasons(client[c], channels[c]),
                     Due(c, flush', currentBuffer'), Reasons(client'[c], channels'[c]))
  PROVE  LossInv'
  <1>1. ASSUME NEW c \in subscribers', channels'[c].open
        PROVE  Complete(channels'[c].joined, published', Due(c, flush', currentBuffer'),
                        Reasons(client'[c], channels'[c]))
    <2> DEFINE j == channels[c].joined
               d == Due(c, flush, currentBuffer)
               r == Reasons(client[c], channels[c])
               d2 == Due(c, flush', currentBuffer')
               r2 == Reasons(client'[c], channels'[c])
    <2>1. /\ c \in ClientIds /\ j \in Nat /\ published \in Nat
          /\ Complete(j, published, d, r) /\ Keeps(d, r, d2, r2)
          /\ channels'[c].joined = j
      BY <1>1, ClientParts DEF LossInv, ShapeInv, TypeOK, BufferTypeOK
    <2> HIDE DEF j, d, r, d2, r2
    <2>2. \A x \in (j + 1)..published : x \in Nat \ {0}
      BY <2>1
    <2>3. Complete(j, published, d2, r2)
      BY <2>1, <2>2 DEF Complete, Keeps
    <2> QED BY <2>1, <2>3 DEF d2, r2
  <1> QED BY <1>1 DEF LossInv

\* A step of the buffer alone that keeps what is due to every subscriber.
LEMMA LossDue ==
  ASSUME LossInv, ShapeInv', UNCHANGED <<published, subscribers, channels, client>>,
         \A c \in subscribers :
            Due(c, flush, currentBuffer) \subseteq Due(c, flush', currentBuffer')
  PROVE  LossInv'
  <1>1. \A c \in subscribers :
           Keeps(Due(c, flush, currentBuffer), Reasons(client[c], channels[c]),
                 Due(c, flush', currentBuffer'), Reasons(client'[c], channels'[c]))
    BY DEF Keeps
  <1> QED BY <1>1, LossSame

\* A step of one client that leaves buffer and flush alone.
LEMMA LossClient ==
  ASSUME LossInv, ShapeInv', NEW c \in ClientIds,
         UNCHANGED <<published, subscribers, currentBuffer, flush>>,
         \A d \in ClientIds \ {c} : client'[d] = client[d] /\ channels'[d] = channels[d],
         channels'[c].open =>
            /\ channels[c].open /\ channels'[c].joined = channels[c].joined
            /\ \A x \in Nat \ {0} : x \in Reasons(client[c], channels[c])
                                    => x \in Reasons(client'[c], channels'[c])
  PROVE  LossInv'
  <1>1. subscribers \subseteq ClientIds
    BY DEF LossInv, ShapeInv, TypeOK, BufferTypeOK
  <1>2. ASSUME NEW d \in subscribers', channels'[d].open
        PROVE  /\ channels[d].open /\ channels'[d].joined = channels[d].joined
               /\ Keeps(Due(d, flush, currentBuffer), Reasons(client[d], channels[d]),
                        Due(d, flush', currentBuffer'), Reasons(client'[d], channels'[d]))
    <2>1. CASE d = c
      BY <1>2, <2>1 DEF Keeps
    <2>2. CASE d # c
      BY <1>1, <1>2, <2>2 DEF Keeps
    <2> QED BY <2>1, <2>2
  <1> QED BY <1>2, LossSame

\* A unit is published: it is due to every subscriber.
LEMMA PublishLoss ==
  ASSUME LossInv, ShapeInv', Publish, client' = client
  PROVE  LossInv'
  <1>0. ShapeInv /\ currentBuffer \in Seq(Nat) /\ published \in Nat
        /\ subscribers \subseteq ClientIds /\ FlushShape(flush)
    BY FlushParts DEF LossInv, ShapeInv, TypeOK, BufferTypeOK
  <1>1. /\ published' = published + 1
        /\ currentBuffer' = Append(currentBuffer, published + 1)
        /\ \/ flush' = flush
           \/ flush.stage = "wait" /\ flush' = FlushStage("swap", FALSE)
        /\ UNCHANGED <<subscribers, channels>>
    BY <1>0, PublishStep
  <1>2. Elems(currentBuffer') = Elems(currentBuffer) \cup {published + 1}
    BY <1>0, <1>1, OneMore
  <1>3. ASSUME NEW c \in subscribers, channels'[c].open
        PROVE  Complete(channels'[c].joined, published', Due(c, flush', currentBuffer'),
                        Reasons(client'[c], channels'[c]))
    <2> DEFINE j == channels[c].joined
               d == Due(c, flush, currentBuffer)
               d2 == Due(c, flush', currentBuffer')
               r == Reasons(client[c], channels[c])
    <2>1. j \in Nat /\ Complete(j, published, d, r)
      BY <1>0, <1>1, <1>3, ClientParts DEF LossInv, ShapeInv
    <2>2. d \subseteq d2 /\ published + 1 \in d2
      <3>1. CASE flush' = flush
        BY <1>2, <3>1 DEF Due
      <3>2. CASE flush.stage = "wait" /\ flush' = FlushStage("swap", FALSE)
        <4>1. flush.batch = <<>> /\ flush.left = <<>>
          BY <1>0, <3>2 DEF FlushShape
        <4>2. d = Elems(currentBuffer)
          BY <4>1, NoUnits DEF Due
        <4>3. Elems(currentBuffer') \subseteq d2
          BY DEF Due
        <4> QED BY <1>2, <4>2, <4>3
      <3> QED BY <1>1, <3>1, <3>2
    <2> HIDE DEF j, d, d2, r
    <2>3. \A x \in (j + 1)..(published + 1) : x \in (j + 1)..published \/ x = published + 1
      BY <1>0, <2>1
    <2>4. Complete(j, published + 1, d2, r)
      BY <2>1, <2>2, <2>3 DEF Complete
    <2> QED BY <1>1, <2>4 DEF j, d2, r
  <1> QED BY <1>1, <1>3 DEF LossInv

\* One send: the unit is in the channel, or a full channel has refused it.
LEMMA SendLoss ==
  ASSUME LossInv, ShapeInv', NEW id \in ClientIds, FlushSend(id), client' = client
  PROVE  LossInv'
  <1> DEFINE units == SendUnits(id)
             u == Head(units)
             rest == Tail(units)
  <1>0. ShapeInv /\ FlushShape(flush) /\ subscribers \subseteq ClientIds
    BY DEF LossInv, ShapeInv, TypeOK, BufferTypeOK
  <1>1. /\ units \in Seq(Nat) /\ units # <<>> /\ flush.stage = "send"
        /\ (flush.to = "none" /\ id \in flush.snapshot) \/ flush.to = id
        /\ UNCHANGED <<currentBuffer, subscribers, published>>
        /\ \A c \in ClientIds \ {id} : channels'[c] = channels[c]
        /\ channels'[id].open = channels[id].open
        /\ channels'[id].joined = channels[id].joined
        /\ \/ UNCHANGED <<channels, flush>>
           \/ /\ Offered(id, u)
              /\ flush'.left = rest /\ flush'.snapshot = flush.snapshot \ {id}
              /\ flush'.to = IF rest = <<>> THEN "none" ELSE id
              /\ \/ flush'.batch = flush.batch
                 \/ flush'.batch = <<>> /\ flush'.snapshot = {}
    BY <1>0, FlushSendStep
  <1>2. Elems(units) = {u} \cup Elems(rest) /\ u \in Nat
    BY <1>1, FirstAndRest
  <1>3. Due(id, flush, currentBuffer) = Elems(currentBuffer) \cup Elems(units)
    BY <1>0, <1>1, ClientAssumption DEF Due, SendUnits, FlushShape
  <1> HIDE DEF units, u, rest
  <1>4. CASE UNCHANGED <<channels, flush>>
    BY <1>1, <1>4, LossDue
  <1>5. CASE /\ Offered(id, u)
             /\ flush'.left = rest /\ flush'.snapshot = flush.snapshot \ {id}
             /\ flush'.to = IF rest = <<>> THEN "none" ELSE id
             /\ \/ flush'.batch = flush.batch
                \/ flush'.batch = <<>> /\ flush'.snapshot = {}
    <2>1. ASSUME NEW c \in ClientIds \ {id}
          PROVE  Due(c, flush, currentBuffer) \subseteq Due(c, flush', currentBuffer')
      BY <1>1, <1>5, ClientAssumption DEF Due
    <2>2. Elems(currentBuffer) \cup Elems(rest) \subseteq Due(id, flush', currentBuffer')
      BY <1>1, <1>5, NoUnits DEF Due
    <2>3. Reasons(client[id], channels[id]) \cup {u} \subseteq Reasons(client'[id], channels'[id])
      <3>1. channels[id].queue \in Seq(Nat)
        BY <1>0, ClientParts DEF ShapeInv
      <3>2. Elems(Append(channels[id].queue, u)) = Elems(channels[id].queue) \cup {u}
        BY <1>2, <3>1, OneMore
      <3> QED BY <1>5, <3>2 DEF Offered, Reasons
    <2>4. ASSUME NEW c \in subscribers
          PROVE  Keeps(Due(c, flush, currentBuffer), Reasons(client[c], channels[c]),
                       Due(c, flush', currentBuffer'), Reasons(client'[c], channels'[c]))
      <3>1. CASE c = id
        BY <1>2, <1>3, <2>2, <2>3, <3>1 DEF Keeps
      <3>2. CASE c # id
        BY <1>0, <1>1, <2>1, <3>2 DEF Keeps
      <3> QED BY <3>1, <3>2
    <2> QED BY <1>0, <1>1, <2>4, LossSame
  <1> QED BY <1>1, <1>4, <1>5

\* The rest of the flush loop.
LEMMA FlushLoss ==
  ASSUME LossInv, ShapeInv', FlushTick \/ FlushFinal \/ FlushSwap \/ FlushSnapshot,
         client' = client
  PROVE  LossInv'
  <1>0. ShapeInv /\ FlushShape(flush)
    BY DEF LossInv, ShapeInv
  <1>1. CASE FlushTick \/ FlushFinal
    <2>1. /\ flush.stage = "wait"
          /\ UNCHANGED <<currentBuffer, subscribers, channels, published>>
      BY <1>0, <1>1, FlushWakes
    <2>2. flush.batch = <<>> /\ flush.left = <<>>
      BY <1>0, <2>1 DEF FlushShape
    <2>3. \A c \in subscribers :
             Due(c, flush, currentBuffer) \subseteq Due(c, flush', currentBuffer')
      BY <2>1, <2>2, NoUnits DEF Due
    <2> QED BY <2>1, <2>3, LossDue
  <1>2. CASE FlushSwap
    <2>1. /\ flush.stage = "swap" /\ flush'.batch = currentBuffer
          /\ flush'.stage = "snapshot" \/ flush'.batch = <<>>
          /\ UNCHANGED <<subscribers, channels, published>>
      BY <1>0, <1>2, FlushSwapStep
    <2>2. flush.batch = <<>> /\ flush.left = <<>>
      BY <1>0, <2>1 DEF FlushShape
    <2>3. \A c \in subscribers :
             Due(c, flush, currentBuffer) \subseteq Due(c, flush', currentBuffer')
      BY <2>1, <2>2, NoUnits DEF Due
    <2> QED BY <2>1, <2>3, LossDue
  <1>3. CASE FlushSnapshot
    <2>1. /\ flush.stage = "snapshot" /\ flush'.snapshot = subscribers
          /\ subscribers # {} => flush'.batch = flush.batch
          /\ UNCHANGED <<currentBuffer, subscribers, channels, published>>
      BY <1>0, <1>3, FlushSnapshotStep
    <2>2. flush.left = <<>>
      BY <1>0, <2>1 DEF FlushShape
    <2>3. \A c \in subscribers :
             Due(c, flush, currentBuffer) \subseteq Due(c, flush', currentBuffer')
      BY <2>1, <2>2, NoUnits DEF Due
    <2> QED BY <2>1, <2>3, LossDue
  <1> QED BY <1>1, <1>2, <1>3

\* Every step keeps what is due and what has its reason.
LEMMA NextLoss == LossInv /\ [Next]_vars => LossInv'
  <1> SUFFICES ASSUME LossInv, [Next]_vars PROVE LossInv'
    OBVIOUS
  <1>0. ShapeInv /\ ShapeInv' /\ TypeOK /\ subscribers \subseteq ClientIds
    BY NextShape DEF LossInv, ShapeInv, TypeOK, BufferTypeOK
  <1>1. CASE UNCHANGED vars \/ Idle
    <2>1. IdleEffect
      BY <1>0, <1>1, IdleStep, NoClientIdle DEF vars, bufferVars
    <2>2. UNCHANGED <<currentBuffer, subscribers, channels, flush, published>>
          /\ \A c \in ClientIds : Untouched(client[c], client'[c])
      BY <2>1 DEF IdleEffect
    <2>3. \A c \in subscribers :
             Keeps(Due(c, flush, currentBuffer), Reasons(client[c], channels[c]),
                   Due(c, flush', currentBuffer'), Reasons(client'[c], channels'[c]))
      BY <1>0, <2>2 DEF Keeps, Reasons, Untouched
    <2> QED BY <1>0, <2>2, <2>3, LossSame
  <1>2. CASE Forward
    BY <1>0, <1>2, PublishLoss DEF Forward
  <1>3. CASE BufferLoop
    BY <1>0, <1>3, FlushLoss, SendLoss DEF BufferLoop, FlushStep
  <1>4. CASE ShutdownChannels
    <2>1. subscribers' = {} /\ published' = published
      BY <1>0, <1>4, CloseAllStep DEF ShutdownChannels
    <2> QED BY <1>0, <2>1, LossSame
  <1>5. ASSUME NEW c \in ClientIds, RemoveUnsubscribe(c) PROVE LossInv'
    <2>1. /\ subscribers' = subscribers \ {c}
          /\ \A d \in ClientIds \ {c} : channels'[d] = channels[d]
          /\ UNCHANGED <<currentBuffer, flush, published, client>>
      BY <1>0, <1>5, UnsubscribeStep DEF RemoveUnsubscribe
    <2>2. \A d \in subscribers' : channels'[d] = channels[d]
      BY <1>0, <2>1
    <2> QED BY <1>0, <2>1, <2>2, LossSame DEF Keeps
  <1>6. ASSUME NEW c \in ClientIds, NEW b \in BOOLEAN, NEW x \in Asked, Connect(c, b, x)
        PROVE  LossInv'
    <2>1. Subscribe(c) /\ \A d \in ClientIds \ {c} : client'[d] = client[d]
      BY <1>0, <1>6, ConnectStep
    <2>2. /\ subscribers' = subscribers \cup {c} /\ channels'[c].joined = published
          /\ \A d \in ClientIds \ {c} : channels'[d] = channels[d]
          /\ UNCHANGED <<currentBuffer, flush, published>>
      BY <1>0, <2>1, SubscribeStep
    <2>3. published \in Nat
      BY <1>0 DEF TypeOK, BufferTypeOK
    <2>4. ASSUME NEW d \in subscribers', channels'[d].open
          PROVE  Complete(channels'[d].joined, published', Due(d, flush', currentBuffer'),
                          Reasons(client'[d], channels'[d]))
      <3>1. CASE d = c
        <4>1. (published + 1)..published = {}
          BY <2>3
        <4> QED BY <2>2, <3>1, <4>1 DEF Complete
      <3>2. CASE d # c
        <4>1. d \in subscribers /\ channels'[d] = channels[d] /\ client'[d] = client[d]
          BY <1>0, <2>1, <2>2, <3>2
        <4> QED BY <2>2, <2>4, <4>1 DEF LossInv
      <3> QED BY <3>1, <3>2
    <2> QED BY <1>0, <2>4 DEF LossInv
  <1>7. ASSUME NEW c \in ClientIds,
               \/ TakeForWebSocket(c) \/ TakeForSse(c)
               \/ WriteUnit(c) \/ WriteFails(c) \/ SseWrite(c)
        PROVE  LossInv'
    <2> DEFINE k == client[c]
               m == client'[c]
               q == channels[c].queue
               h == Head(q)
    <2>1. k.sse \in Seq(Nat) /\ q \in Seq(Nat)
      BY <1>0, ClientParts
    <2>2. CASE TakeForWebSocket(c) \/ TakeForSse(c)
      <3>1. /\ Take(c) /\ k.hand = 0
            /\ \/ m.sse = k.sse /\ m.hand = h /\ m.done = k.done
               \/ m.sse = k.sse /\ m.hand = 0 /\ m.done = k.done \cup {h}
               \/ m.sse = Append(k.sse, h) /\ m.hand = 0 /\ m.done = k.done
            /\ \A d \in ClientIds \ {c} : client'[d] = client[d]
        <4>1. CASE TakeForWebSocket(c)
          BY <1>0, <4>1, TakeForWebSocketStep
        <4>2. CASE TakeForSse(c)
          BY <1>0, <4>2, TakeForSseStep
        <4> QED BY <2>2, <4>1, <4>2
      <3>2. /\ q # <<>> /\ channels'[c].queue = Tail(q)
            /\ channels'[c].open = channels[c].open
            /\ channels'[c].joined = channels[c].joined
            /\ channels'[c].dropped = channels[c].dropped
            /\ \A d \in ClientIds \ {c} : channels'[d] = channels[d]
            /\ UNCHANGED <<currentBuffer, subscribers, flush, published>>
        BY <1>0, <3>1, TakeStep
      <3>3. h \in Nat /\ Elems(q) = {h} \cup Elems(Tail(q))
        BY <2>1, <3>2, FirstAndRest
      <3>4. Elems(Append(k.sse, h)) = Elems(k.sse) \cup {h}
        BY <2>1, <3>3, OneMore
      <3> HIDE DEF h
      <3>5. \A x \in Nat \ {0} : x \in Reasons(k, channels[c]) => x \in Reasons(m, channels'[c])
        BY <3>1, <3>2, <3>3, <3>4 DEF Reasons
      <3> QED BY <1>0, <3>1, <3>2, <3>5, LossClient
    <2>3. CASE WriteUnit(c) \/ SseWrite(c)
      <3>1. /\ \/ m.hand = 0 /\ m.done = k.done \cup {k.hand} /\ m.sse = k.sse
               \/ /\ k.sse # <<>> /\ m.hand = k.hand /\ m.sse = Tail(k.sse)
                  /\ m.done = k.done \cup {Head(k.sse)}
            /\ \A d \in ClientIds \ {c} : client'[d] = client[d]
            /\ UNCHANGED <<currentBuffer, subscribers, channels, flush, published>>
        <4>1. CASE WriteUnit(c)
          BY <1>0, <4>1, WriteUnitStep DEF bufferVars
        <4>2. CASE SseWrite(c)
          BY <1>0, <4>2, SseWriteStep DEF bufferVars
        <4> QED BY <2>3, <4>1, <4>2
      <3>2. k.sse # <<>> => Elems(k.sse) = {Head(k.sse)} \cup Elems(Tail(k.sse))
        BY <2>1, FirstAndRest
      <3>3. \A x \in Nat \ {0} : x \in Reasons(k, channels[c]) => x \in Reasons(m, channels'[c])
        BY <3>1, <3>2 DEF Reasons
      <3> QED BY <1>0, <3>1, <3>3, LossClient
    <2>4. CASE WriteFails(c)
      <3>1. /\ ~channels'[c].open
            /\ \A d \in ClientIds \ {c} : client'[d] = client[d] /\ channels'[d] = channels[d]
            /\ UNCHANGED <<currentBuffer, subscribers, flush, published>>
        BY <1>0, <2>4, WriteFailsStep
      <3> QED BY <1>0, <3>1, LossClient
    <2> QED BY <1>7, <2>2, <2>3, <2>4
  <1> QED BY <1>1, <1>2, <1>3, <1>4, <1>5, <1>6, <1>7, Kinds

\* For every traffic, every number of clients and every capacity: a unit published
\* while a client is subscribed waits for it, has reached it, or was refused by a
\* full channel or by the client's own contexts.
THEOREM NoUnitVanishes == Spec => []NoSilentLoss
  <1>1. Init => LossInv
    BY InitShape DEF Init, BufferInit, LossInv
  <1>2. LossInv => NoSilentLoss
    <2> SUFFICES ASSUME LossInv, NEW c \in subscribers, channels[c].open
                 PROVE  (channels[c].joined + 1)..published
                           \subseteq Pending(c) \cup Accounted(c)
      BY DEF NoSilentLoss
    <2>1. Accounted(c) = Reasons(client[c], channels[c])
      BY DEF Accounted, Reasons, Elems
    <2>2. Pending(c) = Due(c, flush, currentBuffer)
      BY PendingIsDue
    <2>3. Complete(channels[c].joined, published, Due(c, flush, currentBuffer),
                   Reasons(client[c], channels[c]))
      BY DEF LossInv
    <2> QED BY <2>1, <2>2, <2>3 DEF Complete
  <1> QED BY <1>1, <1>2, NextLoss, PTL DEF Spec

=============================================================================
