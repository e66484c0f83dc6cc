--------------------------- MODULE BroadcastBuffer ---------------------------
(***************************************************************************)
(* The notifier's broadcast buffer (internal/notifier/broadcast.go): units *)
(* are collected in currentBuffer and a goroutine of its own hands each    *)
(* batch to the channels of all subscribers, without waiting for any.      *)
(*                                                                         *)
(* flush holds no lock while it sends: it works on a copy of the map of    *)
(* channels, any of which may be closed meanwhile.  Sending on a closed    *)
(* channel, or closing it again, ends the process.                         *)
(*                                                                         *)
(* The actions speak of the buffer's own variables; Notifier composes them *)
(* with the rest of its state.  Work units are numbered as published.      *)
(***************************************************************************)
EXTENDS Integers, Sequences, FiniteSets

CONSTANTS
    ClientIds,   \* the UUIDs under which clients subscribe
    BufferSize,  \* b.bufferSize, at which Publish asks for a flush
    ChanSize     \* the capacity of a subscriber's channel

VARIABLES
    currentBuffer, \* b.currentBuffer
    subscribers,   \* the keys of b.subscribers
    channels,      \* the channel made for each ID
    flush,         \* where bufferFlushLoop is
    closed,        \* b.close is closed
    panic,         \* what ended the process: "none", a "send" or a "close"
    published      \* history: how many units were published

bufferVars == <<currentBuffer, subscribers, channels, flush, closed, panic, published>>

ASSUME BufferAssumption == {BufferSize, ChanSize} \subseteq Nat \ {0}

----------------------------------------------------------------------------
\* queue is what the channel holds.  History: joined tells how many units had
\* been published at Subscribe, dropped are the units a full channel refused.
Channel == [open : BOOLEAN, queue : Seq(Nat), joined : Nat, dropped : SUBSET Nat]

NoChannel == [open |-> FALSE, queue |-> <<>>, joined |-> 0, dropped |-> {}]

\* batch: the units swapped out; snapshot: the subscribers still to serve;
\* to, left: the one being served and what it has still to be sent.
Flush == [stage : {"wait", "swap", "snapshot", "send", "ended"}, final : BOOLEAN,
          batch : Seq(Nat), snapshot : SUBSET ClientIds,
          to : ClientIds \cup {"none"}, left : Seq(Nat)]

FlushStage(stage, final) ==
    [stage |-> stage, final |-> final, batch |-> <<>>, snapshot |-> {},
     to |-> "none", left |-> <<>>]

BufferTypeOK ==
    /\ currentBuffer \in Seq(Nat)
    /\ subscribers \subseteq ClientIds
    /\ channels \in [ClientIds -> Channel]
    /\ flush \in Flush
    /\ closed \in BOOLEAN
    /\ panic \in {"none", "send", "close"}
    /\ published \in Nat

BufferInit ==
    /\ currentBuffer = <<>>
    /\ subscribers = {}
    /\ channels = [id \in ClientIds |-> NoChannel]
    /\ flush = FlushStage("wait", FALSE)
    /\ closed = FALSE
    /\ panic = "none"
    /\ published = 0

----------------------------------------------------------------------------
\* What the notifier calls

Subscribe(id) ==
    /\ channels' = [channels EXCEPT ![id] =
                      [NoChannel EXCEPT !.open = TRUE, !.joined = published]]
    /\ subscribers' = subscribers \cup {id}
    /\ UNCHANGED <<currentBuffer, flush, closed, panic, published>>

\* close(ch): closing a closed channel is a panic.
CloseChannel(id) ==
    /\ channels' = [channels EXCEPT ![id].open = FALSE]
    /\ panic' = IF channels[id].open THEN panic ELSE "close"

\* Mutant: Unsubscribe closes the channel and forgets to remove it from the map.
UnsubscribeKeeps(id) ==
    /\ IF id \in subscribers THEN CloseChannel(id) ELSE UNCHANGED <<channels, panic>>
    /\ UNCHANGED <<currentBuffer, subscribers, flush, closed, published>>

\* Nothing happens when the ID is not, or no longer, subscribed.
Unsubscribe(id) ==
    /\ IF id \in subscribers THEN CloseChannel(id) ELSE UNCHANGED <<channels, panic>>
    /\ subscribers' = subscribers \ {id}
    /\ UNCHANGED <<currentBuffer, flush, closed, published>>

\* The request for a flush is a send on an unbuffered channel that does not wait:
\* it is heard only by a loop that stands in its select.
Publish ==
    /\ published' = published + 1
    /\ currentBuffer' = Append(currentBuffer, published + 1)
    /\ flush' = IF Len(currentBuffer) + 1 >= BufferSize /\ flush.stage = "wait"
                THEN FlushStage("swap", FALSE)
                ELSE flush
    /\ UNCHANGED <<subscribers, channels, closed, panic>>

\* Close, first part: close(b.close).
SignalClose ==
    /\ closed' = TRUE
    /\ UNCHANGED <<currentBuffer, subscribers, channels, flush, panic, published>>

\* Close, second part, under subscribersLock: every channel is closed and removed.
CloseAll ==
    /\ channels' = [id \in ClientIds |->
                      IF id \in subscribers THEN [channels[id] EXCEPT !.open = FALSE]
                      ELSE channels[id]]
    /\ panic' = IF \A id \in subscribers : channels[id].open THEN panic ELSE "close"
    /\ subscribers' = {}
    /\ UNCHANGED <<currentBuffer, flush, closed, published>>

\* A subscriber takes the first unit of its channel.
Take(id) ==
    /\ channels[id].queue # <<>>
    /\ channels' = [channels EXCEPT ![id].queue = Tail(@)]
    /\ UNCHANGED <<currentBuffer, subscribers, flush, closed, panic, published>>

\* The subscriber's own close of its channel, which leaves it in the map.
CloseOwn(id) ==
    /\ CloseChannel(id)
    /\ UNCHANGED <<currentBuffer, subscribers, flush, closed, published>>

----------------------------------------------------------------------------
\* bufferFlushLoop

\* The ticker fires, or b.close is seen: the flush after that is the last one.
FlushTick ==
    /\ flush.stage = "wait"
    /\ flush' = FlushStage("swap", FALSE)
    /\ UNCHANGED <<currentBuffer, subscribers, channels, closed, panic, published>>

FlushFinal ==
    /\ flush.stage = "wait"
    /\ closed
    /\ flush' = FlushStage("swap", TRUE)
    /\ UNCHANGED <<currentBuffer, subscribers, channels, closed, panic, published>>

\* flush has returned: the loop waits again, or ends after the final flush.
FlushDone == flush' = FlushStage(IF flush.final THEN "ended" ELSE "wait", FALSE)

\* Mutant: the batch is copied and the buffer is not reset.
FlushSwapCopies ==
    /\ flush.stage = "swap"
    /\ IF currentBuffer = <<>>
       THEN FlushDone
       ELSE flush' = [flush EXCEPT !.stage = "snapshot", !.batch = currentBuffer]
    /\ UNCHANGED <<currentBuffer, subscribers, channels, closed, panic, published>>

\* The buffers are swapped under currentBufferLock; an empty one ends the flush.
FlushSwap ==
    /\ flush.stage = "swap"
    /\ currentBuffer' = <<>>
    /\ IF currentBuffer = <<>>
       THEN FlushDone
       ELSE flush' = [flush EXCEPT !.stage = "snapshot", !.batch = currentBuffer]
    /\ UNCHANGED <<subscribers, channels, closed, panic, published>>

\* Mutant: the buffer is reset only after the lock was released.
FlushSnapshotResets ==
    /\ flush.stage = "snapshot"
    /\ currentBuffer' = <<>>
    /\ IF subscribers = {}
       THEN FlushDone
       ELSE flush' = [flush EXCEPT !.stage = "send", !.snapshot = subscribers]
    /\ UNCHANGED <<subscribers, channels, closed, panic, published>>

\* The map is copied under subscribersLock; without subscribers the batch is gone.
FlushSnapshot ==
    /\ flush.stage = "snapshot"
    /\ IF subscribers = {}
       THEN FlushDone
       ELSE flush' = [flush EXCEPT !.stage = "send", !.snapshot = subscribers]
    /\ UNCHANGED <<currentBuffer, subscribers, channels, closed, panic, published>>

\* The whole batch is done once nothing is left and nobody remains.
FlushAfter(id, units) ==
    IF Len(units) = 1 /\ flush.snapshot \ {id} = {} THEN FlushDone
    ELSE flush' = [flush EXCEPT !.snapshot = @ \ {id},
                     !.to = IF Len(units) = 1 THEN "none" ELSE id, !.left = Tail(units)]

\* One send of the inner loop.  Subscribers come in the order of a Go map.
FlushSend(id) ==
    LET units == IF flush.to = id THEN flush.left ELSE flush.batch
        unit == Head(units)
        ch == channels[id]
    IN  /\ flush.stage = "send"
        /\ IF flush.to = "none" THEN id \in flush.snapshot ELSE id = flush.to
        /\ \/ /\ ~ch.open
              /\ panic' = "send"
              /\ UNCHANGED <<channels, flush>>
           \/ /\ ch.open
              /\ channels' = [channels EXCEPT ![id] =
                   IF Len(ch.queue) < ChanSize THEN [ch EXCEPT !.queue = Append(@, unit)]
                   ELSE [ch EXCEPT !.dropped = @ \cup {unit}]]
              /\ FlushAfter(id, units)
              /\ UNCHANGED panic
        /\ UNCHANGED <<currentBuffer, subscribers, closed, published>>

FlushStep ==
    \/ FlushSwap
    \/ FlushSnapshot
    \/ \E id \in ClientIds : FlushSend(id)

----------------------------------------------------------------------------
\* The units a subscriber has still to be offered.
Pending(id) ==
    {currentBuffer[i] : i \in DOMAIN currentBuffer}
    \cup {flush.batch[i] : i \in {j \in DOMAIN flush.batch :
                                    flush.stage = "snapshot" \/ id \in flush.snapshot}}
    \cup {flush.left[i] : i \in {j \in DOMAIN flush.left : flush.to = id}}
=============================================================================
