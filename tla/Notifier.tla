------------------------------ MODULE Notifier ------------------------------
(***************************************************************************)
(* The notifier (internal/notifier/notifier.go): WebSocket and SSE clients *)
(* of the event stream.  Each client has a goroutine that takes units from *)
(* its channel of the broadcast buffer and a goroutine that serves its     *)
(* connection; the idle sweep, the heartbeats and Shutdown remove clients  *)
(* as well, so one client is removed by several parties at once.           *)
(*                                                                         *)
(* A critical section of n.mu is one action, except Shutdown, which holds  *)
(* n.mu over several.  removeClient takes the client off the map under     *)
(* n.mu and then closes its connection and its channel outside.            *)
(***************************************************************************)
EXTENDS BroadcastBuffer

CONSTANTS
    Contexts,      \* context IDs
    Star,          \* "*": every context
    Asked,         \* bound: the contexts that clients ask for when they connect
    Requests,      \* bound: the sets of contexts that they ask for later
    SseSize,       \* the capacity of sseChannel
    MaxIdleTime,   \* config.MaxIdleTime, in ticks
    Traffic,       \* bound: the contexts of the units the router forwards, in order
    MaxClock       \* bound: the last instant of a behaviour

VARIABLES
    clock,     \* time.Now()
    clients,   \* the keys of n.clients
    client,    \* the Client made for each ID, with its goroutines
    removing,  \* where the removeClient that found the client is
    idle,      \* clientIDsToRemove of performClientCleanup
    swept,     \* the client that performClientCleanup is removing
    shutdown   \* where Shutdown is

sweepVars == <<idle, swept>>
vars == <<bufferVars, clock, clients, client, removing, sweepVars, shutdown>>

ASSUME ClientAssumption == "none" \notin ClientIds
ASSUME ContextAssumption ==
    /\ Star \notin Contexts
    /\ Asked \subseteq Contexts \cup {Star}
    /\ Requests \subseteq SUBSET (Contexts \cup {Star})
    /\ Traffic \in Seq(Contexts)
ASSUME NotifierBounds == {SseSize, MaxIdleTime, MaxClock} \subseteq Nat

----------------------------------------------------------------------------
\* sender: the goroutine that reads eventsChannel; hand: the unit it is writing;
\* handler: the goroutine that serves the connection.  For WebSocket conn is the
\* connection ("closed": by the server); for SSE it only tells if the peer is there.
\* History: newest is the last unit written to the client; done are the units
\* that were written, dropped by a full sseChannel, or not of its contexts.
Client == [isSSE : BOOLEAN, stage : {"new", "subscribed", "registered"},
           contexts : SUBSET (Contexts \cup {Star}), last : Nat,
           conn : {"up", "gone", "closed"},
           sender : {"wait", "write", "failed", "ended"}, hand : Nat,
           handler : {"on", "ended"}, sse : Seq(Nat), sseOpen : BOOLEAN,
           newest : Nat, done : SUBSET Nat]

NewClient ==
    [isSSE |-> FALSE, stage |-> "new", contexts |-> {}, last |-> 0, conn |-> "up", sender |-> "wait",
     hand |-> 0, handler |-> "on", sse |-> <<>>, sseOpen |-> TRUE,
     newest |-> 0, done |-> {}]

\* Type correctness.
TypeOK ==
    /\ BufferTypeOK
    /\ clock \in Nat
    /\ clients \subseteq ClientIds
    /\ client \in [ClientIds -> Client]
    /\ removing \in [ClientIds -> {"no", "conn", "unsubscribe"}]
    /\ idle \subseteq ClientIds
    /\ swept \in ClientIds \cup {"none"}
    /\ shutdown \in {"no", "channels", "clients", "done"}

Init ==
    /\ BufferInit
    /\ clock = 0
    /\ clients = {}
    /\ client = [c \in ClientIds |-> NewClient]
    /\ removing = [c \in ClientIds |-> "no"]
    /\ idle = {}
    /\ swept = "none"
    /\ shutdown = "no"

SseClients == {c \in ClientIds : client[c].isSSE}
WebSockets == ClientIds \ SseClients

Registered(c) == client[c].stage = "registered"

\* n.mu is free.
MuFree == shutdown \in {"no", "done"}

----------------------------------------------------------------------------
\* The surroundings and Start

Tick ==
    /\ clock < MaxClock
    /\ clock' = clock + 1
    /\ UNCHANGED <<bufferVars, clients, client, removing,
                   sweepVars, shutdown>>

\* The peer goes away.
Leave(c) ==
    /\ client[c].stage # "new"
    /\ client[c].conn = "up"
    /\ client' = [client EXCEPT ![c].conn = "gone"]
    /\ UNCHANGED <<bufferVars, clock, clients, removing, sweepVars, shutdown>>

\* Start forwards a unit of its subscription to the buffer.  It stops for good
\* when the router closes the subscription or the engine's context ends, which
\* no other goroutine can tell from a subscription that stays quiet.
Forward ==
    /\ published < Len(Traffic)
    /\ Publish
    /\ UNCHANGED <<clock, clients, client, removing, sweepVars, shutdown>>

BufferLoop ==
    /\ FlushTick \/ FlushFinal \/ FlushStep
    /\ UNCHANGED <<clock, clients, client, removing, sweepVars, shutdown>>

----------------------------------------------------------------------------
\* removeClient

\* Mutant: the client stays in the map until its removal is over.
RemoveLookupKeeps(c) ==
    /\ MuFree
    /\ removing' = [removing EXCEPT ![c] = IF c \in clients THEN "conn" ELSE @]
    /\ UNCHANGED clients

\* Under n.mu: the first removal of a client finds it, the others return.
RemoveLookup(c) ==
    /\ MuFree
    /\ clients' = clients \ {c}
    /\ removing' = [removing EXCEPT ![c] = IF c \in clients THEN "conn" ELSE @]

\* conn.Close(), for a client that has one.
RemoveConn(c) ==
    /\ removing[c] = "conn"
    /\ removing' = [removing EXCEPT ![c] = "unsubscribe"]
    /\ client' = IF c \in WebSockets THEN [client EXCEPT ![c].conn = "closed"] ELSE client
    /\ UNCHANGED <<bufferVars, clock, clients, sweepVars, shutdown>>

RemoveUnsubscribe(c) ==
    /\ removing[c] = "unsubscribe"
    /\ removing' = [removing EXCEPT ![c] = "no"]
    /\ swept' = IF swept = c THEN "none" ELSE swept
    /\ Unsubscribe(c)
    /\ UNCHANGED <<clock, clients, client, idle, shutdown>>

----------------------------------------------------------------------------
\* handleWebSocketClient and createSSEClient: connecting

\* The channel exists before the client is in the map.
Connect(c, isSSE, x) ==
    /\ client[c].stage = "new"
    /\ Subscribe(c)
    /\ client' = [client EXCEPT ![c].stage = "subscribed", ![c].contexts = {x},
                                ![c].last = clock, ![c].isSSE = isSSE]
    /\ UNCHANGED <<clock, clients, removing, sweepVars, shutdown>>

Register(c) ==
    /\ client[c].stage = "subscribed"
    /\ MuFree
    /\ clients' = clients \cup {c}
    /\ client' = [client EXCEPT ![c].stage = "registered"]
    /\ UNCHANGED <<bufferVars, clock, removing, sweepVars, shutdown>>

----------------------------------------------------------------------------
\* The goroutine that reads eventsChannel

Wants(c, unit) == client[c].contexts \cap {Star, Traffic[unit]} # {}

\* WebSocket: a unit of another context is passed over, any other is written next.
TakeForWebSocket(c) ==
    LET unit == Head(channels[c].queue)
        k == client[c]
    IN  /\ c \in WebSockets
        /\ Registered(c)
        /\ client[c].sender = "wait"
        /\ Take(c)
        /\ client' = [client EXCEPT ![c] =
             IF Wants(c, unit) THEN [k EXCEPT !.sender = "write", !.hand = unit]
             ELSE [k EXCEPT !.done = @ \cup {unit}]]
        /\ UNCHANGED <<clock, clients, removing, sweepVars, shutdown>>

\* SSE: the unit goes to sseChannel unless that is full.
TakeForSse(c) ==
    LET unit == Head(channels[c].queue)
        k == client[c]
    IN  /\ c \in SseClients
        /\ Registered(c)
        /\ client[c].sender = "wait"
        /\ Take(c)
        /\ client' = [client EXCEPT ![c] =
             IF Wants(c, unit) /\ Len(k.sse) < SseSize
             THEN [k EXCEPT !.sse = Append(@, unit)]
             ELSE [k EXCEPT !.done = @ \cup {unit}]]
        /\ UNCHANGED <<clock, clients, removing, sweepVars, shutdown>>

\* A write to a peer that has gone may still succeed.
WriteUnit(c) ==
    /\ client[c].sender = "write"
    /\ client[c].conn # "closed"
    /\ client' = [client EXCEPT ![c].sender = "wait", ![c].hand = 0, ![c].last = clock,
                                ![c].newest = client[c].hand,
                                ![c].done = @ \cup {client[c].hand}]
    /\ UNCHANGED <<bufferVars, clock, clients, removing, sweepVars, shutdown>>

\* A write fails: the goroutine closes the channel itself and returns at once.
WriteFails(c) ==
    /\ client[c].sender = "write"
    /\ client[c].conn # "up"
    /\ CloseOwn(c)
    /\ client' = [client EXCEPT ![c].sender = "failed", ![c].hand = 0]
    /\ UNCHANGED <<clock, clients, removing, sweepVars, shutdown>>

\* The channel is closed and empty.
ChannelEnds(c) ==
    /\ Registered(c)
    /\ client[c].sender = "wait"
    /\ ~channels[c].open
    /\ channels[c].queue = <<>>
    /\ client' = [client EXCEPT ![c].sender = "ended",
                                ![c].sseOpen = @ /\ c \in WebSockets]
    /\ RemoveLookup(c)
    /\ UNCHANGED <<bufferVars, clock, sweepVars, shutdown>>

----------------------------------------------------------------------------
\* The goroutine that serves the connection

\* processClientMessage: every message counts as activity, and "subscribe" puts
\* other contexts in the place of the client's.
ClientMessage(c, contexts) ==
    /\ c \in WebSockets
    /\ Registered(c)
    /\ client[c].handler = "on"
    /\ client[c].conn = "up"
    /\ client' = [client EXCEPT ![c].last = clock, ![c].contexts = contexts]
    /\ UNCHANGED <<bufferVars, clock, clients, removing, sweepVars, shutdown>>

\* Mutant: the reader gives up without removing the client.
ReadErrorForgets(c) ==
    /\ c \in WebSockets
    /\ Registered(c)
    /\ client[c].handler = "on"
    /\ client[c].conn # "up"
    /\ client' = [client EXCEPT ![c].handler = "ended"]
    /\ UNCHANGED <<bufferVars, clock, clients, removing, sweepVars, shutdown>>

ReadError(c) ==
    /\ c \in WebSockets
    /\ Registered(c)
    /\ client[c].handler = "on"
    /\ client[c].conn # "up"
    /\ client' = [client EXCEPT ![c].handler = "ended"]
    /\ RemoveLookup(c)
    /\ UNCHANGED <<bufferVars, clock, sweepVars, shutdown>>

\* The SSE stream writer takes a message; that it could not be written is ignored.
SseWrite(c) ==
    /\ c \in SseClients
    /\ client[c].handler = "on"
    /\ client[c].sse # <<>>
    /\ client' = [client EXCEPT ![c].sse = Tail(@), ![c].last = clock,
                                ![c].newest = Head(client[c].sse),
                                ![c].done = @ \cup {Head(client[c].sse)}]
    /\ UNCHANGED <<bufferVars, clock, clients, removing, sweepVars, shutdown>>

\* sseChannel is closed and empty.
SseEnds(c) ==
    /\ client[c].handler = "on"
    /\ client[c].sse = <<>>
    /\ ~client[c].sseOpen
    /\ client' = [client EXCEPT ![c].handler = "ended"]
    /\ UNCHANGED <<bufferVars, clock, clients, removing, sweepVars, shutdown>>

\* The request's context reports that the client has gone.
SseDisconnect(c) ==
    /\ c \in SseClients
    /\ Registered(c)
    /\ client[c].handler = "on"
    /\ client[c].conn = "gone"
    /\ client' = [client EXCEPT ![c].handler = "ended"]
    /\ RemoveLookup(c)
    /\ UNCHANGED <<bufferVars, clock, sweepVars, shutdown>>

----------------------------------------------------------------------------
\* cleanupIdleClients and performClientCleanup

\* Mutant: the list begins with an empty entry (a length where a capacity is meant).
SweepScanBlank ==
    /\ idle = {}
    /\ swept = "none"
    /\ MuFree
    /\ idle' = {"none"} \cup {c \in clients : clock - client[c].last > MaxIdleTime}
    /\ UNCHANGED <<bufferVars, clock, clients, client, removing, swept, shutdown>>

\* Under n.mu the idle clients are listed.
SweepScan ==
    /\ idle = {}
    /\ swept = "none"
    /\ MuFree
    /\ idle' = {c \in clients : clock - client[c].last > MaxIdleTime}
    /\ UNCHANGED <<bufferVars, clock, clients, client, removing, swept, shutdown>>

\* After n.mu is released they are removed one by one, active again or not.
SweepRemove(c) ==
    /\ swept = "none"
    /\ c \in idle
    /\ idle' = idle \ {c}
    /\ swept' = IF c \in clients THEN c ELSE "none"
    /\ RemoveLookup(c)
    /\ UNCHANGED <<bufferVars, clock, client, shutdown>>

----------------------------------------------------------------------------
\* sendHeartbeats

\* A heartbeat is written to the WebSocket clients of a copy of the map, which
\* they may have left since.  It has an effect only when it fails: a goroutine
\* then removes the client.
HeartbeatFails(c) ==
    /\ c \in WebSockets
    /\ Registered(c)
    /\ client[c].conn # "up"
    /\ RemoveLookup(c)
    /\ UNCHANGED <<bufferVars, clock, client, sweepVars, shutdown>>

----------------------------------------------------------------------------
\* Shutdown, which holds n.mu to the end

ShutdownSignal ==
    /\ shutdown = "no"
    /\ shutdown' = "channels"
    /\ SignalClose
    /\ UNCHANGED <<clock, clients, client, removing, sweepVars>>

ShutdownChannels ==
    /\ shutdown = "channels"
    /\ shutdown' = "clients"
    /\ CloseAll
    /\ UNCHANGED <<clock, clients, client, removing, sweepVars>>

\* Connections are closed and the map is replaced.
ShutdownClients ==
    /\ shutdown = "clients"
    /\ shutdown' = "done"
    /\ client' = [c \in ClientIds |-> IF c \in clients \cap WebSockets
                                      THEN [client[c] EXCEPT !.conn = "closed"]
                                      ELSE client[c]]
    /\ clients' = {}
    /\ UNCHANGED <<bufferVars, clock, removing, sweepVars>>

ShutdownStep == ShutdownChannels \/ ShutdownClients

----------------------------------------------------------------------------
ClientStep(c) ==
    \/ Register(c)
    \/ TakeForWebSocket(c) \/ TakeForSse(c)
    \/ WriteUnit(c) \/ WriteFails(c)
    \/ ChannelEnds(c)
    \/ SseWrite(c) \/ SseEnds(c)

RemoveStep(c) == RemoveConn(c) \/ RemoveUnsubscribe(c)

Step ==
    \/ Tick \/ Forward \/ BufferLoop \/ SweepScan
    \/ ShutdownSignal \/ ShutdownStep
    \/ \E c \in ClientIds :
         \/ ClientStep(c) \/ RemoveStep(c)
         \/ Leave(c) \/ ReadError(c) \/ SseDisconnect(c)
         \/ SweepRemove(c) \/ HeartbeatFails(c)
         \/ \E isSSE \in BOOLEAN, x \in Asked : Connect(c, isSSE, x)
         \/ \E contexts \in Requests : ClientMessage(c, contexts)

\* A panic ends the process.
Next == panic = "none" /\ Step

Spec == Init /\ [][Next]_vars

\* The goroutines that have something to do get to do it: the flush loop, the
\* two goroutines of a client, a removal in progress, the idle sweep and
\* Shutdown.  Nothing is assumed of clients, the ticker's clock, the router or
\* the request context of an SSE client.
Fairness ==
    /\ WF_vars(panic = "none" /\ BufferLoop)
    /\ WF_vars(panic = "none" /\ ShutdownStep)
    /\ \A c \in ClientIds :
         /\ WF_vars(panic = "none" /\ ClientStep(c))
         /\ WF_vars(panic = "none" /\ RemoveStep(c))
         /\ WF_vars(panic = "none" /\ ReadError(c))
         /\ WF_vars(panic = "none" /\ SweepRemove(c))

FairSpec == Spec /\ Fairness

----------------------------------------------------------------------------
\* Everything the client has been given or was denied for a stated reason.
Accounted(c) ==
    LET k == client[c]
        elements(s) == {s[i] : i \in DOMAIN s}
    IN  elements(channels[c].queue) \cup channels[c].dropped \cup {k.hand}
        \cup elements(k.sse) \cup k.done

\* No unit published while a client is subscribed gets lost on the way to it,
\* whatever flushes, swaps and sweeps come between: it waits in the buffer or in
\* the batch, is in one of the client's channels, has been written, or was
\* refused by a full channel or by the client's own contexts.
NoSilentLoss ==
    \A c \in subscribers :
        channels[c].open =>
            (channels[c].joined + 1)..published \subseteq Pending(c) \cup Accounted(c)

\* A client is sent units in the order of their publication and none twice,
\* although batches, its channel and the SSE channel lie between.
DeliveredInOrder ==
    \A c \in ClientIds :
        LET k == client[c]
            hand == IF k.hand = 0 THEN <<>> ELSE <<k.hand>>
            line == <<k.newest>> \o hand \o k.sse \o channels[c].queue
        IN  \A i, j \in DOMAIN line : i < j => line[i] < line[j]

\* The reader, the sweep, the heartbeats, the sender and Shutdown may all remove
\* one client; a channel is nevertheless closed twice only when the sender of
\* some WebSocket client has closed its own channel after a write error.
DoubleCloseNeedsWriteError ==
    panic = "close" => \E c \in WebSockets : client[c].sender = "failed"

\* Until Shutdown begins every client in the map has a channel that flush
\* serves, and it is open unless the client's own sender has closed it.
RegisteredIsReachable ==
    ~closed => \A c \in clients :
                 /\ c \in subscribers
                 /\ channels[c].open \/ client[c].sender = "failed"

\* A WebSocket client that has gone away leaves the map, and its channel leaves
\* the buffer, whatever else is removing it, unless a panic ends the process.
GoneClientsLeave ==
    \A c \in ClientIds :
        c \in WebSockets /\ client[c].conn = "gone" ~> (c \notin clients \cup subscribers \/ panic # "none")
=============================================================================
