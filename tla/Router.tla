------------------------------- MODULE Router -------------------------------
(***************************************************************************)
(* The event router (internal/router/router.go): subscriptions and the     *)
(* index from contexts to subscriptions, the loop of Start that takes work *)
(* units from the storage's event stream and offers each to the channels   *)
(* of the interested subscribers, the sweep of idle subscriptions, and the *)
(* ways in which a channel is closed while the loop may be using it.       *)
(*                                                                         *)
(* A critical section of r.mu is one action, except the read section of    *)
(* performCleanup, which looks at one subscription after the other and     *)
(* keeps writers out meanwhile.  Work units are numbered as they enter the *)
(* stream; a subscription that is gone may still be in routeEvent's hands. *)
(***************************************************************************)
EXTENDS Integers, Sequences, FiniteSets

CONSTANTS
    Contexts,       \* context IDs
    NoContext,      \* the empty context ID of a work unit
    SubIds,         \* the UUIDs that generateID may return
    MaxBufferSize,  \* config.MaxBufferSize, the capacity of a subscriber's channel
    StreamSize,     \* the capacity of the event stream
    MaxIdle,        \* maxIdleTime, in ticks
    Traffic,        \* bound: the contexts of the work units created, in order
    MaxClock        \* bound: the last instant of a behaviour

VARIABLES
    clock,         \* time.Now()
    published,     \* how many work units have been sent to the event stream
    taken,         \* how many of them Start has received
    cancelled,     \* the context of Start is done
    running,       \* Start has not returned
    subscriptions, \* r.subscriptions: the IDs registered
    subs,          \* the routerSubscription made for each ID
    contextSubs,   \* r.contextSubs
    route,         \* where routeEvent is
    cleanup,       \* where performCleanup is
    crashed        \* a send on a closed channel has ended the process

registry == <<subscriptions, subs, contextSubs>>
life == <<cancelled, running>>
vars == <<clock, published, taken, life, registry, route, cleanup, crashed>>

ASSUME ContextsAssumption == NoContext \notin Contexts
ASSUME SubIdsAssumption == "none" \notin SubIds
ASSUME SizesAssumption ==
    /\ MaxBufferSize \in Nat
    /\ {StreamSize, MaxIdle, MaxClock} \subseteq Nat
ASSUME TrafficAssumption == Traffic \in Seq(Contexts \cup {NoContext})

----------------------------------------------------------------------------
\* sent lists the work units put in the channel, of which the subscriber has
\* received the first read.  History: lost are those dropped, and joined tells
\* how many had been taken when the subscription to a context began.
Subscription ==
    [contexts : SUBSET Contexts, open : BOOLEAN, last : Nat, sent : Seq(Nat),
     read : Nat, lost : SUBSET Nat, joined : [Contexts -> Nat]]

NoSub == [open |-> FALSE]

\* ids: the copied IDs still to be served; sub: the one in hand.
Route == [stage : {"pick", "send", "touch"}, event : Nat, ids : SUBSET SubIds,
          sub : SubIds \cup {"none"}]

NoRoute == [stage |-> "none"]

Cleanup == [stage : {"scan", "remove"}, now : Nat, look : SUBSET SubIds,
            toRemove : SUBSET SubIds]

NoCleanup == [stage |-> "none"]

Buffered(s) == Len(subs[s].sent) - subs[s].read

\* Mutant: off by one.
FullTooLate(s) == Buffered(s) > MaxBufferSize

\* The channel has no room: the send takes the default case.
Full(s) == Buffered(s) >= MaxBufferSize

Init ==
    /\ clock = 0
    /\ published = 0
    /\ taken = 0
    /\ cancelled = FALSE
    /\ running = TRUE
    /\ subscriptions = {}
    /\ subs = [s \in SubIds |-> NoSub]
    /\ contextSubs = [c \in Contexts |-> {}]
    /\ route = NoRoute
    /\ cleanup = NoCleanup
    /\ crashed = FALSE

----------------------------------------------------------------------------
\* The surroundings: time, the storage's end of the stream, the engine's
\* context, the subscribers' end of their channels

Tick ==
    /\ clock < MaxClock
    /\ clock' = clock + 1
    /\ UNCHANGED <<published, taken, life, registry, route, cleanup, crashed>>

\* A work unit enters the stream; storage drops it when the stream is full.
Publish ==
    /\ published < Len(Traffic)
    /\ published - taken < StreamSize
    /\ published' = published + 1
    /\ UNCHANGED <<clock, taken, life, registry, route, cleanup, crashed>>

\* The engine's context ends.
Cancel ==
    /\ ~cancelled
    /\ cancelled' = TRUE
    /\ UNCHANGED <<clock, published, taken, running, registry, route,
                   cleanup, crashed>>

\* A subscriber receives; what is buffered can be read from a closed channel.
Receive(s) ==
    /\ subs[s] # NoSub
    /\ Buffered(s) > 0
    /\ subs' = [subs EXCEPT ![s].read = @ + 1]
    /\ UNCHANGED <<clock, published, taken, life, subscriptions, contextSubs, route,
                   cleanup, crashed>>

----------------------------------------------------------------------------
\* Start and routeEvent

\* The loop ends when its context is done, at the latest when the stream is
\* closed: storage closes it only after that same context has ended.
Stop ==
    /\ running
    /\ route = NoRoute
    /\ cancelled
    /\ running' = FALSE
    /\ UNCHANGED <<clock, published, taken, cancelled, registry, route,
                   cleanup, crashed>>

\* routeEvent is done with the IDs outside rest.
RouteRest(rest) ==
    route' = IF rest = {} THEN NoRoute
             ELSE [route EXCEPT !.stage = "pick", !.ids = rest, !.sub = "none"]

\* A work unit is received and the IDs subscribed to its context are copied.
RouteBegin ==
    LET c == Traffic[taken + 1]
    IN /\ running
       /\ route = NoRoute
       /\ taken < published
       /\ taken' = taken + 1
       /\ route' = IF c = NoContext \/ contextSubs[c] = {} THEN NoRoute
                   ELSE [stage |-> "pick", event |-> taken + 1,
                         ids |-> contextSubs[c], sub |-> "none"]
       /\ UNCHANGED <<clock, published, life, registry, cleanup, crashed>>

\* Mutant: an ID that is gone ends the loop.
RoutePickReturns(s) ==
    /\ route.stage = "pick"
    /\ s \in route.ids
    /\ \/ /\ s \in subscriptions
          /\ route' = [route EXCEPT !.stage = "send", !.sub = s,
                                    !.ids = route.ids \ {s}]
       \/ /\ s \notin subscriptions
          /\ route' = NoRoute
    /\ UNCHANGED <<clock, published, taken, life, registry, cleanup, crashed>>

\* Mutant: the ID is served again.
RoutePickKeeps(s) ==
    /\ route.stage = "pick"
    /\ s \in route.ids
    /\ \/ /\ s \in subscriptions
          /\ route' = [route EXCEPT !.stage = "send", !.sub = s]
       \/ /\ s \notin subscriptions
          /\ RouteRest(route.ids \ {s})
    /\ UNCHANGED <<clock, published, taken, life, registry, cleanup, crashed>>

\* The next ID, in the map's arbitrary order, is looked up in a read section;
\* one that is gone is skipped.
RoutePick(s) ==
    /\ route.stage = "pick"
    /\ s \in route.ids
    /\ \/ /\ s \in subscriptions
          /\ route' = [route EXCEPT !.stage = "send", !.sub = s,
                                    !.ids = route.ids \ {s}]
       \/ /\ s \notin subscriptions
          /\ RouteRest(route.ids \ {s})
    /\ UNCHANGED <<clock, published, taken, life, registry, cleanup, crashed>>

\* Mutant: the send waits for room.
RouteSendBlocks ==
    LET s == route.sub
    IN /\ route.stage = "send"
       /\ subs[s].open
       /\ ~Full(s)
       /\ subs' = [subs EXCEPT ![s].sent = Append(@, route.event)]
       /\ route' = [route EXCEPT !.stage = "touch"]
       /\ UNCHANGED <<clock, published, taken, life, subscriptions, contextSubs,
                      cleanup, crashed>>

\* The send, outside every lock: the channel may have been closed since the ID
\* was looked up.
RouteSend ==
    LET s == route.sub
    IN /\ route.stage = "send"
       /\ \/ /\ subs[s].open
             /\ ~Full(s)
             /\ subs' = [subs EXCEPT ![s].sent = Append(@, route.event)]
             /\ route' = [route EXCEPT !.stage = "touch"]
             /\ UNCHANGED crashed
          \/ /\ subs[s].open
             /\ Full(s)
             /\ subs' = [subs EXCEPT ![s].lost = @ \cup {route.event}]
             /\ RouteRest(route.ids)
             /\ UNCHANGED crashed
          \/ /\ ~subs[s].open
             /\ crashed' = TRUE
             /\ UNCHANGED <<subs, route>>
       /\ UNCHANGED <<clock, published, taken, life, subscriptions, contextSubs,
                      cleanup>>

\* sub.LastAccessed = time.Now()
RouteTouch ==
    /\ route.stage = "touch"
    /\ subs' = [subs EXCEPT ![route.sub].last = clock]
    /\ RouteRest(route.ids)
    /\ UNCHANGED <<clock, published, taken, life, subscriptions, contextSubs, cleanup,
                   crashed>>

RouterStep == \/ Stop \/ RouteBegin \/ RouteSend \/ RouteTouch
              \/ \E s \in SubIds : RoutePick(s)

----------------------------------------------------------------------------
\* Write sections of r.mu

\* performCleanup's read section keeps writers out.
CanLock == cleanup.stage # "scan"

\* Mutant: the entries of the old contexts stay.
ReindexedKeepingOld(s, old, new) ==
    [c \in Contexts |-> contextSubs[c] \cup (IF c \in new THEN {s} ELSE {})]

\* contextSubs with s taken out of the entries of old and then put in those of new.
Reindexed(s, old, new) ==
    [c \in Contexts |-> (contextSubs[c] \ (IF c \in old THEN {s} ELSE {}))
                        \cup (IF c \in new THEN {s} ELSE {})]

\* When the subscription to each context began, once s is subscribed to ctxs.
Joined(s, ctxs) ==
    [c \in Contexts |->
        IF c \notin ctxs THEN 0
        ELSE IF s \in contextSubs[c] THEN subs[s].joined[c] ELSE taken]

Subscribe(s, ctxs) ==
    /\ CanLock
    /\ subs[s] = NoSub
    /\ subs' = [subs EXCEPT ![s] =
           [contexts |-> ctxs, open |-> TRUE, last |-> clock, sent |-> <<>>,
            read |-> 0, lost |-> {}, joined |-> Joined(s, ctxs)]]
    /\ subscriptions' = subscriptions \cup {s}
    /\ contextSubs' = Reindexed(s, {}, ctxs)
    /\ UNCHANGED <<clock, published, taken, life, route, cleanup, crashed>>

\* The body of Unsubscribe; an ID that is gone changes nothing.
Unregister(s) ==
    IF s \in subscriptions
    THEN /\ subscriptions' = subscriptions \ {s}
         /\ contextSubs' = Reindexed(s, subs[s].contexts, {})
         /\ subs' = [subs EXCEPT ![s].open = FALSE]
    ELSE UNCHANGED registry

Unsubscribe(s) ==
    /\ CanLock
    /\ s \in subscriptions
    /\ Unregister(s)
    /\ UNCHANGED <<clock, published, taken, life, route, cleanup, crashed>>

UpdateSubscription(s, ctxs) ==
    /\ CanLock
    /\ s \in subscriptions
    /\ contextSubs' = Reindexed(s, subs[s].contexts, ctxs)
    /\ subs' = [subs EXCEPT ![s] =
           [@ EXCEPT !.contexts = ctxs, !.last = clock,
                     !.joined = Joined(s, ctxs)]]
    /\ UNCHANGED <<clock, published, taken, life, subscriptions, route, cleanup,
                   crashed>>

\* Shutdown closes every channel and empties both maps.
Shutdown ==
    /\ CanLock
    /\ subs' = [s \in SubIds |-> IF s \in subscriptions
                                 THEN [subs[s] EXCEPT !.open = FALSE]
                                 ELSE subs[s]]
    /\ subscriptions' = {}
    /\ contextSubs' = [c \in Contexts |-> {}]
    /\ UNCHANGED <<clock, published, taken, life, route, cleanup, crashed>>

----------------------------------------------------------------------------
\* performCleanup

\* The clock is read and the read section entered.
CleanupBegin ==
    /\ ~cancelled
    /\ cleanup = NoCleanup
    /\ subscriptions # {}
    /\ cleanup' = [stage |-> "scan", now |-> clock, look |-> subscriptions,
                   toRemove |-> {}]
    /\ UNCHANGED <<clock, published, taken, life, registry, route, crashed>>

\* One subscription is looked at; after the last one the section ends.
CleanupLook(s) ==
    LET idle == cleanup.now - subs[s].last > MaxIdle
        found == cleanup.toRemove \cup (IF idle THEN {s} ELSE {})
    IN /\ cleanup.stage = "scan"
       /\ s \in cleanup.look
       /\ cleanup' = IF cleanup.look # {s}
                     THEN [cleanup EXCEPT !.look = @ \ {s}, !.toRemove = found]
                     ELSE IF found = {} THEN NoCleanup
                     ELSE [cleanup EXCEPT !.stage = "remove", !.look = {},
                                          !.toRemove = found]
       /\ UNCHANGED <<clock, published, taken, life, registry, route, crashed>>

\* r.Unsubscribe(id) for one of the IDs found, without a second look.
CleanupRemove(s) ==
    /\ cleanup.stage = "remove"
    /\ s \in cleanup.toRemove
    /\ Unregister(s)
    /\ cleanup' = IF cleanup.toRemove = {s} THEN NoCleanup
                  ELSE [cleanup EXCEPT !.toRemove = @ \ {s}]
    /\ UNCHANGED <<clock, published, taken, life, route, crashed>>

----------------------------------------------------------------------------
Step ==
    \/ Tick
    \/ Publish
    \/ Cancel
    \/ RouteBegin \/ RouteSend \/ RouteTouch \/ Stop
    \/ \E s \in SubIds : \/ Receive(s) \/ RoutePick(s) \/ Unsubscribe(s)
                         \/ CleanupLook(s) \/ CleanupRemove(s)
    \/ \E s \in SubIds, ctxs \in SUBSET Contexts :
            Subscribe(s, ctxs) \/ UpdateSubscription(s, ctxs)
    \/ Shutdown
    \/ CleanupBegin

\* Nothing happens after a panic.
Next == ~crashed /\ Step

Spec == Init /\ [][Next]_vars

\* Start's goroutine keeps running.  Subscribers, who may never read, and all
\* other callers owe nothing.
FairSpec == Spec /\ WF_vars(~crashed /\ RouterStep)

----------------------------------------------------------------------------
\* Properties

TypeOK ==
    /\ clock \in Nat
    /\ published \in 0..Len(Traffic)
    /\ taken \in 0..published
    /\ {cancelled, running, crashed} \subseteq BOOLEAN
    /\ subscriptions \subseteq SubIds
    /\ subs \in [SubIds -> Subscription \cup {NoSub}]
    /\ \A s \in SubIds :
          subs[s] # NoSub => subs[s].read <= Len(subs[s].sent)
                             /\ Buffered(s) <= MaxBufferSize
    /\ contextSubs \in [Contexts -> SUBSET SubIds]
    /\ route \in Route \cup {NoRoute}
    /\ cleanup \in Cleanup \cup {NoCleanup}

\* The two maps agree: a subscription is indexed under exactly the contexts it
\* was last updated to, and a removed one under none, so no work unit is routed
\* on account of a subscription that is gone or has moved on.
IndexMatches ==
    \A c \in Contexts :
        contextSubs[c] = {s \in subscriptions : c \in subs[s].contexts}

\* A channel is open exactly as long as its subscription is registered: of
\* Unsubscribe, the idle sweep and Shutdown, which may all pick the same one,
\* only one closes it, and every subscriber that was removed sees the end.
OpenIffRegistered ==
    \A s \in SubIds : subs[s].open <=> s \in subscriptions

\* The registry, its index and the channels agree, whoever of Subscribe, Unsubscribe,
\* UpdateSubscription, the idle sweep and Shutdown changed them last.
RegistryCoherent == IndexMatches /\ OpenIffRegistered

\* What a subscriber gets is in the order of the stream, without repetition,
\* whatever happens to its subscription while a work unit is routed.
DeliveredInOrder ==
    \A s \in SubIds : subs[s] # NoSub =>
        \A i, j \in 1..Len(subs[s].sent) :
            i < j => subs[s].sent[i] < subs[s].sent[j]

\* Routing misses nobody: a work unit taken from the stream since a subscription
\* to its context began was put in the subscriber's channel, was dropped because
\* that channel was full, or is the one being routed, with the subscriber still
\* to be served.
NoSilentLoss ==
    \A s \in subscriptions, n \in 1..taken :
        Traffic[n] \in subs[s].contexts /\ n > subs[s].joined[Traffic[n]] =>
            \/ \E i \in 1..Len(subs[s].sent) : subs[s].sent[i] = n
            \/ n \in subs[s].lost
            \/ route # NoRoute /\ route.event = n /\ s \in route.ids \cup {route.sub}

\* A slow or dead subscriber holds nobody up: every work unit in the stream is
\* taken and routed to the end, unless Start is stopped or panics.
RoutingNeverStalls ==
    \A n \in 1..Len(Traffic) :
        published >= n ~>
            \/ taken >= n /\ (route = NoRoute \/ route.event # n)
            \/ ~running
            \/ crashed

----------------------------------------------------------------------------
\* What the documents say, and the code does not do

\* docs/errors.md:386: "For critical operations, Engram v3 implements recovery
\* mechanisms", and shows the router's event loop recovering from a panic.
EventLoopSurvives == ~crashed
=============================================================================
