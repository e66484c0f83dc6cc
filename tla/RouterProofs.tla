---------------------------- MODULE RouterProofs ----------------------------
(***************************************************************************)
(* Proofs about Router, for every set of contexts and UUIDs, every traffic,*)
(* every capacity and every idle time.                                     *)
(***************************************************************************)
EXTENDS Router, SequenceTheorems, TLAPS

USE DEF NoSub, NoRoute, NoCleanup

\* A subscription whose channel holds no more than it can.
WellFormed(x) ==
    /\ x \in Subscription
    /\ x.read <= Len(x.sent)
    /\ Len(x.sent) - x.read <= MaxBufferSize

\* routeEvent is serving the last unit taken; the IDs it has copied and the one
\* in its hands were subscribed once, and it serves nobody twice.
RouteInv ==
    route # NoRoute =>
        /\ route.event = taken
        /\ taken # 0
        /\ \A s \in route.ids : subs[s] # NoSub
        /\ route.stage # "pick" =>
              route.sub \in SubIds \ route.ids /\ subs[route.sub] # NoSub

\* The channels in TypeOK, one by one.
LEMMA WellFormedSubs ==
  ASSUME TypeOK, NEW s \in SubIds
  PROVE  subs[s] = NoSub \/ WellFormed(subs[s])
  BY DEF TypeOK, WellFormed, Buffered

\* No subscription is the absent one.
LEMMA SubscriptionIsNotNoSub == NoSub \notin Subscription
  BY DEF Subscription

\* One subscription is replaced by another.
LEMMA SubsReplaced ==
  ASSUME TypeOK, NEW s \in SubIds, NEW x, WellFormed(x),
         subs' = [subs EXCEPT ![s] = x]
  PROVE  /\ subs' \in [SubIds -> Subscription \cup {NoSub}]
         /\ \A t \in SubIds :
               subs'[t] # NoSub => subs'[t].read <= Len(subs'[t].sent)
                                   /\ Buffered(t)' <= MaxBufferSize
         /\ subs'[s] = x /\ subs'[s] # NoSub
         /\ \A t \in SubIds \ {s} : subs'[t] = subs[t]
  <1>1. subs \in [SubIds -> Subscription \cup {NoSub}]
    BY DEF TypeOK
  <1>2. subs' \in [SubIds -> Subscription \cup {NoSub}]
    BY <1>1 DEF WellFormed
  <1>3. subs'[s] = x /\ \A t \in SubIds \ {s} : subs'[t] = subs[t]
    BY <1>1
  <1>4. x # NoSub
    BY SubscriptionIsNotNoSub DEF WellFormed
  <1>5. ASSUME NEW t \in SubIds, subs'[t] # NoSub
        PROVE  subs'[t].read <= Len(subs'[t].sent) /\ Buffered(t)' <= MaxBufferSize
    <2>1. WellFormed(subs'[t])
      BY <1>3, <1>5, WellFormedSubs
    <2> QED BY <2>1 DEF WellFormed, Buffered
  <1> QED BY <1>2, <1>3, <1>4, <1>5

RouterInv == TypeOK /\ RegistryCoherent /\ RouteInv

\* A new router satisfies the inductive invariant.
LEMMA InitRouterInv == Init => RouterInv
  <1> SUFFICES ASSUME Init PROVE RouterInv
    OBVIOUS
  <1>1. TypeOK
    <2>1. published \in 0..Len(Traffic) /\ taken \in 0..published
      BY TrafficAssumption DEF Init
    <2> QED BY <2>1 DEF Init, TypeOK
  <1>2. RegistryCoherent
    BY DEF Init, RegistryCoherent, IndexMatches, OpenIffRegistered
  <1>3. RouteInv
    BY DEF Init, RouteInv
  <1> QED BY <1>1, <1>2, <1>3 DEF RouterInv

\* A registered subscription is a proper one.
LEMMA RegisteredIsSub ==
  ASSUME RouterInv, NEW s \in subscriptions
  PROVE  s \in SubIds /\ subs[s] # NoSub /\ WellFormed(subs[s]) /\ subs[s].open
  <1>1. s \in SubIds
    BY DEF RouterInv, TypeOK
  <1>2. subs[s].open
    BY <1>1 DEF RouterInv, RegistryCoherent, OpenIffRegistered
  <1>3. subs[s] # NoSub
    BY <1>2
  <1> QED BY <1>1, <1>2, <1>3, WellFormedSubs DEF RouterInv

\* Steps that leave registry, routing and the loop's counter alone.
LEMMA QuietRouterInv ==
  ASSUME RouterInv, TypeOK', UNCHANGED <<taken, registry, route>>
  PROVE  RouterInv'
  <1>1. RegistryCoherent'
    BY DEF RouterInv, RegistryCoherent, IndexMatches, OpenIffRegistered, registry
  <1>2. RouteInv'
    BY DEF RouterInv, RouteInv, registry
  <1> QED BY <1>1, <1>2 DEF RouterInv

\* A step that replaces one subscription by one with the same contexts, open as
\* before, and leaves the maps alone.
LEMMA SubTouched ==
  ASSUME RouterInv, NEW s \in SubIds, NEW x, WellFormed(x),
         subs' = [subs EXCEPT ![s] = x], subs[s] # NoSub,
         x.contexts = subs[s].contexts, x.open = subs[s].open,
         UNCHANGED <<subscriptions, contextSubs>>
  PROVE  /\ RegistryCoherent'
         /\ \A t \in SubIds : subs'[t] # NoSub <=> subs[t] # NoSub
  <1>1. subs'[s] = x /\ subs'[s] # NoSub /\ \A t \in SubIds \ {s} : subs'[t] = subs[t]
    BY SubsReplaced DEF RouterInv
  <1>2. \A t \in SubIds : /\ subs'[t].open <=> subs[t].open
                          /\ t \in subscriptions => subs'[t].contexts = subs[t].contexts
    BY <1>1
  <1>3. subscriptions \subseteq SubIds
    BY DEF RouterInv, TypeOK
  <1>4. IndexMatches'
    BY <1>2, <1>3 DEF RouterInv, RegistryCoherent, IndexMatches
  <1>5. OpenIffRegistered'
    BY <1>2 DEF RouterInv, RegistryCoherent, OpenIffRegistered
  <1> QED BY <1>1, <1>4, <1>5 DEF RegistryCoherent

\* routeEvent leaves an ID behind: what remains is a route, or the end of it.
LEMMA RestType ==
  ASSUME RouterInv, NEW rest, rest \subseteq route.ids, route # NoRoute,
         RouteRest(rest), taken' = taken,
         \A t \in rest : subs'[t] # NoSub
  PROVE  route' \in Route \cup {NoRoute} /\ RouteInv'
  <1>1. route \in Route
    BY DEF RouterInv, TypeOK
  <1>2. CASE rest = {}
    <2>1. route' = NoRoute
      BY <1>2 DEF RouteRest
    <2> QED BY <2>1 DEF RouteInv
  <1>3. CASE rest # {}
    <2>1. route' = [route EXCEPT !.stage = "pick", !.ids = rest, !.sub = "none"]
      BY <1>3 DEF RouteRest
    <2>2. /\ route' \in Route
          /\ route'.event = route.event /\ route'.ids = rest /\ route'.stage = "pick"
      BY <1>1, <2>1 DEF Route
    <2>3. route.event = taken /\ taken # 0
      BY DEF RouterInv, RouteInv
    <2> QED BY <2>2, <2>3 DEF RouteInv
  <1> QED BY <1>2, <1>3

\* The steps of Start and routeEvent preserve the invariant.
LEMMA RouteStepInv ==
  ASSUME RouterInv,
         RouteBegin \/ RouteSend \/ RouteTouch \/ \E s \in SubIds : RoutePick(s)
  PROVE  RouterInv'
  <1>0. /\ TypeOK /\ RouteInv /\ taken \in Nat
        /\ published \in Nat /\ Len(Traffic) \in Nat
    BY TrafficAssumption DEF RouterInv, TypeOK
  <1>1. CASE RouteBegin
    <2> DEFINE c == Traffic[taken + 1]
    <2>1. taken + 1 \in 1..Len(Traffic) /\ taken' = taken + 1 /\ taken + 1 \in 0..published
      BY <1>0, <1>1 DEF RouteBegin, TypeOK
    <2>2. c \in Contexts \cup {NoContext}
      BY <2>1, TrafficAssumption
    <2>3. route' \in Route \cup {NoRoute}
      BY <1>0, <1>1, <2>2 DEF RouteBegin, TypeOK, Route
    <2>4. TypeOK'
      BY <1>0, <1>1, <2>1, <2>3 DEF RouteBegin, TypeOK, registry, life, Buffered
    <2>5. RegistryCoherent'
      BY <1>1 DEF RouteBegin, registry, RouterInv, RegistryCoherent, IndexMatches,
                  OpenIffRegistered
    <2>6. RouteInv'
      <3>1. CASE c = NoContext \/ contextSubs[c] = {}
        <4>1. route' = NoRoute
          BY <1>1, <3>1 DEF RouteBegin
        <4> QED BY <4>1 DEF RouteInv
      <3>2. CASE c # NoContext /\ contextSubs[c] # {}
        <4>1. route' = [stage |-> "pick", event |-> taken + 1,
                         ids |-> contextSubs[c], sub |-> "none"]
          BY <1>1, <3>2 DEF RouteBegin
        <4>2. c \in Contexts /\ contextSubs[c] \subseteq subscriptions
          BY <2>2, <3>2 DEF RouterInv, RegistryCoherent, IndexMatches
        <4>3. \A s \in contextSubs[c] : subs[s] # NoSub
          BY <4>2, RegisteredIsSub
        <4>4. subs' = subs
          BY <1>1 DEF RouteBegin, registry
        <4> QED BY <1>0, <2>1, <4>1, <4>3, <4>4 DEF RouteInv
      <3> QED BY <3>1, <3>2
    <2> QED BY <2>4, <2>5, <2>6 DEF RouterInv
  <1>2. ASSUME NEW s \in SubIds, RoutePick(s) PROVE RouterInv'
    <2>a. s \in route.ids /\ route.stage = "pick" /\ taken' = taken
          /\ UNCHANGED <<clock, published, life, registry, cleanup, crashed>>
      BY <1>2 DEF RoutePick
    <2>0. route \in Route /\ s \in route.ids /\ route # NoRoute /\ taken' = taken
          /\ UNCHANGED <<clock, published, life, registry, cleanup, crashed>>
      BY <1>0, <2>a DEF TypeOK
    <2>1. route' \in Route \cup {NoRoute} /\ RouteInv'
      <3>1. CASE s \in subscriptions
        <4>1. route' = [route EXCEPT !.stage = "send", !.sub = s, !.ids = route.ids \ {s}]
          BY <1>2, <3>1 DEF RoutePick
        <4>2. /\ route' \in Route
              /\ route'.sub = s /\ route'.ids = route.ids \ {s}
              /\ route'.event = route.event
          BY <2>0, <4>1 DEF Route
        <4>3. subs[s] # NoSub
          BY <3>1, RegisteredIsSub
        <4> QED BY <1>0, <2>0, <4>2, <4>3 DEF RouteInv, registry
      <3>2. CASE s \notin subscriptions
        <4>1. RouteRest(route.ids \ {s})
          BY <1>2, <3>2 DEF RoutePick
        <4>2. \A t \in route.ids \ {s} : subs'[t] # NoSub
          BY <1>0, <2>0 DEF RouteInv, registry
        <4> QED BY <2>0, <4>1, <4>2, RestType
      <3> QED BY <3>1, <3>2
    <2>2. TypeOK'
      BY <2>0, <2>1, <1>0 DEF TypeOK, registry, life, Buffered
    <2>3. RegistryCoherent'
      BY <2>0 DEF registry, RouterInv, RegistryCoherent, IndexMatches, OpenIffRegistered
    <2> QED BY <2>1, <2>2, <2>3 DEF RouterInv
  <1>3. ASSUME RouteSend \/ RouteTouch PROVE RouterInv'
    <2> DEFINE s == route.sub
    <2>0. /\ route \in Route /\ route # NoRoute /\ route.stage \in {"send", "touch"}
          /\ s \in SubIds \ route.ids /\ subs[s] # NoSub /\ route.event \in Nat
      BY <1>0, <1>3 DEF RouteSend, RouteTouch, RouteInv, TypeOK, Route
    <2>1. WellFormed(subs[s]) /\ subs[s] \in Subscription
      BY <1>0, <2>0, WellFormedSubs DEF WellFormed
    <2>2. UNCHANGED <<clock, published, taken, life, subscriptions, contextSubs, cleanup>>
      BY <1>3 DEF RouteSend, RouteTouch
    <2> HIDE DEF s
    <2>3. ASSUME NEW x, WellFormed(x), subs' = [subs EXCEPT ![s] = x], crashed' = crashed,
                 x.contexts = subs[s].contexts, x.open = subs[s].open,
                 route' \in Route \cup {NoRoute},
                 (\A t \in SubIds : subs[t] # NoSub => subs'[t] # NoSub) => RouteInv'
          PROVE  RouterInv'
      <3>1. RegistryCoherent' /\ \A t \in SubIds : subs'[t] # NoSub <=> subs[t] # NoSub
        BY <2>0, <2>2, <2>3, SubTouched
      <3>2. TypeOK'
        BY <1>0, <2>0, <2>2, <2>3, SubsReplaced DEF TypeOK, life
      <3> QED BY <2>3, <3>1, <3>2 DEF RouterInv
    <2>4. CASE RouteTouch
      <3> DEFINE x == [subs[s] EXCEPT !.last = clock]
      <3>1. subs' = [subs EXCEPT ![s] = x]
        BY <1>0, <2>0, <2>4 DEF RouteTouch, TypeOK, s
      <3>2. WellFormed(x) /\ x.contexts = subs[s].contexts /\ x.open = subs[s].open
        BY <1>0, <2>1 DEF WellFormed, Subscription, TypeOK
      <3>3. RouteRest(route.ids) /\ taken' = taken /\ crashed' = crashed
        BY <2>4 DEF RouteTouch
      <3> HIDE DEF x
      <3>4. \A t \in SubIds : subs[t] # NoSub => subs'[t] # NoSub
        BY <1>0, <2>0, <3>1, <3>2, SubsReplaced
      <3>5. \A t \in route.ids : subs'[t] # NoSub
        BY <1>0, <2>0, <3>4 DEF RouteInv, Route
      <3>6. route' \in Route \cup {NoRoute} /\ RouteInv'
        BY <2>0, <3>3, <3>5, RestType
      <3> QED BY <2>3, <3>1, <3>2, <3>3, <3>6
    <2>5. CASE RouteSend /\ subs[s].open /\ ~Full(s)
      <3> DEFINE x == [subs[s] EXCEPT !.sent = Append(@, route.event)]
      <3>1. /\ subs' = [subs EXCEPT ![s] = x] /\ crashed' = crashed
            /\ route' = [route EXCEPT !.stage = "touch"]
        BY <1>0, <2>0, <2>5 DEF RouteSend, TypeOK, s
      <3>2. subs[s].sent \in Seq(Nat) /\ Len(Append(subs[s].sent, route.event)) =
            Len(subs[s].sent) + 1 /\ Append(subs[s].sent, route.event) \in Seq(Nat)
        BY <2>0, <2>1, AppendProperties DEF Subscription
      <3>3. Len(subs[s].sent) - subs[s].read < MaxBufferSize /\ subs[s].read \in Nat
            /\ Len(subs[s].sent) \in Nat
        BY <2>1, <2>5, <3>2, SizesAssumption DEF Full, Buffered, Subscription
      <3>4. /\ x \in Subscription /\ x.sent = Append(subs[s].sent, route.event)
            /\ x.read = subs[s].read
            /\ x.contexts = subs[s].contexts /\ x.open = subs[s].open
        BY <2>1, <3>2 DEF Subscription
      <3> HIDE DEF x
      <3>5. WellFormed(x)
        BY <2>1, <3>2, <3>3, <3>4, SizesAssumption DEF WellFormed
      <3>6. /\ route' \in Route /\ route'.ids = route.ids /\ route'.sub = route.sub
            /\ route'.event = route.event
        BY <2>0, <3>1 DEF Route
      <3>7. ASSUME \A t \in SubIds : subs[t] # NoSub => subs'[t] # NoSub
            PROVE  RouteInv'
        BY <1>0, <2>0, <2>2, <3>6, <3>7 DEF RouteInv, s, Route
      <3> QED BY <2>3, <3>1, <3>4, <3>5, <3>6, <3>7
    <2>6. CASE RouteSend /\ subs[s].open /\ Full(s)
      <3> DEFINE x == [subs[s] EXCEPT !.lost = @ \cup {route.event}]
      <3>1. /\ subs' = [subs EXCEPT ![s] = x] /\ crashed' = crashed
            /\ RouteRest(route.ids) /\ taken' = taken
        BY <1>0, <2>0, <2>6 DEF RouteSend, TypeOK, s
      <3>2. WellFormed(x) /\ x.contexts = subs[s].contexts /\ x.open = subs[s].open
        BY <2>0, <2>1 DEF WellFormed, Subscription
      <3> HIDE DEF x
      <3>4. \A t \in SubIds : subs[t] # NoSub => subs'[t] # NoSub
        BY <1>0, <2>0, <3>1, <3>2, SubsReplaced
      <3>5. \A t \in route.ids : subs'[t] # NoSub
        BY <1>0, <2>0, <3>4 DEF RouteInv, Route
      <3>6. route' \in Route \cup {NoRoute} /\ RouteInv'
        BY <2>0, <3>1, <3>5, RestType
      <3> QED BY <2>3, <3>1, <3>2, <3>6
    <2>7. CASE RouteSend /\ ~subs[s].open
      <3>1. crashed' = TRUE /\ subs' = subs /\ route' = route
        BY <2>7 DEF RouteSend, s
      <3>2. TypeOK'
        BY <1>0, <2>2, <3>1 DEF TypeOK, life, Buffered
      <3> QED BY <2>2, <3>1, <3>2, QuietRouterInv DEF registry
    <2> QED BY <1>3, <2>4, <2>5, <2>6, <2>7
  <1> QED BY <1>1, <1>2, <1>3

\* The history of when subscriptions began is well typed.
LEMMA JoinedType ==
  ASSUME RouterInv, NEW s \in SubIds, NEW ctxs \in SUBSET Contexts
  PROVE  Joined(s, ctxs) \in [Contexts -> Nat]
  <1>1. ASSUME NEW c \in Contexts, s \in contextSubs[c] PROVE subs[s].joined[c] \in Nat
    <2>1. s \in subscriptions
      BY <1>1 DEF RouterInv, RegistryCoherent, IndexMatches
    <2> QED BY <2>1, RegisteredIsSub DEF WellFormed, Subscription
  <1>2. taken \in Nat
    BY TrafficAssumption DEF RouterInv, TypeOK
  <1> QED BY <1>1, <1>2 DEF Joined

\* Subscribe and UpdateSubscription: s is registered, under the contexts ctxs.
LEMMA RegisterInv ==
  ASSUME RouterInv, NEW s \in SubIds, NEW ctxs \in SUBSET Contexts, NEW old,
         NEW x, WellFormed(x), x.contexts = ctxs, x.open,
         subs' = [subs EXCEPT ![s] = x],
         subscriptions' = subscriptions \cup {s},
         contextSubs' = Reindexed(s, old, ctxs),
         s \in subscriptions => old = subs[s].contexts,
         UNCHANGED <<clock, published, taken, life, route, cleanup, crashed>>
  PROVE  RouterInv'
  <1>0. /\ TypeOK /\ RouteInv /\ subscriptions \subseteq SubIds
        /\ contextSubs \in [Contexts -> SUBSET SubIds]
    BY DEF RouterInv, TypeOK
  <1>1. /\ subs' \in [SubIds -> Subscription \cup {NoSub}]
        /\ \A t \in SubIds :
               subs'[t] # NoSub => subs'[t].read <= Len(subs'[t].sent)
                                   /\ Buffered(t)' <= MaxBufferSize
        /\ subs'[s] = x /\ subs'[s] # NoSub
        /\ \A t \in SubIds \ {s} : subs'[t] = subs[t]
    BY <1>0, SubsReplaced
  <1>2. contextSubs' \in [Contexts -> SUBSET SubIds]
    BY <1>0 DEF Reindexed
  <1>3. TypeOK'
    BY <1>0, <1>1, <1>2 DEF TypeOK, life
  <1>4. IndexMatches'
    <2> SUFFICES ASSUME NEW c \in Contexts
                 PROVE  contextSubs'[c] =
                          {t \in subscriptions' : c \in subs'[t].contexts}
      BY DEF IndexMatches
    <2>1. contextSubs[c] = {t \in subscriptions : c \in subs[t].contexts}
      BY DEF RouterInv, RegistryCoherent, IndexMatches
    <2>2. contextSubs'[c] = (contextSubs[c] \ (IF c \in old THEN {s} ELSE {}))
                             \cup (IF c \in ctxs THEN {s} ELSE {})
      BY DEF Reindexed
    <2>3. s \in contextSubs'[c] <=> c \in ctxs
      BY <2>1, <2>2
    <2>4. \A t \in SubIds \ {s} : t \in contextSubs'[c] <=>
              t \in subscriptions /\ c \in subs[t].contexts
      BY <2>1, <2>2
    <2> QED BY <1>0, <1>1, <1>2, <2>3, <2>4
  <1>5. OpenIffRegistered'
    BY <1>0, <1>1 DEF RouterInv, RegistryCoherent, OpenIffRegistered
  <1>6. RouteInv'
    <2>1. route # NoRoute => route \in Route
      BY <1>0 DEF TypeOK
    <2> QED BY <1>0, <1>1, <2>1 DEF RouteInv, Route
  <1> QED BY <1>3, <1>4, <1>5, <1>6 DEF RouterInv, RegistryCoherent

\* The body of Unsubscribe, for Unsubscribe itself and for the idle sweep.
LEMMA UnregisterInv ==
  ASSUME RouterInv, NEW s \in SubIds, Unregister(s), cleanup' \in Cleanup \cup {NoCleanup},
         UNCHANGED <<clock, published, taken, life, route, crashed>>
  PROVE  RouterInv'
  <1>0. /\ TypeOK /\ RouteInv /\ subscriptions \subseteq SubIds
        /\ contextSubs \in [Contexts -> SUBSET SubIds]
    BY DEF RouterInv, TypeOK
  <1>1. CASE s \notin subscriptions
    <2>1. UNCHANGED registry
      BY <1>1 DEF Unregister
    <2>2. TypeOK'
      BY <1>0, <2>1 DEF TypeOK, registry, life, Buffered
    <2> QED BY <2>1, <2>2, QuietRouterInv
  <1>2. CASE s \in subscriptions
    <2> DEFINE x == [subs[s] EXCEPT !.open = FALSE]
    <2>1. WellFormed(subs[s]) /\ subs[s] # NoSub
      BY <1>2, RegisteredIsSub
    <2>2. WellFormed(x) /\ ~x.open
      BY <2>1 DEF WellFormed, Subscription
    <2>3. /\ subscriptions' = subscriptions \ {s}
          /\ contextSubs' = Reindexed(s, subs[s].contexts, {})
          /\ subs' = [subs EXCEPT ![s] = x]
      BY <1>0, <1>2 DEF Unregister, TypeOK
    <2> HIDE DEF x
    <2>4. /\ subs' \in [SubIds -> Subscription \cup {NoSub}]
          /\ \A t \in SubIds :
                 subs'[t] # NoSub => subs'[t].read <= Len(subs'[t].sent)
                                     /\ Buffered(t)' <= MaxBufferSize
          /\ subs'[s] = x /\ subs'[s] # NoSub
          /\ \A t \in SubIds \ {s} : subs'[t] = subs[t]
      BY <1>0, <2>2, <2>3, SubsReplaced
    <2>5. contextSubs' \in [Contexts -> SUBSET SubIds]
      BY <1>0, <2>3 DEF Reindexed
    <2>6. TypeOK'
      BY <1>0, <2>3, <2>4, <2>5 DEF TypeOK, life
    <2>7. IndexMatches'
      <3> SUFFICES ASSUME NEW c \in Contexts
                   PROVE  contextSubs'[c] =
                            {t \in subscriptions' : c \in subs'[t].contexts}
        BY DEF IndexMatches
      <3>1. contextSubs[c] = {t \in subscriptions : c \in subs[t].contexts}
        BY DEF RouterInv, RegistryCoherent, IndexMatches
      <3>2. contextSubs'[c] = contextSubs[c] \ (IF c \in subs[s].contexts THEN {s} ELSE {})
        BY <2>3 DEF Reindexed
      <3> QED BY <1>0, <2>3, <2>4, <3>1, <3>2
    <2>8. OpenIffRegistered'
      BY <1>0, <2>2, <2>3, <2>4 DEF RouterInv, RegistryCoherent, OpenIffRegistered
    <2>9. RouteInv'
      <3>1. route # NoRoute => route \in Route
        BY <1>0 DEF TypeOK
      <3> QED BY <1>0, <2>4, <3>1 DEF RouteInv, Route
    <2> QED BY <2>6, <2>7, <2>8, <2>9 DEF RouterInv, RegistryCoherent
  <1> QED BY <1>1, <1>2

\* Shutdown closes all channels and empties the maps.
LEMMA ShutdownInv ==
  ASSUME RouterInv, Shutdown
  PROVE  RouterInv'
  <1>0. /\ TypeOK /\ RouteInv /\ subscriptions \subseteq SubIds
    BY DEF RouterInv, TypeOK
  <1>1. /\ subscriptions' = {} /\ contextSubs' = [c \in Contexts |-> {}]
        /\ UNCHANGED <<clock, published, taken, life, route, cleanup, crashed>>
    BY DEF Shutdown
  <1>2. /\ subs' = [t \in SubIds |-> subs'[t]]
        /\ \A t \in SubIds : subs'[t] = IF t \in subscriptions
                                        THEN [subs[t] EXCEPT !.open = FALSE] ELSE subs[t]
    BY DEF Shutdown
  <1>3. ASSUME NEW t \in SubIds
        PROVE  /\ subs'[t] = NoSub \/ WellFormed(subs'[t])
               /\ ~subs'[t].open
               /\ subs[t] # NoSub => subs'[t] # NoSub
    <2>1. CASE t \in subscriptions
      <3>1. WellFormed(subs[t])
        BY <2>1, RegisteredIsSub
      <3>2. WellFormed(subs'[t]) /\ ~subs'[t].open
        BY <1>2, <2>1, <3>1 DEF WellFormed, Subscription
      <3> QED BY <3>2, SubscriptionIsNotNoSub DEF WellFormed
    <2>2. CASE t \notin subscriptions
      <3>1. subs'[t] = subs[t]
        BY <1>2, <2>2
      <3>2. ~subs[t].open
        BY <2>2 DEF RouterInv, RegistryCoherent, OpenIffRegistered
      <3> QED BY <1>0, <3>1, <3>2, WellFormedSubs
    <2> QED BY <2>1, <2>2
  <1>4. subs' \in [SubIds -> Subscription \cup {NoSub}]
    BY <1>2, <1>3 DEF WellFormed
  <1>5. ASSUME NEW t \in SubIds, subs'[t] # NoSub
        PROVE  subs'[t].read <= Len(subs'[t].sent) /\ Buffered(t)' <= MaxBufferSize
    BY <1>3, <1>5 DEF WellFormed, Buffered
  <1>6. TypeOK'
    BY <1>0, <1>1, <1>4, <1>5 DEF TypeOK, life
  <1>7. RegistryCoherent'
    BY <1>1, <1>3 DEF RegistryCoherent, IndexMatches, OpenIffRegistered
  <1>8. RouteInv'
    <2>1. route # NoRoute => route \in Route
      BY <1>0 DEF TypeOK
    <2> QED BY <1>0, <1>1, <1>3, <2>1 DEF RouteInv, Route
  <1> QED BY <1>6, <1>7, <1>8 DEF RouterInv

\* Every step preserves the inductive invariant.
LEMMA NextRouterInv == RouterInv /\ [Next]_vars => RouterInv'
  <1> SUFFICES ASSUME RouterInv, [Next]_vars PROVE RouterInv'
    OBVIOUS
  <1>0. TypeOK
    BY DEF RouterInv
  <1>1. CASE Tick
    <2>1. TypeOK'
      BY <1>0, <1>1 DEF Tick, TypeOK, registry, life, Buffered
    <2> QED BY <1>1, <2>1, QuietRouterInv DEF Tick
  <1>2. CASE Publish
    <2>1. published' \in 0..Len(Traffic) /\ taken' \in 0..published'
      BY <1>0, <1>2, TrafficAssumption DEF Publish, TypeOK
    <2>2. TypeOK'
      BY <1>0, <1>2, <2>1 DEF Publish, TypeOK, registry, life, Buffered
    <2> QED BY <1>2, <2>2, QuietRouterInv DEF Publish
  <1>3. CASE Cancel
    <2>1. TypeOK'
      BY <1>0, <1>3 DEF Cancel, TypeOK, registry, Buffered
    <2> QED BY <1>3, <2>1, QuietRouterInv DEF Cancel
  <1>4. CASE Stop
    <2>1. TypeOK'
      BY <1>0, <1>4 DEF Stop, TypeOK, registry, Buffered
    <2> QED BY <1>4, <2>1, QuietRouterInv DEF Stop
  <1>5. CASE CleanupBegin
    <2>1. cleanup' \in Cleanup
      BY <1>0, <1>5 DEF CleanupBegin, TypeOK, Cleanup
    <2>2. TypeOK'
      BY <1>0, <1>5, <2>1 DEF CleanupBegin, TypeOK, registry, life, Buffered
    <2> QED BY <1>5, <2>2, QuietRouterInv DEF CleanupBegin
  <1>6. ASSUME NEW s \in SubIds, CleanupLook(s) PROVE RouterInv'
    <2>1. cleanup \in Cleanup
      BY <1>0, <1>6 DEF CleanupLook, TypeOK
    <2>2. cleanup' \in Cleanup \cup {NoCleanup}
      BY <1>6, <2>1 DEF CleanupLook, Cleanup
    <2>3. TypeOK'
      BY <1>0, <1>6, <2>2 DEF CleanupLook, TypeOK, registry, life, Buffered
    <2> QED BY <1>6, <2>3, QuietRouterInv DEF CleanupLook
  <1>7. ASSUME NEW s \in SubIds, CleanupRemove(s) PROVE RouterInv'
    <2>1. cleanup \in Cleanup
      BY <1>0, <1>7 DEF CleanupRemove, TypeOK
    <2>2. cleanup' \in Cleanup \cup {NoCleanup}
      BY <1>7, <2>1 DEF CleanupRemove, Cleanup
    <2> QED BY <1>7, <2>2, UnregisterInv DEF CleanupRemove
  <1>8. ASSUME NEW s \in SubIds, Unsubscribe(s) PROVE RouterInv'
    <2>1. cleanup' \in Cleanup \cup {NoCleanup}
      BY <1>0, <1>8 DEF Unsubscribe, TypeOK
    <2> QED BY <1>8, <2>1, UnregisterInv DEF Unsubscribe
  <1>9. ASSUME NEW s \in SubIds, Receive(s) PROVE RouterInv'
    <2> DEFINE x == [subs[s] EXCEPT !.read = @ + 1]
    <2>1. WellFormed(subs[s]) /\ subs[s] # NoSub /\ Len(subs[s].sent) - subs[s].read > 0
      BY <1>0, <1>9, WellFormedSubs DEF Receive, Buffered
    <2>2. Len(subs[s].sent) \in Nat /\ subs[s].read \in Nat
      BY <2>1 DEF WellFormed, Subscription
    <2>a. subs[s] \in Subscription /\ subs[s].read + 1 \in Nat
      BY <2>1, <2>2 DEF WellFormed
    <2>3. /\ x \in Subscription /\ x.read = subs[s].read + 1 /\ x.sent = subs[s].sent
          /\ x.contexts = subs[s].contexts /\ x.open = subs[s].open
      BY <2>a DEF Subscription
    <2>4. subs' = [subs EXCEPT ![s] = x]
      BY <1>0, <1>9 DEF Receive, TypeOK
    <2> HIDE DEF x
    <2>5. WellFormed(x)
      BY <2>1, <2>2, <2>3, SizesAssumption DEF WellFormed
    <2>6. RegistryCoherent' /\ \A t \in SubIds : subs'[t] # NoSub <=> subs[t] # NoSub
      BY <1>9, <2>1, <2>3, <2>4, <2>5, SubTouched DEF Receive
    <2>7. TypeOK'
      BY <1>0, <1>9, <2>4, <2>5, SubsReplaced DEF Receive, TypeOK, life
    <2>8. RouteInv'
      <3>1. route # NoRoute => route \in Route
        BY <1>0 DEF TypeOK
      <3> QED BY <1>9, <2>6, <3>1 DEF Receive, RouterInv, RouteInv, Route
    <2> QED BY <2>6, <2>7, <2>8 DEF RouterInv
  <1>10. ASSUME NEW s \in SubIds, NEW ctxs \in SUBSET Contexts, Subscribe(s, ctxs)
         PROVE  RouterInv'
    <2> DEFINE x == [contexts |-> ctxs, open |-> TRUE, last |-> clock, sent |-> <<>>,
                     read |-> 0, lost |-> {}, joined |-> Joined(s, ctxs)]
    <2>1. x \in Subscription
      BY <1>0, JoinedType, EmptySeq DEF Subscription, TypeOK
    <2>2. WellFormed(x)
      BY <2>1, SizesAssumption, EmptySeq DEF WellFormed
    <2>3. s \notin subscriptions
      BY <1>10, RegisteredIsSub DEF Subscribe
    <2>4. x.contexts = ctxs /\ x.open /\ subs' = [subs EXCEPT ![s] = x]
      BY <1>10 DEF Subscribe
    <2> HIDE DEF x
    <2> QED BY <1>10, <2>2, <2>3, <2>4, RegisterInv DEF Subscribe
  <1>11. ASSUME NEW s \in SubIds, NEW ctxs \in SUBSET Contexts, UpdateSubscription(s, ctxs)
         PROVE  RouterInv'
    <2> DEFINE x == [subs[s] EXCEPT !.contexts = ctxs, !.last = clock,
                                    !.joined = Joined(s, ctxs)]
    <2>1. s \in subscriptions /\ WellFormed(subs[s]) /\ subs[s].open
      BY <1>11, RegisteredIsSub DEF UpdateSubscription
    <2>2. WellFormed(x) /\ x.contexts = ctxs /\ x.open
      BY <1>0, <2>1, JoinedType DEF WellFormed, Subscription, TypeOK
    <2>3. /\ subs' = [subs EXCEPT ![s] = x]
          /\ contextSubs' = Reindexed(s, subs[s].contexts, ctxs)
          /\ subscriptions' = subscriptions \cup {s}
          /\ UNCHANGED <<clock, published, taken, life, route, cleanup, crashed>>
      BY <1>0, <1>11, <2>1 DEF UpdateSubscription, TypeOK
    <2> HIDE DEF x
    <2> QED BY <2>2, <2>3, RegisterInv
  <1>12. CASE UNCHANGED vars
    <2>1. UNCHANGED <<clock, published, taken, life, registry, route, cleanup, crashed>>
      BY <1>12 DEF vars
    <2>2. TypeOK'
      BY <1>0, <2>1 DEF TypeOK, registry, life, Buffered
    <2> QED BY <2>1, <2>2, QuietRouterInv
  <1> QED BY <1>1, <1>2, <1>3, <1>4, <1>5, <1>6, <1>7, <1>8, <1>9, <1>10, <1>11, <1>12,
             RouteStepInv, ShutdownInv DEF Next, Step

\* The router's state is well formed in every reachable state: no channel of a
\* subscriber ever holds more than MaxBufferSize units (NewSubscription's
\* channel), whoever reads or does not.
THEOREM RouterTypeCorrect == Spec => []TypeOK
  <1>1. RouterInv => TypeOK
    BY DEF RouterInv
  <1> QED BY <1>1, InitRouterInv, NextRouterInv, PTL DEF Spec

\* r.subscriptions, r.contextSubs and the channels agree in every reachable state,
\* whichever of Subscribe, UpdateSubscription, Unsubscribe, the idle sweep and
\* Shutdown came in which order.
THEOREM RegistryStaysCoherent == Spec => []RegistryCoherent
  <1>1. RouterInv => RegistryCoherent
    BY DEF RouterInv
  <1> QED BY <1>1, InitRouterInv, NextRouterInv, PTL DEF Spec

----------------------------------------------------------------------------
\* The order of delivery

\* The subscribers that the unit being routed may still be sent to.
ToServe == IF route = NoRoute THEN {}
           ELSE route.ids \cup (IF route.stage = "send" THEN {route.sub} ELSE {})

\* Channels hold units that were taken, and those of the subscribers still to be
\* served only earlier ones than the unit being routed.
SentBefore ==
    \A s \in SubIds : subs[s] # NoSub =>
        \A i \in 1..Len(subs[s].sent) :
            subs[s].sent[i] <= taken /\ (s \in ToServe => subs[s].sent[i] < taken)

OrderInv == DeliveredInOrder /\ SentBefore

\* What a step may do to the channels without touching the order: fill none, and
\* make new ones empty.
NothingSent ==
    \A t \in SubIds : \/ subs'[t] = NoSub
                      \/ subs'[t].sent = <<>>
                      \/ subs[t] # NoSub /\ subs'[t].sent = subs[t].sent

\* Steps that send nothing, take nothing, and serve nobody anew, keep the order.
LEMMA NothingSentOrder ==
  ASSUME RouterInv, OrderInv, NothingSent, taken' = taken, ToServe' \subseteq ToServe
  PROVE  OrderInv'
  <1> SUFFICES ASSUME NEW t \in SubIds, subs'[t] # NoSub
               PROVE  /\ \A i, j \in 1..Len(subs'[t].sent) :
                            i < j => subs'[t].sent[i] < subs'[t].sent[j]
                      /\ \A i \in 1..Len(subs'[t].sent) :
                            /\ subs'[t].sent[i] <= taken
                            /\ t \in ToServe => subs'[t].sent[i] < taken
    BY DEF OrderInv, DeliveredInOrder, SentBefore
  <1>1. CASE subs'[t].sent = <<>>
    <2>1. 1..Len(subs'[t].sent) = {}
      BY <1>1
    <2> QED BY <2>1
  <1>2. CASE subs[t] # NoSub /\ subs'[t].sent = subs[t].sent
    BY <1>2 DEF OrderInv, DeliveredInOrder, SentBefore
  <1> QED BY <1>1, <1>2 DEF NothingSent

\* Going on with some of the IDs left serves nobody anew.
LEMMA RestServes ==
  ASSUME route \in Route, NEW rest \in SUBSET route.ids, RouteRest(rest)
  PROVE  ToServe' \subseteq ToServe
  <1>1. route # NoRoute
    BY DEF Route
  <1>2. CASE rest = {}
    BY <1>2 DEF RouteRest, ToServe
  <1>3. CASE rest # {}
    <2>1. route' = [route EXCEPT !.stage = "pick", !.ids = rest, !.sub = "none"]
      BY <1>3 DEF RouteRest
    <2>2. route'.ids = rest /\ route'.stage = "pick"
      BY <2>1 DEF Route
    <2>3. ToServe' \subseteq rest
      BY <2>2 DEF ToServe
    <2>4. route.ids \subseteq ToServe
      BY <1>1 DEF ToServe
    <2> QED BY <2>3, <2>4
  <1> QED BY <1>2, <1>3

\* Taking a unit, looking up a subscriber and marking it as served keep the order,
\* and so does a send, whose unit is later than all in the channel.
LEMMA RouteStepOrder ==
  ASSUME RouterInv, OrderInv,
         RouteBegin \/ RouteSend \/ RouteTouch \/ \E s \in SubIds : RoutePick(s)
  PROVE  OrderInv'
  <1>0. /\ TypeOK /\ RouteInv /\ taken \in Nat /\ subs \in [SubIds -> Subscription \cup {NoSub}]
        /\ route \in Route \cup {NoRoute}
    BY TrafficAssumption DEF RouterInv, TypeOK
  <1>a. ASSUME NEW t \in SubIds, subs[t] # NoSub
        PROVE  subs[t] \in Subscription /\ subs[t].sent \in Seq(Nat) /\ Len(subs[t].sent) \in Nat
    BY <1>0, <1>a DEF Subscription
  <1>1. CASE RouteBegin
    <2>1. taken' = taken + 1 /\ subs' = subs
      BY <1>1 DEF RouteBegin, registry
    <2>2. DeliveredInOrder'
      BY <2>1 DEF OrderInv, DeliveredInOrder
    <2>3. SentBefore'
      <3> SUFFICES ASSUME NEW t \in SubIds, subs[t] # NoSub, NEW i \in 1..Len(subs[t].sent)
                   PROVE  subs[t].sent[i] < taken + 1
        BY <1>0, <1>a, <2>1, ElementOfSeq DEF SentBefore
      <3>1. subs[t].sent[i] <= taken
        BY DEF OrderInv, SentBefore
      <3>2. subs[t].sent[i] \in Nat
        BY <1>a, ElementOfSeq
      <3> QED BY <1>0, <3>1, <3>2
    <2> QED BY <2>2, <2>3 DEF OrderInv
  <1>2. ASSUME NEW s \in SubIds, RoutePick(s) PROVE OrderInv'
    <2>1. subs' = subs /\ taken' = taken /\ route.stage = "pick" /\ s \in route.ids
      BY <1>2 DEF RoutePick, registry
    <2>2. route \in Route /\ route # NoRoute
      BY <1>0, <2>1
    <2>3. ToServe' \subseteq ToServe
      <3>1. CASE s \in subscriptions
        <4>1. route' = [route EXCEPT !.stage = "send", !.sub = s, !.ids = route.ids \ {s}]
          BY <1>2, <3>1 DEF RoutePick
        <4>2. route'.ids = route.ids \ {s} /\ route'.sub = s
          BY <2>2, <4>1 DEF Route
        <4>3. ToServe' \subseteq route.ids
          BY <2>1, <4>2 DEF ToServe
        <4> QED BY <2>2, <4>3 DEF ToServe
      <3>2. CASE s \notin subscriptions
        <4>1. RouteRest(route.ids \ {s})
          BY <1>2, <3>2 DEF RoutePick
        <4> QED BY <2>2, <4>1, RestServes
      <3> QED BY <3>1, <3>2
    <2>4. NothingSent
      BY <2>1 DEF NothingSent
    <2> QED BY <2>1, <2>3, <2>4, NothingSentOrder
  <1>3. CASE RouteTouch
    <2>1. taken' = taken /\ route.stage = "touch" /\ RouteRest(route.ids)
      BY <1>3 DEF RouteTouch
    <2>2. route \in Route /\ route # NoRoute
      BY <1>0, <2>1
    <2>3. ToServe' \subseteq ToServe
      BY <2>1, <2>2 DEF RouteRest, ToServe, Route
    <2>4. NothingSent
      <3>1. route.sub \in SubIds /\ subs[route.sub] # NoSub
        BY <1>0, <2>1, <2>2 DEF RouteInv
      <3> QED BY <1>0, <1>a, <1>3, <3>1 DEF RouteTouch, NothingSent, Subscription
    <2> QED BY <2>1, <2>3, <2>4, NothingSentOrder
  <1>4. CASE RouteSend
    <2> DEFINE s == route.sub
    <2>1. taken' = taken /\ route.stage = "send"
      BY <1>4 DEF RouteSend
    <2>2. /\ route \in Route /\ route # NoRoute /\ s \in SubIds /\ s \notin route.ids
          /\ subs[s] # NoSub /\ route.event = taken /\ s \in ToServe
      BY <1>0, <2>1 DEF RouteInv, ToServe
    <2>3. CASE subs[s].open /\ ~Full(s)
      <3>1. /\ subs' = [subs EXCEPT ![s] = [subs[s] EXCEPT !.sent = Append(@, taken)]]
            /\ route' = [route EXCEPT !.stage = "touch"]
        BY <1>0, <1>4, <2>2, <2>3 DEF RouteSend
      <3>2. /\ subs'[s].sent = Append(subs[s].sent, taken)
            /\ \A t \in SubIds \ {s} : subs'[t] = subs[t]
            /\ s \notin ToServe' /\ ToServe' \subseteq ToServe
        BY <1>0, <1>a, <2>1, <2>2, <3>1 DEF ToServe, Route, Subscription
      <3> HIDE DEF s
      <3> DEFINE old == subs[s].sent
                 new == subs'[s].sent
      <3>3. /\ Len(old) \in Nat /\ Len(new) = Len(old) + 1
            /\ \A i \in 1..Len(old) : new[i] = old[i] /\ old[i] \in Nat
            /\ new[Len(old) + 1] = taken
        BY <1>0, <1>a, <2>2, <3>2, AppendProperties, ElementOfSeq
      <3>4. /\ \A i \in 1..Len(old) : old[i] < taken
            /\ \A i, j \in 1..Len(old) : i < j => old[i] < old[j]
        BY <2>2 DEF OrderInv, SentBefore, DeliveredInOrder
      <3>5. \A i \in 1..Len(new) : i \in 1..Len(old) \/ i = Len(old) + 1
        BY <3>3
      <3> HIDE DEF old, new
      <3>6. \A i, j \in 1..Len(new) : i < j => new[i] < new[j]
        BY <1>0, <3>3, <3>4, <3>5
      <3>7. \A i \in 1..Len(new) : new[i] <= taken
        BY <1>0, <3>3, <3>4, <3>5
      <3>8. DeliveredInOrder'
        BY <3>2, <3>6 DEF OrderInv, DeliveredInOrder, new
      <3>9. SentBefore'
        BY <2>1, <3>2, <3>7 DEF OrderInv, SentBefore, new
      <3> QED BY <3>8, <3>9 DEF OrderInv
    <2>4. CASE ~subs[s].open \/ Full(s)
      <3>1. CASE UNCHANGED <<subs, route>>
        BY <2>1, <3>1, NothingSentOrder DEF NothingSent, ToServe
      <3>2. CASE /\ subs' = [subs EXCEPT ![s].lost = @ \cup {route.event}]
                 /\ RouteRest(route.ids)
        <4>1. subs[s] \in Subscription
          BY <1>a, <2>2
        <4>2. subs'[s].sent = subs[s].sent
          BY <1>0, <2>2, <3>2, <4>1 DEF Subscription
        <4>3. \A t \in SubIds \ {s} : subs'[t] = subs[t]
          BY <1>0, <3>2
        <4>4. NothingSent
          BY <2>2, <4>2, <4>3 DEF NothingSent
        <4>5. ToServe' \subseteq ToServe
          BY <2>2, <3>2, RestServes
        <4> QED BY <2>1, <4>4, <4>5, NothingSentOrder
      <3> QED BY <1>4, <2>4, <3>1, <3>2 DEF RouteSend
    <2> QED BY <2>3, <2>4
  <1> QED BY <1>1, <1>2, <1>3, <1>4

\* The other steps leave routing alone and send nothing.
LEMMA OtherSteps ==
  ASSUME RouterInv, [Next]_vars
  PROVE  \/ RouteBegin \/ RouteSend \/ RouteTouch \/ \E s \in SubIds : RoutePick(s)
         \/ NothingSent /\ UNCHANGED <<taken, route>>
  <1>0. subs \in [SubIds -> Subscription \cup {NoSub}]
    BY DEF RouterInv, TypeOK
  <1>1. CASE Tick \/ Publish \/ Cancel \/ Stop \/ CleanupBegin \/ UNCHANGED vars
             \/ \E s \in SubIds : CleanupLook(s)
    BY <1>1 DEF Tick, Publish, Cancel, Stop, CleanupBegin, CleanupLook, vars, registry,
                NothingSent
  <1>2. ASSUME NEW s \in SubIds, Receive(s) PROVE NothingSent /\ UNCHANGED <<taken, route>>
    BY <1>0, <1>2 DEF Receive, NothingSent, Subscription
  <1>3. ASSUME NEW s \in SubIds, Unregister(s) PROVE NothingSent
    <2>1. CASE s \in subscriptions
      <3>1. subs[s] # NoSub /\ subs[s] \in Subscription
        BY <1>0, <2>1, RegisteredIsSub
      <3>2. subs' = [subs EXCEPT ![s].open = FALSE]
        BY <1>3, <2>1 DEF Unregister
      <3>3. subs'[s].sent = subs[s].sent
        BY <1>0, <3>1, <3>2 DEF Subscription
      <3>4. \A t \in SubIds \ {s} : subs'[t] = subs[t]
        BY <1>0, <3>2
      <3> QED BY <3>1, <3>3, <3>4 DEF NothingSent
    <2>2. CASE s \notin subscriptions
      BY <1>3, <2>2 DEF Unregister, NothingSent, registry
    <2> QED BY <2>1, <2>2
  <1>4. ASSUME NEW s \in SubIds, Unsubscribe(s) \/ CleanupRemove(s)
        PROVE  NothingSent /\ UNCHANGED <<taken, route>>
    BY <1>3, <1>4 DEF Unsubscribe, CleanupRemove
  <1>5. ASSUME NEW s \in SubIds, NEW ctxs \in SUBSET Contexts, Subscribe(s, ctxs)
        PROVE  NothingSent /\ UNCHANGED <<taken, route>>
    BY <1>0, <1>5 DEF Subscribe, NothingSent
  <1>6. ASSUME NEW s \in SubIds, NEW ctxs \in SUBSET Contexts, UpdateSubscription(s, ctxs)
        PROVE  NothingSent /\ UNCHANGED <<taken, route>>
    BY <1>0, <1>6, RegisteredIsSub DEF UpdateSubscription, NothingSent, Subscription
  <1>7. CASE Shutdown
    BY <1>0, <1>7, RegisteredIsSub DEF Shutdown, NothingSent, Subscription
  <1> QED BY <1>1, <1>2, <1>4, <1>5, <1>6, <1>7 DEF Next, Step

\* Every subscriber gets the units of the stream in their order and none twice,
\* whatever happens to its subscription while routeEvent serves a unit.
THEOREM DeliveryInOrder == Spec => []DeliveredInOrder
  <1>1. Init => OrderInv
    BY DEF Init, OrderInv, DeliveredInOrder, SentBefore
  <1>2. RouterInv /\ OrderInv /\ [Next]_vars => OrderInv'
    <2> SUFFICES ASSUME RouterInv, OrderInv, [Next]_vars PROVE OrderInv'
      OBVIOUS
    <2>1. CASE NothingSent /\ UNCHANGED <<taken, route>>
      <3>1. ToServe' = ToServe
        BY <2>1 DEF ToServe
      <3> QED BY <2>1, <3>1, NothingSentOrder
    <2> QED BY <2>1, OtherSteps, RouteStepOrder
  <1>3. OrderInv => DeliveredInOrder
    BY DEF OrderInv
  <1> QED BY <1>1, <1>2, <1>3, InitRouterInv, NextRouterInv, PTL DEF Spec

----------------------------------------------------------------------------
\* Nobody is missed

\* Work unit n is in the channel of a subscription x.
Got(x, n) == \E i \in 1..Len(x.sent) : x.sent[i] = n

\* It is there, or was dropped because the channel was full.
Settled(x, n) == Got(x, n) \/ n \in x.lost

\* It belongs to a context that x was subscribed to when it was taken.
Due(x, n) == Traffic[n] \in x.contexts /\ n > x.joined[Traffic[n]]

\* It is being routed, with s still to be served.
InHand(s, n) == route # NoRoute /\ route.event = n /\ s \in route.ids \cup {route.sub}

\* routeEvent marks a subscription as used after it has sent to its channel, and
\* has no subscription in its hands when it looks for the next one.
TouchInv ==
    route # NoRoute => /\ route.stage = "pick" => route.sub = "none"
                       /\ route.stage = "touch" => Got(subs[route.sub], route.event)

LossInv == NoSilentLoss /\ TouchInv

\* No work unit is missed by a step that takes none, gives no subscription more
\* to receive, takes nothing back and lets go only of subscribers it has served.
LEMMA NothingMissed ==
  ASSUME LossInv, taken' = taken,
         \A t \in subscriptions', n \in 1..taken :
            Due(subs'[t], n) => t \in subscriptions /\ Due(subs[t], n),
         \A t \in subscriptions, n \in 1..taken :
            Settled(subs[t], n) => Settled(subs'[t], n),
         \A t \in subscriptions, n \in 1..taken :
            InHand(t, n) => InHand(t, n)' \/ t \notin subscriptions' \/ Settled(subs'[t], n)
  PROVE  NoSilentLoss'
  <1> SUFFICES ASSUME NEW t \in subscriptions', NEW n \in 1..taken, Due(subs'[t], n)
               PROVE  Settled(subs'[t], n) \/ InHand(t, n)'
    BY DEF NoSilentLoss, Due, Settled, Got, InHand
  <1>1. t \in subscriptions /\ Due(subs[t], n)
    OBVIOUS
  <1>2. Settled(subs[t], n) \/ InHand(t, n)
    BY <1>1 DEF LossInv, NoSilentLoss, Due, Settled, Got, InHand
  <1> QED BY <1>1, <1>2

\* The same for steps that leave routing alone.
LEMMA NothingMissedElsewhere ==
  ASSUME RouterInv, LossInv, UNCHANGED <<taken, route>>,
         \A t \in subscriptions', n \in 1..taken :
            Due(subs'[t], n) => t \in subscriptions /\ Due(subs[t], n),
         \A t \in SubIds : subs[t] # NoSub =>
            subs'[t].sent = subs[t].sent /\ subs'[t].lost = subs[t].lost
  PROVE  LossInv'
  <1>1. ASSUME NEW t \in SubIds, subs[t] # NoSub, NEW n
        PROVE  (Got(subs'[t], n) <=> Got(subs[t], n)) /\ (Settled(subs'[t], n) <=> Settled(subs[t], n))
    BY <1>1 DEF Got, Settled
  <1>2. \A t \in subscriptions, n \in 1..taken : Settled(subs[t], n) => Settled(subs'[t], n)
    BY <1>1, RegisteredIsSub
  <1>3. \A t, n : InHand(t, n) => InHand(t, n)'
    BY DEF InHand
  <1>4. NoSilentLoss'
    BY <1>2, <1>3, NothingMissed
  <1>5. TouchInv'
    <2> SUFFICES ASSUME route # NoRoute, route.stage = "touch"
                 PROVE  Got(subs'[route.sub], route.event)
      BY DEF LossInv, TouchInv
    <2>1. route.sub \in SubIds /\ subs[route.sub] # NoSub
      BY DEF RouterInv, RouteInv
    <2>2. Got(subs[route.sub], route.event)
      BY DEF LossInv, TouchInv
    <2> QED BY <1>1, <2>1, <2>2
  <1> QED BY <1>4, <1>5 DEF LossInv

\* What RouteRest leaves in routeEvent's hands.
LEMMA RestInHand ==
  ASSUME route \in Route, NEW rest \in SUBSET route.ids, RouteRest(rest)
  PROVE  /\ \A t \in rest : \A n : n = route.event => InHand(t, n)'
         /\ route' # NoRoute => route'.stage = "pick" /\ route'.sub = "none"
  <1>1. CASE rest = {}
    BY <1>1 DEF RouteRest
  <1>2. CASE rest # {}
    <2>1. route' = [route EXCEPT !.stage = "pick", !.ids = rest, !.sub = "none"]
      BY <1>2 DEF RouteRest
    <2>2. /\ route'.ids = rest /\ route'.event = route.event /\ route'.stage = "pick"
          /\ route'.sub = "none"
      BY <2>1 DEF Route
    <2> QED BY <2>2 DEF InHand
  <1> QED BY <1>1, <1>2

\* A unit is taken: those who are due for it are the ones whose IDs are copied.
LEMMA RouteBeginLoss ==
  ASSUME RouterInv, LossInv, RouteBegin
  PROVE  LossInv'
  <1> DEFINE c == Traffic[taken + 1]
  <1>0. /\ taken \in Nat /\ taken' = taken + 1 /\ UNCHANGED registry /\ route = NoRoute
        /\ route' = IF c = NoContext \/ contextSubs[c] = {} THEN NoRoute
                    ELSE [stage |-> "pick", event |-> taken + 1,
                          ids |-> contextSubs[c], sub |-> "none"]
    BY TrafficAssumption DEF RouteBegin, RouterInv, TypeOK
  <1> HIDE DEF c
  <1>1. TouchInv'
    BY <1>0 DEF TouchInv
  <1>2. ASSUME NEW t \in subscriptions, NEW n \in 1..(taken + 1), Due(subs[t], n)
        PROVE  Settled(subs[t], n) \/ InHand(t, n)'
    <2>1. CASE n \in 1..taken
      BY <1>0, <1>2, <2>1 DEF LossInv, NoSilentLoss, Due, Settled, Got
    <2>2. CASE n = taken + 1
      <3>1. t \in SubIds /\ WellFormed(subs[t])
        BY RegisteredIsSub
      <3>2. c \in subs[t].contexts
        BY <1>2, <2>2 DEF Due, c
      <3>3. c \in Contexts
        BY <3>1, <3>2 DEF WellFormed, Subscription
      <3>4. t \in contextSubs[c]
        BY <3>2, <3>3 DEF RouterInv, RegistryCoherent, IndexMatches
      <3> QED BY <1>0, <2>2, <3>3, <3>4, ContextsAssumption DEF InHand
    <2> QED BY <1>0, <2>1, <2>2
  <1>3. NoSilentLoss'
    BY <1>0, <1>2 DEF NoSilentLoss, Due, Settled, Got, InHand, registry
  <1> QED BY <1>1, <1>3 DEF LossInv

\* Looking up the next subscriber takes it in hand, or skips one that is gone.
LEMMA RoutePickLoss ==
  ASSUME RouterInv, LossInv, NEW s \in SubIds, RoutePick(s)
  PROVE  LossInv'
  <1>0. /\ UNCHANGED <<taken, registry>> /\ route # NoRoute /\ route.stage = "pick"
        /\ s \in route.ids /\ route \in Route /\ route.sub = "none"
        /\ subscriptions \subseteq SubIds
    BY DEF RoutePick, RouterInv, TypeOK, LossInv, TouchInv
  <1>1. CASE s \in subscriptions
    <2>1. route' = [route EXCEPT !.stage = "send", !.sub = s, !.ids = route.ids \ {s}]
      BY <1>1 DEF RoutePick
    <2>2. /\ route'.stage = "send" /\ route'.sub = s /\ route'.ids = route.ids \ {s}
          /\ route'.event = route.event /\ route' # NoRoute
      BY <1>0, <2>1 DEF Route
    <2>3. \A t \in subscriptions : \A n : InHand(t, n) => InHand(t, n)'
      BY <1>0, <2>2, SubIdsAssumption DEF InHand
    <2>4. TouchInv'
      BY <2>2 DEF TouchInv
    <2> QED BY <1>0, <2>3, <2>4, NothingMissed DEF LossInv, registry
  <1>2. CASE s \notin subscriptions
    <2>1. RouteRest(route.ids \ {s})
      BY <1>2 DEF RoutePick
    <2>2. /\ \A t \in route.ids \ {s} : \A n : n = route.event => InHand(t, n)'
          /\ route' # NoRoute => route'.stage = "pick" /\ route'.sub = "none"
      BY <1>0, <2>1, RestInHand
    <2>3. \A t \in subscriptions : \A n : InHand(t, n) => InHand(t, n)'
      <3> SUFFICES ASSUME NEW t \in subscriptions, NEW n, InHand(t, n) PROVE InHand(t, n)'
        OBVIOUS
      <3>1. n = route.event /\ t \in route.ids \ {s}
        BY <1>0, <1>2, SubIdsAssumption DEF InHand
      <3> QED BY <2>2, <3>1
    <2>4. TouchInv'
      BY <2>2 DEF TouchInv
    <2> QED BY <1>0, <2>3, <2>4, NothingMissed DEF LossInv, registry
  <1> QED BY <1>1, <1>2

\* A subscription in hand is let go of once it has the unit or has lost it.
LEMMA RouteSendLoss ==
  ASSUME RouterInv, LossInv, RouteSend \/ RouteTouch
  PROVE  LossInv'
  <1> DEFINE s == route.sub
             n0 == route.event
  <1>0. /\ route \in Route /\ route # NoRoute /\ s \in SubIds \ route.ids /\ subs[s] # NoSub
        /\ UNCHANGED <<taken, subscriptions>> /\ subscriptions \subseteq SubIds
        /\ subs \in [SubIds -> Subscription \cup {NoSub}]
        /\ route.stage \in {"send", "touch"}
    BY DEF RouteSend, RouteTouch, RouterInv, TypeOK, RouteInv
  <1>1. subs[s] \in Subscription /\ n0 \in Nat
    BY <1>0 DEF Route
  <1>2. ASSUME NEW x, subs' = [subs EXCEPT ![s] = x],
               x.contexts = subs[s].contexts, x.joined = subs[s].joined,
               \A n : Settled(subs[s], n) => Settled(x, n),
               \A t \in route.ids : \A n : n = n0 => InHand(t, n)',
               \A t, n : t = s /\ n = n0 => InHand(t, n)' \/ Settled(x, n), TouchInv'
        PROVE  LossInv'
    <2>1. subs'[s] = x /\ \A t \in SubIds \ {s} : subs'[t] = subs[t]
      BY <1>0, <1>2
    <2>2. \A t \in SubIds : \A n : /\ Due(subs'[t], n) => Due(subs[t], n)
                                   /\ Settled(subs[t], n) => Settled(subs'[t], n)
      BY <1>2, <2>1 DEF Due
    <2>3. ASSUME NEW t \in subscriptions, NEW n, InHand(t, n)
          PROVE  InHand(t, n)' \/ Settled(subs'[t], n)
      <3>1. n = n0 /\ (t \in route.ids \/ t = s)
        BY <2>3 DEF InHand
      <3> QED BY <1>2, <2>1, <3>1
    <2>4. NoSilentLoss'
      BY <1>0, <2>2, <2>3, NothingMissed
    <2> QED BY <1>2, <2>4 DEF LossInv
  <1>3. CASE RouteTouch
    <2> DEFINE x == [subs[s] EXCEPT !.last = clock]
    <2>1. subs' = [subs EXCEPT ![s] = x] /\ RouteRest(route.ids) /\ route.stage = "touch"
      BY <1>0, <1>3 DEF RouteTouch
    <2>2. /\ x.contexts = subs[s].contexts /\ x.joined = subs[s].joined
          /\ x.sent = subs[s].sent /\ x.lost = subs[s].lost
      BY <1>1 DEF Subscription
    <2>3. Got(subs[s], n0)
      BY <1>0, <2>1 DEF LossInv, TouchInv
    <2> HIDE DEF x
    <2>4. Settled(x, n0) /\ \A n : Settled(subs[s], n) => Settled(x, n)
      BY <2>2, <2>3 DEF Settled, Got
    <2>5. (\A t \in route.ids : \A n : n = n0 => InHand(t, n)') /\ TouchInv'
      BY <1>0, <2>1, RestInHand DEF TouchInv
    <2> QED BY <1>2, <2>1, <2>2, <2>4, <2>5
  <1>4. CASE RouteSend /\ subs[s].open /\ Full(s)
    <2> DEFINE x == [subs[s] EXCEPT !.lost = @ \cup {n0}]
    <2>1. subs' = [subs EXCEPT ![s] = x] /\ RouteRest(route.ids)
      BY <1>0, <1>4 DEF RouteSend
    <2>2. /\ x.contexts = subs[s].contexts /\ x.joined = subs[s].joined
          /\ x.sent = subs[s].sent /\ x.lost = subs[s].lost \cup {n0}
      BY <1>1 DEF Subscription
    <2> HIDE DEF x
    <2>3. Settled(x, n0) /\ \A n : Settled(subs[s], n) => Settled(x, n)
      BY <2>2 DEF Settled, Got
    <2>4. (\A t \in route.ids : \A n : n = n0 => InHand(t, n)') /\ TouchInv'
      BY <1>0, <2>1, RestInHand DEF TouchInv
    <2> QED BY <1>2, <2>1, <2>2, <2>3, <2>4
  <1>5. CASE RouteSend /\ subs[s].open /\ ~Full(s)
    <2> DEFINE x == [subs[s] EXCEPT !.sent = Append(@, n0)]
    <2>1. subs' = [subs EXCEPT ![s] = x] /\ route' = [route EXCEPT !.stage = "touch"]
      BY <1>0, <1>5 DEF RouteSend
    <2>2. /\ x.contexts = subs[s].contexts /\ x.joined = subs[s].joined
          /\ x.sent = Append(subs[s].sent, n0) /\ x.lost = subs[s].lost
          /\ subs[s].sent \in Seq(Nat)
      BY <1>1 DEF Subscription
    <2>3. /\ route'.stage = "touch" /\ route'.sub = s /\ route'.ids = route.ids
          /\ route'.event = n0 /\ route' # NoRoute
      BY <1>0, <2>1 DEF Route
    <2> HIDE DEF x
    <2>4. /\ Len(subs[s].sent) \in Nat /\ Len(x.sent) = Len(subs[s].sent) + 1
          /\ \A i \in 1..Len(subs[s].sent) : x.sent[i] = subs[s].sent[i]
          /\ x.sent[Len(subs[s].sent) + 1] = n0
      BY <1>1, <2>2, AppendProperties
    <2> DEFINE len == Len(subs[s].sent)
    <2>5. Got(x, n0) /\ \A n : Got(subs[s], n) => Got(x, n)
      <3>1. len + 1 \in 1..Len(x.sent) /\ \A i \in 1..len : i \in 1..Len(x.sent)
        BY <2>4
      <3>2. Got(x, n0)
        BY <2>4, <3>1 DEF Got
      <3>3. ASSUME NEW n, Got(subs[s], n) PROVE Got(x, n)
        BY <2>4, <3>1, <3>3 DEF Got
      <3> QED BY <3>2, <3>3
    <2>6. \A n : Settled(subs[s], n) => Settled(x, n)
      BY <2>2, <2>5 DEF Settled
    <2>7. \A t \in route.ids \cup {s} : \A n : n = n0 => InHand(t, n)'
      BY <2>3 DEF InHand
    <2>8. subs'[s] = x
      BY <1>0, <2>1
    <2>9. TouchInv'
      BY <2>3, <2>5, <2>8 DEF TouchInv
    <2> QED BY <1>2, <2>1, <2>2, <2>6, <2>7, <2>9
  <1>6. CASE RouteSend /\ ~subs[s].open
    <2>1. UNCHANGED <<subs, route>>
      BY <1>6 DEF RouteSend
    <2> QED BY <1>0, <2>1, NothingMissedElsewhere
  <1> QED BY <1>3, <1>4, <1>5, <1>6

\* The steps outside routeEvent: subscriptions begin with the units taken later,
\* keep their account when they are updated, and end.
LEMMA OtherStepsLoss ==
  ASSUME RouterInv, LossInv, [Next]_vars
  PROVE  \/ RouteBegin \/ RouteSend \/ RouteTouch \/ \E s \in SubIds : RoutePick(s)
         \/ LossInv'
  <1>0. /\ subs \in [SubIds -> Subscription \cup {NoSub}] /\ subscriptions \subseteq SubIds
        /\ taken \in Nat
    BY TrafficAssumption DEF RouterInv, TypeOK
  <1>1. CASE Tick \/ Publish \/ Cancel \/ Stop \/ CleanupBegin \/ UNCHANGED vars
             \/ \E s \in SubIds : CleanupLook(s)
    <2>1. UNCHANGED <<taken, route, subs, subscriptions>>
      BY <1>1 DEF Tick, Publish, Cancel, Stop, CleanupBegin, CleanupLook, vars, registry
    <2> QED BY <2>1, NothingMissedElsewhere
  <1>2. ASSUME NEW s \in SubIds, NEW x, subs[s] # NoSub, subs' = [subs EXCEPT ![s] = x],
               x.sent = subs[s].sent, x.lost = subs[s].lost,
               \A n \in 1..taken : Due(x, n) => Due(subs[s], n),
               subscriptions' \subseteq subscriptions, UNCHANGED <<taken, route>>
        PROVE  LossInv'
    <2>1. subs'[s] = x /\ \A t \in SubIds \ {s} : subs'[t] = subs[t]
      BY <1>0, <1>2
    <2>2. \A t \in SubIds : subs[t] # NoSub =>
             subs'[t].sent = subs[t].sent /\ subs'[t].lost = subs[t].lost
      BY <1>2, <2>1
    <2>3. \A t \in subscriptions', n \in 1..taken :
             Due(subs'[t], n) => t \in subscriptions /\ Due(subs[t], n)
      BY <1>0, <1>2, <2>1
    <2> QED BY <1>2, <2>2, <2>3, NothingMissedElsewhere
  <1>3. ASSUME NEW s \in SubIds, Receive(s) PROVE LossInv'
    <2> DEFINE x == [subs[s] EXCEPT !.read = @ + 1]
    <2>1. subs' = [subs EXCEPT ![s] = x] /\ subs[s] # NoSub /\ subs[s] \in Subscription
      BY <1>0, <1>3 DEF Receive
    <2>2. /\ x.contexts = subs[s].contexts /\ x.joined = subs[s].joined
          /\ x.sent = subs[s].sent /\ x.lost = subs[s].lost
      BY <2>1 DEF Subscription
    <2>3. UNCHANGED <<taken, route, subscriptions>>
      BY <1>3 DEF Receive
    <2> HIDE DEF x
    <2> QED BY <1>2, <2>1, <2>2, <2>3 DEF Due
  <1>4. ASSUME NEW s \in SubIds, Unsubscribe(s) \/ CleanupRemove(s) PROVE LossInv'
    <2>1. UNCHANGED <<taken, route>> /\ Unregister(s)
      BY <1>4 DEF Unsubscribe, CleanupRemove
    <2>2. CASE s \in subscriptions
      <3> DEFINE x == [subs[s] EXCEPT !.open = FALSE]
      <3>1. /\ subs' = [subs EXCEPT ![s] = x] /\ subs[s] # NoSub /\ subs[s] \in Subscription
            /\ subscriptions' \subseteq subscriptions
        BY <1>0, <2>1, <2>2, RegisteredIsSub DEF Unregister
      <3>2. /\ x.contexts = subs[s].contexts /\ x.joined = subs[s].joined
            /\ x.sent = subs[s].sent /\ x.lost = subs[s].lost
        BY <3>1 DEF Subscription
      <3> HIDE DEF x
      <3> QED BY <1>2, <2>1, <3>1, <3>2 DEF Due
    <2>3. CASE s \notin subscriptions
      BY <2>1, <2>3, NothingMissedElsewhere DEF Unregister, registry
    <2> QED BY <2>2, <2>3
  <1>5. ASSUME NEW s \in SubIds, NEW ctxs \in SUBSET Contexts, Subscribe(s, ctxs)
        PROVE  LossInv'
    <2>1. /\ subs[s] = NoSub /\ s \notin subscriptions /\ UNCHANGED <<taken, route>>
          /\ subscriptions' = subscriptions \cup {s}
      BY <1>5, RegisteredIsSub DEF Subscribe
    <2>2. subs'[s].contexts = ctxs /\ subs'[s].joined = Joined(s, ctxs)
          /\ \A t \in SubIds \ {s} : subs'[t] = subs[t]
      BY <1>0, <1>5 DEF Subscribe
    <2>3. \A c \in ctxs : Joined(s, ctxs)[c] = taken
      <3>1. \A c \in Contexts : s \notin contextSubs[c]
        BY <2>1 DEF RouterInv, RegistryCoherent, IndexMatches
      <3> QED BY <3>1 DEF Joined
    <2>4. \A n \in 1..taken : ~Due(subs'[s], n)
      BY <1>0, <2>2, <2>3 DEF Due
    <2>5. \A t \in SubIds : subs[t] # NoSub =>
             subs'[t].sent = subs[t].sent /\ subs'[t].lost = subs[t].lost
      BY <2>1, <2>2
    <2>6. \A t \in subscriptions', n \in 1..taken :
             Due(subs'[t], n) => t \in subscriptions /\ Due(subs[t], n)
      BY <1>0, <2>1, <2>2, <2>4
    <2> QED BY <2>1, <2>5, <2>6, NothingMissedElsewhere
  <1>6. ASSUME NEW s \in SubIds, NEW ctxs \in SUBSET Contexts, UpdateSubscription(s, ctxs)
        PROVE  LossInv'
    <2> DEFINE j == Joined(s, ctxs)
               x == [subs[s] EXCEPT !.contexts = ctxs, !.last = clock, !.joined = j]
    <2>1. /\ s \in subscriptions /\ subs' = [subs EXCEPT ![s] = x]
          /\ subs[s] # NoSub /\ subs[s] \in Subscription
          /\ UNCHANGED <<taken, route, subscriptions>>
      BY <1>0, <1>6, RegisteredIsSub DEF UpdateSubscription
    <2> HIDE DEF j
    <2>2. /\ x.contexts = ctxs /\ x.joined = j
          /\ x.sent = subs[s].sent /\ x.lost = subs[s].lost
      BY <2>1 DEF Subscription
    <2> HIDE DEF x
    <2>3. ASSUME NEW n \in 1..taken, Due(x, n) PROVE Due(subs[s], n)
      <3> DEFINE c == Traffic[n]
      <3>1. c \in ctxs /\ c \in Contexts /\ n > j[c]
        BY <2>2, <2>3 DEF Due
      <3>2. s \in contextSubs[c] <=> c \in subs[s].contexts
        BY <2>1, <3>1 DEF RouterInv, RegistryCoherent, IndexMatches
      <3>3. j[c] = IF s \in contextSubs[c] THEN subs[s].joined[c] ELSE taken
        BY <3>1 DEF j, Joined
      <3>4. ~(n > taken)
        BY <1>0
      <3> HIDE DEF c
      <3>5. c \in subs[s].contexts /\ n > subs[s].joined[c]
        BY <3>1, <3>2, <3>3, <3>4
      <3> QED BY <3>5 DEF Due, c
    <2> QED BY <1>2, <2>1, <2>2, <2>3
  <1>7. CASE Shutdown
    <2>1. subscriptions' = {} /\ UNCHANGED <<taken, route>>
      BY <1>7 DEF Shutdown
    <2>2. ASSUME NEW t \in SubIds, subs[t] # NoSub
          PROVE  subs'[t].sent = subs[t].sent /\ subs'[t].lost = subs[t].lost
      <3>1. subs'[t] = subs[t] \/ subs'[t] = [subs[t] EXCEPT !.open = FALSE]
        BY <1>7 DEF Shutdown
      <3>2. subs[t] \in Subscription
        BY <1>0, <2>2
      <3> QED BY <3>1, <3>2 DEF Subscription
    <2> QED BY <2>1, <2>2, NothingMissedElsewhere
  <1> QED BY <1>1, <1>3, <1>4, <1>5, <1>6, <1>7 DEF Next, Step

\* Routing misses nobody in any reachable state: a unit taken since a subscription
\* to its context began is in the subscriber's channel, was dropped because that
\* was full, or is about to be offered to it, although routeEvent works from a copy
\* of the IDs while Subscribe, UpdateSubscription and the idle sweep go on.
THEOREM RoutingMissesNobody == Spec => []NoSilentLoss
  <1>1. Init => LossInv
    BY DEF Init, LossInv, NoSilentLoss, TouchInv
  <1>2. RouterInv /\ LossInv /\ [Next]_vars => LossInv'
    BY OtherStepsLoss, RouteBeginLoss, RoutePickLoss, RouteSendLoss
  <1>3. LossInv => NoSilentLoss
    BY DEF LossInv
  <1> QED BY <1>1, <1>2, <1>3, InitRouterInv, NextRouterInv, PTL DEF Spec

=============================================================================
