----------------------------- MODULE RoutingProofs -----------------------------
(***************************************************************************)
(* Theorems about RoutingApi, with patient and impatient clients and with  *)
(* the adaptor as its client, for any set of routes.  What is under way on *)
(* a topic, after what the node holds already, ends in what the planner    *)
(* says; patient clients keep the states of one route apart from those of  *)
(* the next; a request of the adaptor is the one the API is busy with.     *)
(***************************************************************************)
EXTENDS MCRoutingApi, MCRoutingAdaptor, SequenceTheorems, TLAPS

(* Nothing is sent: nothing changes. *)
LEMMA NothingSent ==
  ASSUME NEW S, NEW queue \in Seq(S), Len(queue) <= 2, NEW q \in Sent(queue, <<>>)
  PROVE  q = queue
<1> DEFINE all == queue \o <<>>
           n == Len(queue)
<1>1. all = queue
  BY ConcatEmptySeq
<1>2. q \in IF Len(all) < 2 THEN {all} ELSE {<<all[i], Last(all)>> : i \in 1..(Len(all) - 1)}
  BY DEF Sent
<1>3. n \in Nat /\ n <= 2
  OBVIOUS
<1> HIDE DEF all, n
<1>4. n < 2 \/ n = 2
  BY <1>3
<1>5. CASE n < 2
  BY <1>1, <1>2, <1>5 DEF n
<1>6. CASE n = 2
  <2>1. q \in {<<queue[i], Last(queue)>> : i \in 1..1}
    BY <1>1, <1>2, <1>6 DEF n
  <2>2. q = <<queue[1], queue[2]>>
    BY <1>6, <2>1 DEF Last, n
  <2>3. queue = <<queue[1], queue[2]>>
    BY <1>6 DEF n
  <2> QED
    BY <2>2, <2>3
<1> QED
  BY <1>4, <1>5, <1>6

(* The newest of the messages sent is the last one of the topic. *)
LEMMA SentEndsWithNewest ==
  ASSUME NEW S, NEW queue \in Seq(S), NEW msgs \in Seq(S), msgs # <<>>,
         NEW q \in Sent(queue, msgs)
  PROVE  q \in Seq(S) /\ Len(q) \in 1..2 /\ q[Len(q)] = msgs[Len(msgs)]
<1> DEFINE all == queue \o msgs
<1>1. /\ all \in Seq(S) /\ Len(all) = Len(queue) + Len(msgs)
      /\ Len(queue) \in Nat /\ Len(msgs) \in Nat \ {0}
      /\ all[Len(all)] = msgs[Len(msgs)]
  OBVIOUS
<1>2. CASE Len(all) < 2
  BY <1>1, <1>2 DEF Sent
<1>3. CASE ~(Len(all) < 2)
  <2>1. PICK i \in 1..(Len(all) - 1) : q = <<all[i], msgs[Len(msgs)]>>
    BY <1>1, <1>3 DEF Sent, Last
  <2>2. all[i] \in S /\ msgs[Len(msgs)] \in S
    BY <1>1
  <2> QED
    BY <2>1, <2>2
<1> QED
  BY <1>2, <1>3

(* Taking a message leaves nothing, if it was the newest, or the newest.   *)
LEMMA TakenLeavesNewest ==
  ASSUME NEW S, NEW queue \in Seq(S), Len(queue) <= 2, NEW i \in 1..Len(queue)
  PROVE  \/ Taken(queue, i) = <<>> /\ i = Len(queue)
         \/ /\ Taken(queue, i) \in Seq(S) /\ Len(Taken(queue, i)) = 1
            /\ Taken(queue, i)[1] = queue[Len(queue)]
<1>1. i \in 1..Len(queue) /\ Len(queue) \in Nat
  OBVIOUS
<1>2. CASE i = Len(queue)
  BY <1>1, <1>2, SubSeqEmpty DEF Taken
<1>3. CASE i # Len(queue)
  <2>1. i = 1 /\ Len(queue) = 2
    <3>1. \A n \in Nat : \A k \in 1..n : n <= 2 /\ k # n => k = 1 /\ n = 2
      OBVIOUS
    <3> QED BY <3>1, <1>1, <1>3
  <2>2. Taken(queue, i) = SubSeq(queue, 2, 2)
    BY <2>1 DEF Taken
  <2>3. \A k \in 2..2 : queue[k] \in S
    <3>1. 2 \in 1..Len(queue) /\ \A k \in 2..2 : k = 2
      BY <2>1
    <3> QED
      BY <3>1, ElementOfSeq, Zenon
  <2>4. /\ SubSeq(queue, 2, 2) \in Seq(S) /\ Len(SubSeq(queue, 2, 2)) = 1
        /\ \A k \in 1..1 : SubSeq(queue, 2, 2)[k] = queue[k + 2 - 1]
    BY <2>3, SubSeqProperties
  <2>5. 1 \in 1..1 /\ 1 + 2 - 1 = 2
    OBVIOUS
  <2>6. SubSeq(queue, 2, 2)[1] = queue[2]
    BY <2>4, <2>5
  <2> QED BY <2>1, <2>2, <2>4, <2>6
<1> QED BY <1>2, <1>3
-----------------------------------------------------------------------------
States == Phases \cup BusyPhases
MaybeRoute == Routes \cup {NoRoute}

(* What a subscription has received when its topic is empty again. *)
AtTheEnd(queue, held) == IF queue = <<>> THEN held ELSE queue[Len(queue)]

ApiTypes ==
  /\ phase \in Phases /\ route \in MaybeRoute
  /\ to_state \in Seq(States) /\ Len(to_state) <= 2
  /\ to_route \in Seq(Routes) /\ Len(to_route) <= 2
  /\ api_state \in States /\ api_route \in MaybeRoute
  /\ api_auto \in BOOLEAN /\ to_mode \in BOOLEAN
  /\ stop_request \in BOOLEAN /\ stop_service \in BOOLEAN
  /\ call \in Calls \cup {NoCall, Returned}
  /\ mode \in OperationModes

(* The planner's own promise. *)
RouteMatchesPhase == route = NoRoute <=> phase \in {"UNKNOWN", "UNSET"}

StateArrives == AtTheEnd(to_state, api_state) = phase

(* No UNSET of an earlier time takes the route of the planner away. *)
RouteArrives ==
  route # NoRoute =>
    /\ to_state \in Seq(States \ {"UNSET"})
    /\ AtTheEnd(to_route, api_route) = route

(* A cleared route is not under way, and goes with the last state. *)
ClearArrives ==
  route = NoRoute =>
    /\ to_route = <<>>
    /\ api_route = NoRoute \/ (to_state # <<>> /\ AtTheEnd(to_state, api_state) = "UNSET")

(* What is known of a request until the planner serves it. *)
CallIsCurrent ==
  /\ call \in Calls => to_route = <<>>
  /\ call = "set" => phase = "UNSET" /\ to_state = <<>>
  /\ call = "change" => phase \in {"SET", "ARRIVED"}

(* Whatever the clients do ...                                             *)
ApiInv == ApiTypes /\ RouteMatchesPhase /\ StateArrives

(* ... and while they are patient. *)
Tidy == RouteArrives /\ ClearArrives /\ CallIsCurrent

IInv == ApiInv /\ patient \in BOOLEAN /\ (patient => Tidy)

(* A step of the planner, and what it says on the two topics. *)
Says(states, routes) ==
  /\ phase' \in Phases /\ route' \in MaybeRoute
  /\ states \in Seq(States) /\ routes \in Seq(Routes)
  /\ IF states = <<>> THEN phase' = phase
     ELSE phase' # "UNKNOWN" /\ states[Len(states)] = phase'
  /\ IF routes = <<>> THEN route' \in {route, NoRoute} ELSE routes[Len(routes)] = route'
  /\ route' # NoRoute => states \in Seq(States \ {"UNSET"})
  /\ route' = NoRoute => routes = <<>> /\ (route # NoRoute => states # <<>>)
-----------------------------------------------------------------------------
LEMMA SentArrives ==
  ASSUME NEW S, NEW queue \in Seq(S), Len(queue) <= 2, NEW msgs \in Seq(S),
         NEW q \in Sent(queue, msgs), NEW held
  PROVE  /\ q \in Seq(S) /\ Len(q) <= 2
         /\ msgs = <<>> => q = queue
         /\ msgs # <<>> => q # <<>> /\ AtTheEnd(q, held) = msgs[Len(msgs)]
<1>1. CASE msgs = <<>>
  BY <1>1, NothingSent
<1>2. CASE msgs # <<>>
  <2>1. q \in Seq(S) /\ Len(q) \in 1..2 /\ q[Len(q)] = msgs[Len(msgs)]
    BY <1>2, SentEndsWithNewest
  <2>2. (\A n \in 1..2 : n # 0 /\ n <= 2) /\ Len(<<>>) = 0
    OBVIOUS
  <2>3. q # <<>> /\ Len(q) <= 2
    BY <2>1, <2>2, Zenon
  <2> QED
    BY <1>2, <2>1, <2>3 DEF AtTheEnd
<1> QED
  BY <1>1, <1>2

LEMMA TakenArrives ==
  ASSUME NEW S, NEW queue \in Seq(S), Len(queue) <= 2, NEW i \in DOMAIN queue, NEW held
  PROVE  LET rest == Taken(queue, i)
         IN  /\ rest \in Seq(S) /\ Len(rest) <= 2
             /\ AtTheEnd(rest, queue[i]) = AtTheEnd(queue, held)
             /\ rest # <<>> => AtTheEnd(rest, held) = AtTheEnd(queue, held)
             /\ rest = <<>> => AtTheEnd(queue, held) = queue[i]
             /\ queue[i] \in S /\ queue # <<>>
<1> DEFINE rest == Taken(queue, i)
<1>1. i \in 1..Len(queue) /\ queue[i] \in S /\ queue # <<>>
  OBVIOUS
<1>2. CASE rest = <<>> /\ i = Len(queue)
  BY <1>1, <1>2 DEF AtTheEnd
<1>3. CASE rest \in Seq(S) /\ Len(rest) = 1 /\ rest[1] = queue[Len(queue)]
  <2>a. Len(<<>>) # 1 /\ Len(rest) <= 2
    BY <1>3
  <2>1. rest # <<>>
    BY <1>3, <2>a, Zenon
  <2> QED
    BY <1>1, <1>3, <2>a, <2>1 DEF AtTheEnd
<1> QED
  BY <1>1, <1>2, <1>3, TakenLeavesNewest
-----------------------------------------------------------------------------
LEMMA OpenSays ==
  ASSUME ApiInv, Planner!Open
  PROVE  Says(published'.state, published'.route) /\ RouteMatchesPhase' /\ route' = route
<1>1. published'.state = <<"UNSET">> /\ published'.route = <<>>
  BY DEF Planner!Open, Planner!StateMsgs
<1>2. phase' = "UNSET" /\ route' = route /\ route = NoRoute
  BY DEF Planner!Open, ApiInv, RouteMatchesPhase
<1>3. <<"UNSET">> \in Seq(States) /\ <<"UNSET">> # <<>> /\ <<"UNSET">>[Len(<<"UNSET">>)] = "UNSET"
  BY DEF States, Phases
<1> QED
  BY <1>1, <1>2, <1>3 DEF Says, Phases, MaybeRoute, RouteMatchesPhase

LEMMA ArriveSays ==
  ASSUME ApiInv, Planner!Arrive
  PROVE  Says(published'.state, published'.route) /\ RouteMatchesPhase' /\ route' = route
<1>1. published'.state = <<"ARRIVED">> /\ published'.route = <<>>
  BY DEF Planner!Arrive, Planner!StateMsgs
<1>2. phase' = "ARRIVED" /\ route' = route /\ route # NoRoute /\ route \in MaybeRoute
  BY DEF Planner!Arrive, ApiInv, RouteMatchesPhase, ApiTypes
<1>3. /\ <<"ARRIVED">> \in Seq(States) /\ <<"ARRIVED">> \in Seq(States \ {"UNSET"})
      /\ <<"ARRIVED">> # <<>> /\ <<"ARRIVED">>[Len(<<"ARRIVED">>)] = "ARRIVED"
  BY DEF States, Phases
<1> QED
  BY <1>1, <1>2, <1>3 DEF Says, Phases, RouteMatchesPhase

LEMMA ClearSays ==
  ASSUME ApiInv, Planner!ServeClear
  PROVE  /\ Says(published'.state, published'.route) /\ RouteMatchesPhase'
         /\ route' = NoRoute
<1>1. CASE Planner!Clear
  <2>1. published'.state = <<"UNSET">> /\ published'.route = <<>>
    BY <1>1 DEF Planner!Clear, Planner!StateMsgs
  <2>2. phase' = "UNSET" /\ route' = NoRoute
    BY <1>1 DEF Planner!Clear
  <2>3. <<"UNSET">> \in Seq(States) /\ <<"UNSET">> # <<>> /\ <<"UNSET">>[Len(<<"UNSET">>)] = "UNSET"
    BY DEF States, Phases
  <2> QED
    BY <2>1, <2>2, <2>3 DEF Says, Phases, MaybeRoute, RouteMatchesPhase
<1>2. CASE Planner!ClearNothing
  <2>1. published'.state = <<>> /\ published'.route = <<>>
    BY <1>2 DEF Planner!ClearNothing, Planner!NoMsgs, Planner!StateMsgs
  <2>2. phase' = "UNKNOWN" /\ phase = "UNKNOWN" /\ route' = NoRoute /\ route = NoRoute
    BY <1>2 DEF Planner!ClearNothing, ApiInv, RouteMatchesPhase
  <2> QED
    BY <2>1, <2>2 DEF Says, Phases, MaybeRoute, RouteMatchesPhase
<1> QED
  BY <1>1, <1>2 DEF Planner!ServeClear

(* With patient clients a first route is one that was asked for with a set *)
(* request.                                                                *)
LEMMA SetSays ==
  ASSUME ApiInv, Planner!ServeSet
  PROVE  /\ Says(published'.state, published'.route) /\ RouteMatchesPhase'
         /\ route' # NoRoute \/ route' = route
         /\ route' # NoRoute /\ route = NoRoute => phase = "UNSET"
<1>0. phase \in Phases /\ route \in MaybeRoute /\ RouteMatchesPhase
  BY DEF ApiInv, ApiTypes
<1>1. ASSUME NEW r \in Routes, Planner!Accept(r)
      PROVE  /\ Says(published'.state, published'.route) /\ RouteMatchesPhase'
             /\ route' # NoRoute
             /\ route = NoRoute => phase = "UNSET"
  <2>1. published'.state = <<Planner!Busy, "SET">> /\ published'.route = <<r>>
    BY <1>1 DEF Planner!Accept, Planner!RouteMsgs
  <2>2. phase' = "SET" /\ route' = r /\ r # NoRoute /\ phase \in {"UNSET", "SET"}
    BY <1>1, ApiAssumption DEF Planner!Accept
  <2>3. Planner!Busy \in BusyPhases
    BY DEF Planner!Busy, BusyPhases
  <2> DEFINE s == <<Planner!Busy, "SET">>
  <2>4. /\ s \in Seq(States) /\ s \in Seq(States \ {"UNSET"})
        /\ s # <<>> /\ s[Len(s)] = "SET"
    BY <2>3 DEF States, Phases, BusyPhases
  <2>5. <<r>> \in Seq(Routes) /\ <<r>> # <<>> /\ <<r>>[Len(<<r>>)] = r
    OBVIOUS
  <2>6. r \in MaybeRoute
    BY DEF MaybeRoute
  <2> HIDE DEF s
  <2>7. published'.state = s
    BY <2>1 DEF s
  <2> QED
    BY <1>0, <2>1, <2>2, <2>4, <2>5, <2>6, <2>7 DEF Says, Phases, RouteMatchesPhase
<1>2. ASSUME Planner!Fail
      PROVE  Says(published'.state, published'.route) /\ RouteMatchesPhase' /\ route' = route
  <2>1. published'.state = <<Planner!Busy, phase>> /\ published'.route = <<>>
    BY <1>2 DEF Planner!Fail, Planner!StateMsgs
  <2>2. phase' = phase /\ route' = route /\ phase \in {"UNSET", "SET"}
    BY <1>2 DEF Planner!Fail
  <2>3. Planner!Busy \in BusyPhases
    BY DEF Planner!Busy, BusyPhases
  <2> DEFINE s == <<Planner!Busy, phase>>
  <2>4. /\ s \in Seq(States)
        /\ phase = "SET" => s \in Seq(States \ {"UNSET"})
        /\ s # <<>> /\ s[Len(s)] = phase
    BY <2>2, <2>3 DEF States, Phases, BusyPhases
  <2> HIDE DEF s
  <2>5. published'.state = s
    BY <2>1 DEF s
  <2> QED
    BY <1>0, <2>1, <2>2, <2>4, <2>5 DEF Says, Phases, RouteMatchesPhase
<1>3. ASSUME Planner!Refuse
      PROVE  Says(published'.state, published'.route) /\ RouteMatchesPhase' /\ route' = route
  <2>1. published'.state = <<>> /\ published'.route = <<>>
    BY <1>3 DEF Planner!Refuse, Planner!NoMsgs, Planner!StateMsgs
  <2>2. phase' = phase /\ route' = route
    BY <1>3 DEF Planner!Refuse
  <2> QED
    BY <1>0, <2>1, <2>2 DEF Says, RouteMatchesPhase
<1> QED
  BY <1>1, <1>2, <1>3 DEF Planner!ServeSet
-----------------------------------------------------------------------------
(* Once the planner's messages are under way. *)
LEMMA PublishedArrives ==
  ASSUME ApiInv, Says(published'.state, published'.route), RouteMatchesPhase', PublishRouting,
         UNCHANGED nodeVars
  PROVE  /\ to_state' \in Seq(States) /\ Len(to_state') <= 2
         /\ to_route' \in Seq(Routes) /\ Len(to_route') <= 2
         /\ StateArrives'
         /\ /\ RouteArrives /\ ClearArrives
            /\ route # NoRoute /\ route' = NoRoute => to_route = <<>>
            /\ route = NoRoute /\ route' # NoRoute => to_state = <<>>
            => RouteArrives' /\ ClearArrives'
<1> DEFINE s == published'.state
           r == published'.route
<1>0. /\ Says(s, r) /\ RouteMatchesPhase'
      /\ api_state' = api_state /\ api_route' = api_route
      /\ to_state' \in Sent(to_state, s) /\ to_route' \in Sent(to_route, r)
  BY DEF nodeVars, PublishRouting
<1> HIDE DEF s, r
<1>1. /\ to_state \in Seq(States) /\ Len(to_state) <= 2
      /\ to_route \in Seq(Routes) /\ Len(to_route) <= 2
      /\ s \in Seq(States) /\ r \in Seq(Routes)
  BY <1>0 DEF ApiInv, ApiTypes, Says
<1>2. /\ to_state' \in Seq(States) /\ Len(to_state') <= 2
      /\ s = <<>> => to_state' = to_state
      /\ s # <<>> => to_state' # <<>> /\ AtTheEnd(to_state', api_state) = s[Len(s)]
  BY <1>0, <1>1, SentArrives
<1>3. /\ to_route' \in Seq(Routes) /\ Len(to_route') <= 2
      /\ r = <<>> => to_route' = to_route
      /\ r # <<>> => to_route' # <<>> /\ AtTheEnd(to_route', api_route) = r[Len(r)]
  BY <1>0, <1>1, SentArrives
<1>4. AtTheEnd(to_state', api_state) = phase'
  BY <1>0, <1>2 DEF ApiInv, StateArrives, Says
<1>5. StateArrives'
  BY <1>0, <1>4 DEF StateArrives, AtTheEnd
<1>6. ASSUME RouteArrives, ClearArrives,
             route # NoRoute /\ route' = NoRoute => to_route = <<>>,
             route = NoRoute /\ route' # NoRoute => to_state = <<>>
      PROVE  RouteArrives' /\ ClearArrives'
  <2>1. CASE route' # NoRoute
    <3>1. to_state \in Seq(States \ {"UNSET"})
      <4>1. CASE route = NoRoute
        BY <1>6, <2>1, <4>1
      <4>2. CASE route # NoRoute
        BY <1>6, <4>2 DEF RouteArrives
      <4> QED
        BY <4>1, <4>2
    <3>2. s \in Seq(States \ {"UNSET"})
      BY <1>0, <2>1 DEF Says
    <3>3. to_state' \in Seq(States \ {"UNSET"})
      BY <1>0, <1>1, <3>1, <3>2, SentArrives
    <3>4. AtTheEnd(to_route', api_route) = route'
      <4>1. CASE r = <<>>
        <5>1. route' = route /\ to_route' = to_route
          BY <1>0, <1>3, <2>1, <4>1 DEF Says
        <5> QED
          BY <1>6, <2>1, <5>1 DEF RouteArrives
      <4>2. CASE r # <<>>
        BY <1>0, <1>3, <4>2 DEF Says
      <4> QED
        BY <4>1, <4>2
    <3> QED
      BY <1>0, <2>1, <3>3, <3>4 DEF RouteArrives, ClearArrives, AtTheEnd
  <2>2. CASE route' = NoRoute
    <3>1. r = <<>> /\ to_route' = to_route
      BY <1>0, <1>3, <2>2 DEF Says
    <3>2. to_route' = <<>>
      BY <1>6, <2>2, <3>1 DEF ClearArrives
    <3>3. api_route = NoRoute \/ (to_state' # <<>> /\ AtTheEnd(to_state', api_state) = "UNSET")
      <4>1. CASE s = <<>>
        <5>1. route = NoRoute /\ to_state' = to_state
          BY <1>0, <1>2, <2>2, <4>1 DEF Says
        <5> QED
          BY <1>6, <5>1 DEF ClearArrives
      <4>2. CASE s # <<>>
        <5>1. phase' = "UNSET"
          BY <1>0, <2>2, <4>2 DEF Says, RouteMatchesPhase
        <5> QED
          BY <1>2, <1>4, <4>2, <5>1
      <4> QED
        BY <4>1, <4>2
    <3> QED
      BY <1>0, <2>2, <3>2, <3>3 DEF RouteArrives, ClearArrives, AtTheEnd
  <2> QED
    BY <2>1, <2>2
<1> QED
  BY <1>2, <1>3, <1>5, <1>6

LEMMA PlannerKeepsApiInv ==
  ASSUME ApiInv, PlannerStep
  PROVE  ApiInv' /\ (Tidy => Tidy')
<1>1. Says(published'.state, published'.route) /\ RouteMatchesPhase' /\ route' = route
  BY OpenSays, ArriveSays DEF PlannerStep
<1>2. UNCHANGED <<nodeVars, gateVars, call>> /\ PublishRouting
  BY DEF PlannerStep
<1>3. ApiTypes'
  BY <1>1, <1>2, PublishedArrives DEF ApiInv, ApiTypes, Says, nodeVars, gateVars
<1>4. StateArrives'
  BY <1>1, <1>2, PublishedArrives
<1>5. ASSUME Tidy PROVE Tidy'
  <2>1. RouteArrives /\ ClearArrives /\ CallIsCurrent
    BY <1>5 DEF Tidy
  <2>2. RouteArrives' /\ ClearArrives'
    BY <1>1, <1>2, <1>5, <2>1, PublishedArrives
  <2>3. call' = call /\ call # "set"
    BY <1>2, <2>1 DEF PlannerStep, CallIsCurrent, Planner!Open, Planner!Arrive
  <2>4. published'.route = <<>>
    BY DEF PlannerStep, Planner!Open, Planner!Arrive, Planner!StateMsgs
  <2>5. to_route' = to_route
    BY <2>4, NothingSent DEF PlannerStep, PublishRouting, ApiInv, ApiTypes
  <2>6. call = "change" => phase' = "ARRIVED"
    BY <2>1 DEF PlannerStep, CallIsCurrent, Planner!Open, Planner!Arrive
  <2> QED
    BY <2>1, <2>2, <2>3, <2>5, <2>6 DEF Tidy, CallIsCurrent
<1> QED
  BY <1>1, <1>3, <1>4, <1>5 DEF ApiInv

LEMMA ServeKeepsApiInv ==
  ASSUME ApiInv, Serve
  PROVE  ApiInv' /\ (Tidy => Tidy')
<1>1. /\ Says(published'.state, published'.route) /\ RouteMatchesPhase'
      /\ call = "clear" => route' = NoRoute
      /\ call # "clear" => /\ route' # NoRoute \/ route' = route
                           /\ route' # NoRoute /\ route = NoRoute => phase = "UNSET"
  BY ClearSays, SetSays DEF Serve
<1>2. UNCHANGED <<nodeVars, gateVars>> /\ PublishRouting /\ call' = Returned
  BY DEF Serve
<1>3. ApiTypes'
  BY <1>1, <1>2, PublishedArrives DEF ApiInv, ApiTypes, Says, nodeVars, gateVars
<1>4. StateArrives'
  BY <1>1, <1>2, PublishedArrives
<1>5. ASSUME Tidy PROVE Tidy'
  <2>1. RouteArrives /\ ClearArrives /\ CallIsCurrent
    BY <1>5 DEF Tidy
  <2>2. route # NoRoute /\ route' = NoRoute => to_route = <<>>
    BY <2>1 DEF CallIsCurrent, Serve
  <2>3. route = NoRoute /\ route' # NoRoute => to_state = <<>>
    BY <1>1, <2>1 DEF CallIsCurrent, Serve, Calls, SetCalls, AcceptedIn
  <2>4. RouteArrives' /\ ClearArrives'
    BY <1>1, <1>2, <1>5, <2>1, <2>2, <2>3, PublishedArrives
  <2> QED
    BY <1>2, <2>4 DEF Tidy, CallIsCurrent, Returned, Calls, SetCalls, AcceptedIn
<1> QED
  BY <1>1, <1>3, <1>4, <1>5 DEF ApiInv
-----------------------------------------------------------------------------
LEMMA OnStateKeepsApiInv ==
  ASSUME ApiInv, OnState
  PROVE  ApiInv' /\ (Tidy => Tidy')
<1>1. PICK i \in DOMAIN to_state :
         /\ to_state' = Taken(to_state, i) /\ api_state' = to_state[i]
         /\ api_route' = RouteShown(to_state[i])
         /\ stop_request' = (stop_request \/ StopsIn(to_state[i]))
  BY DEF OnState
<1>2. /\ call = NoCall
      /\ UNCHANGED <<serviceVars, to_route, api_auto, api_moving, call, to_mode,
                     stop_service, mode>>
  BY DEF OnState, idle
<1>3. to_state \in Seq(States) /\ Len(to_state) <= 2
  BY DEF ApiInv, ApiTypes
<1>4. /\ to_state' \in Seq(States) /\ Len(to_state') <= 2
      /\ AtTheEnd(to_state', api_state') = AtTheEnd(to_state, api_state)
      /\ to_state' = <<>> => AtTheEnd(to_state, api_state) = to_state[i]
      /\ to_state[i] \in States
  BY <1>1, <1>3, TakenArrives
<1>5. ApiTypes'
  BY <1>1, <1>2, <1>4 DEF ApiInv, ApiTypes, RouteShown, StopsIn, MaybeRoute, serviceVars
<1>6. StateArrives' /\ RouteMatchesPhase'
  BY <1>2, <1>4 DEF ApiInv, StateArrives, RouteMatchesPhase, AtTheEnd, serviceVars
<1>7. ASSUME Tidy PROVE Tidy'
  <2>1. RouteArrives /\ ClearArrives
    BY <1>7 DEF Tidy
  <2>2. UNCHANGED <<route, to_route, call>>
    BY <1>2 DEF serviceVars
  <2>3. CASE route # NoRoute
    <3>1. to_state \in Seq(States \ {"UNSET"})
      BY <2>1, <2>3 DEF RouteArrives
    <3>2. to_state' \in Seq(States \ {"UNSET"}) /\ to_state[i] # "UNSET"
      BY <1>1, <1>3, <3>1, TakenArrives
    <3> QED
      BY <1>1, <1>2, <2>1, <2>2, <2>3, <3>2
         DEF Tidy, RouteArrives, ClearArrives, CallIsCurrent, RouteShown, AtTheEnd,
             NoCall, Calls, SetCalls, AcceptedIn
  <2>4. CASE route = NoRoute
    <3>1. api_route' = NoRoute
            \/ (to_state' # <<>> /\ AtTheEnd(to_state', api_state') = "UNSET")
      BY <1>1, <1>4, <2>1, <2>4 DEF ClearArrives, RouteShown
    <3> QED
      BY <1>2, <2>1, <2>2, <2>4, <3>1
         DEF Tidy, RouteArrives, ClearArrives, CallIsCurrent, AtTheEnd,
             NoCall, Calls, SetCalls, AcceptedIn
  <2> QED
    BY <2>3, <2>4
<1> QED
  BY <1>5, <1>6, <1>7 DEF ApiInv

LEMMA OnRouteKeepsApiInv ==
  ASSUME ApiInv, OnRoute
  PROVE  ApiInv' /\ (Tidy => Tidy')
<1>1. PICK i \in DOMAIN to_route : to_route' = Taken(to_route, i) /\ api_route' = to_route[i]
  BY DEF OnRoute
<1>2. /\ call = NoCall
      /\ UNCHANGED <<serviceVars, to_state, api_state, api_auto, api_moving, call, gateVars>>
  BY DEF OnRoute, idle
<1>3. to_route \in Seq(Routes) /\ Len(to_route) <= 2
  BY DEF ApiInv, ApiTypes
<1>4. /\ to_route' \in Seq(Routes) /\ Len(to_route') <= 2
      /\ AtTheEnd(to_route', api_route') = AtTheEnd(to_route, api_route)
      /\ to_route[i] \in Routes /\ to_route # <<>>
  BY <1>1, <1>3, TakenArrives
<1>5. ApiTypes'
  BY <1>1, <1>2, <1>4 DEF ApiInv, ApiTypes, MaybeRoute, serviceVars, gateVars
<1>6. StateArrives' /\ RouteMatchesPhase'
  BY <1>2 DEF ApiInv, StateArrives, RouteMatchesPhase, AtTheEnd, serviceVars
<1>7. ASSUME Tidy PROVE Tidy'
  <2>1. RouteArrives /\ ClearArrives
    BY <1>7 DEF Tidy
  <2>2. route # NoRoute /\ UNCHANGED <<route, to_state, call>>
    BY <1>2, <1>4, <2>1 DEF ClearArrives, serviceVars
  <2> QED
    BY <1>2, <1>4, <2>1, <2>2
       DEF Tidy, RouteArrives, ClearArrives, CallIsCurrent, AtTheEnd,
           NoCall, Calls, SetCalls, AcceptedIn
<1> QED
  BY <1>5, <1>6, <1>7 DEF ApiInv

(* What the node asks for is what the planner is in, if nothing is under   *)
(* way any more.                                                           *)
LEMMA RequestKeepsApiInv ==
  ASSUME ApiInv, Request
  PROVE  ApiInv' /\ (Tidy /\ nothingUnderWay => Tidy')
<1>1. /\ idle /\ UNCHANGED <<serviceVars, topics, nodeVars, gateVars>>
      /\ \/ call' = "clear"
         \/ call' = "set" /\ api_state = "UNSET"
         \/ call' = "change" /\ api_state = "SET"
  BY DEF Request, RequestClear, RequestRoute, SetCalls, AcceptedIn
<1>2. call' \in Calls
  BY <1>1 DEF Calls, SetCalls, AcceptedIn
<1>3. ApiTypes'
  BY <1>1, <1>2 DEF ApiInv, ApiTypes, serviceVars, topics, nodeVars, gateVars
<1>4. StateArrives' /\ RouteMatchesPhase'
  BY <1>1 DEF ApiInv, StateArrives, RouteMatchesPhase, AtTheEnd, serviceVars, topics, nodeVars
<1>5. ASSUME Tidy, nothingUnderWay PROVE Tidy'
  <2>1. RouteArrives /\ ClearArrives /\ to_state = <<>> /\ to_route = <<>>
    BY <1>5 DEF Tidy, nothingUnderWay
  <2>2. phase = api_state
    BY <2>1 DEF ApiInv, StateArrives, AtTheEnd
  <2> QED
    BY <1>1, <2>1, <2>2 DEF Tidy, RouteArrives, ClearArrives, CallIsCurrent, AtTheEnd, serviceVars,
                            topics, nodeVars
<1> QED
  BY <1>3, <1>4, <1>5 DEF ApiInv

(* Everything that concerns neither the topics nor the requests. *)
LEMMA OtherKeepsApiInv ==
  ASSUME ApiInv,
         UNCHANGED <<serviceVars, topics, api_state, api_route>>,
         api_auto' \in BOOLEAN, to_mode' \in BOOLEAN,
         stop_request' \in BOOLEAN, stop_service' \in BOOLEAN,
         mode' \in OperationModes, call' \in {call, NoCall}
  PROVE  ApiInv' /\ (Tidy => Tidy')
<1>1. ApiTypes'
  BY DEF ApiInv, ApiTypes, serviceVars, topics
<1>2. StateArrives' /\ RouteMatchesPhase'
  BY DEF ApiInv, StateArrives, RouteMatchesPhase, AtTheEnd, serviceVars, topics
<1>3. ASSUME Tidy PROVE Tidy'
  BY <1>3 DEF Tidy, RouteArrives, ClearArrives, CallIsCurrent, AtTheEnd, serviceVars, topics,
              NoCall, Calls, SetCalls, AcceptedIn
<1> QED
  BY <1>1, <1>2, <1>3 DEF ApiInv

LEMMA InitiallyQuiet == Init => ApiInv /\ Tidy
<1> SUFFICES ASSUME Init PROVE ApiInv /\ Tidy
  OBVIOUS
<1>1. /\ phase = "UNKNOWN" /\ route = NoRoute
      /\ to_state = <<>> /\ to_route = <<>>
      /\ api_state = "UNKNOWN" /\ api_auto = FALSE /\ api_route = NoRoute
      /\ call = NoCall /\ to_mode = FALSE /\ stop_request = FALSE /\ mode = "stop"
      /\ stop_service = FALSE
  BY DEF Init, Planner!Init
<1>2. to_state \in Seq(States) /\ to_route \in Seq(Routes) /\ Len(<<>>) <= 2
  BY <1>1
<1> QED
  BY <1>1, <1>2 DEF ApiInv, ApiTypes, States, Phases, MaybeRoute, OperationModes, Tidy,
     RouteMatchesPhase, StateArrives, RouteArrives, ClearArrives, CallIsCurrent, AtTheEnd,
     NoCall, Calls, SetCalls, AcceptedIn

LEMMA StepKeepsApiInv ==
  ASSUME ApiInv, [Next]_vars
  PROVE  ApiInv' /\ (Tidy /\ (idle /\ call' \in Calls => nothingUnderWay) => Tidy')
<1>0. /\ api_auto \in BOOLEAN /\ to_mode \in BOOLEAN
      /\ stop_request \in BOOLEAN /\ stop_service \in BOOLEAN
      /\ mode \in OperationModes
  BY DEF ApiInv, ApiTypes
<1>1. CASE UNCHANGED vars
  BY <1>0, <1>1, OtherKeepsApiInv DEF vars, nodeVars, gateVars
<1>2. CASE PlannerStep
  BY <1>2, PlannerKeepsApiInv
<1>3. CASE Serve
  BY <1>3, ServeKeepsApiInv
<1>4. CASE Request
  <2>1. idle /\ call' \in Calls
    BY <1>4 DEF Request, RequestClear, RequestRoute, Calls
  <2> QED
    BY <1>4, <2>1, RequestKeepsApiInv
<1>5. CASE OnState
  BY <1>5, OnStateKeepsApiInv
<1>6. CASE OnRoute
  BY <1>6, OnRouteKeepsApiInv
<1>7. CASE Return
  BY <1>0, <1>7, OtherKeepsApiInv DEF Return, nodeVars, gateVars
<1>8. CASE OnOperationMode \/ OnKinematicState
  BY <1>0, <1>8, OtherKeepsApiInv DEF OnOperationMode, OnKinematicState, gateVars
<1>9. CASE UserMode \/ StopMode
  <2>1. PICK m \in OperationModes : ChangeMode(m) /\ stop_request' \in {stop_request, FALSE}
    BY <1>9 DEF UserMode, StopMode, OperationModes
  <2> QED
    BY <1>0, <2>1, OtherKeepsApiInv DEF ChangeMode, nodeVars
<1>10. CASE Discovery
  BY <1>0, <1>10, OtherKeepsApiInv DEF Discovery, nodeVars
<1> QED
  BY <1>1, <1>2, <1>3, <1>4, <1>5, <1>6, <1>7, <1>8, <1>9, <1>10 DEF Next, Deliver

LEMMA Invariance == MCSpec => []IInv
<1>1. MCInit => IInv
  BY InitiallyQuiet DEF MCInit, IInv
<1>2. IInv /\ [MCNext]_<<vars, patient>> => IInv'
  <2> SUFFICES ASSUME IInv, [MCNext]_<<vars, patient>> PROVE IInv'
    OBVIOUS
  <2>1. CASE UNCHANGED <<vars, patient>>
    BY <2>1, StepKeepsApiInv DEF IInv, vars, idle, NoCall, Calls, SetCalls, AcceptedIn
  <2>2. CASE MCNext
    <3>1. /\ patient' \in BOOLEAN
          /\ patient' => patient /\ (idle /\ call' \in Calls => nothingUnderWay)
      BY <2>2 DEF MCNext, IInv
    <3> QED
      BY <2>2, <3>1, StepKeepsApiInv DEF MCNext, IInv
  <2> QED
    BY <2>1, <2>2
<1> QED
  BY <1>1, <1>2, PTL DEF MCSpec
-----------------------------------------------------------------------------
(* Type correctness of the routing AD API, with the bounds of its topics,  *)
(* whatever its clients do.                                                *)
THEOREM TypeCorrect == Spec => []TypeOK
<1>1. ApiInv => TypeOK
  BY DEF ApiInv, ApiTypes, TypeOK, States, MaybeRoute, ToSet
<1> QED
  BY <1>1, InitiallyQuiet, StepKeepsApiInv, PTL DEF Spec

(* When nothing is under way and no request is, on_state and on_route have *)
(* left the API with the planner's route, provided its clients waited for  *)
(* the messages before each request.                                       *)
THEOREM ApiShowsTheRoute == MCSpec => []ShownRouteIsRight
<1>1. IInv => ShownRouteIsRight
  BY DEF IInv, Tidy, ShownRouteIsRight, RouteArrives, ClearArrives, AtTheEnd, nothingUnderWay
<1> QED
  BY <1>1, Invariance, PTL

(* set_route and change_route, told apart by the state the node saw, do    *)
(* the same to the planner: still, for patient clients, set gives a first  *)
(* route and change replaces one.                                          *)
THEOREM RequestsDoWhatTheySay == MCSpec => CallsMeanWhatTheySay
<1>1. IInv /\ [MCNext]_<<vars, patient>> =>
        [patient /\ call \in SetCalls /\ call' = Returned /\ answer' = "success"
           => (call = "set" <=> route = NoRoute)]_<<vars, patient>>
  <2> SUFFICES ASSUME IInv, patient, call \in SetCalls
               PROVE  call = "set" <=> route = NoRoute
    OBVIOUS
  <2>1. CallIsCurrent /\ RouteMatchesPhase
    BY DEF IInv, ApiInv, Tidy
  <2> QED
    BY <2>1 DEF CallIsCurrent, RouteMatchesPhase, SetCalls, AcceptedIn
<1> QED
  BY <1>1, Invariance, PTL DEF MCSpec, CallsMeanWhatTheySay
-----------------------------------------------------------------------------
(* A request under way is one of those the adaptor makes. *)
OneOf(r, ops) ==
  r # NoRequest => r \in [op : ops, at : {"sent", "taken", "done"},
                          route : RouteRequests \cup {NoRoute}]

AdaptorTypes ==
  /\ elapsed_count \in 0..WaitingCount
  /\ inputs \in 0..MaxInputs
  /\ route_ \in RouteRequests \cup {NoRoute}
  /\ route_ # NoRoute => route_.waypoints <= inputs
  /\ OneOf(request, {"set", "clear"}) /\ OneOf(reroute, {"change"})

(* With no reroute, the API is busy with the adaptor's request, if at all. *)
RequestIsTheCall ==
  /\ reroute = NoRequest
  /\ request.at = "taken" <=> call # NoCall
  /\ call \in Calls => call = request.op

(* When the wait is over, what the user wants is on its way to the planner *)
(* or has got there.                                                       *)
WantedIsOnItsWay ==
  elapsed_count = 0 =>
    \/ request = NoRequest /\ route = route_
    \/ /\ request.op = "set" /\ request.route = route_
       /\ request.at = "sent" \/ call = "set" \/ route = route_

AdaptorInv ==
  /\ ApiInv /\ AdaptorTypes /\ wanted = route_
  /\ ~turned_down => RequestIsTheCall /\ WantedIsOnItsWay
-----------------------------------------------------------------------------
(* A tick asks for nothing while a request is under way, and only a set    *)
(* request ends the wait.                                                  *)
LEMMA DecisionOfATick ==
  ASSUME NEW count \in 0..WaitingCount, NEW calling \in BOOLEAN, NEW unset \in BOOLEAN
  PROVE  LET decision == decide_routing_action(count, calling, unset)
         IN  /\ decision.count \in 0..WaitingCount
             /\ decision.action \in {"none", "set", "clear"}
             /\ decision.action # "none" => ~calling /\ count # 0
             /\ decision.count = 0 <=> count = 0 \/ decision.action = "set"
BY DEF decide_routing_action, WaitingCount

LEMMA OnTimerKeepsAdaptorInv ==
  ASSUME AdaptorInv, OnTimer, UNCHANGED ghosts
  PROVE  AdaptorInv'
<1> DEFINE decision == decide_routing_action(elapsed_count, calling_service_,
                                             adaptor_state = "UNSET")
<1>1. /\ elapsed_count' = decision.count
      /\ request' = CASE decision.action = "none"  -> request
                      [] decision.action = "set"   -> Sends("set", route_)
                      [] decision.action = "clear" -> Sends("clear", NoRoute)
      /\ UNCHANGED <<vars, route_, adaptor_state, to_adaptor, reroute, inputs>>
      /\ UNCHANGED <<wanted, turned_down>>
  BY DEF OnTimer, ghosts
<1>2. AdaptorTypes /\ elapsed_count \in 0..WaitingCount
  BY DEF AdaptorInv, AdaptorTypes
<1>3. /\ decision.count \in 0..WaitingCount
      /\ decision.action \in {"none", "set", "clear"}
      /\ decision.action # "none" => request = NoRequest /\ elapsed_count # 0
      /\ decision.count = 0 <=> elapsed_count = 0 \/ decision.action = "set"
  BY <1>2, DecisionOfATick DEF calling_service_
<1> HIDE DEF decision
<1>4. ApiInv'
  BY <1>1, StepKeepsApiInv DEF AdaptorInv
<1>5. AdaptorTypes' /\ wanted' = route_'
  BY <1>1, <1>2, <1>3 DEF AdaptorInv, AdaptorTypes, OneOf, Sends
<1>6. ASSUME ~turned_down' PROVE RequestIsTheCall' /\ WantedIsOnItsWay'
  <2>1. RequestIsTheCall /\ WantedIsOnItsWay /\ UNCHANGED <<call, route>>
    BY <1>1, <1>6 DEF AdaptorInv, vars, serviceVars
  <2>2. CASE decision.action = "none"
    BY <1>1, <1>3, <2>1, <2>2 DEF RequestIsTheCall, WantedIsOnItsWay
  <2>3. CASE decision.action = "set"
    BY <1>1, <1>3, <2>1, <2>3
       DEF RequestIsTheCall, WantedIsOnItsWay, Sends, NoRequest, NoCall, Calls, SetCalls, AcceptedIn
  <2>4. CASE decision.action = "clear"
    BY <1>1, <1>3, <2>1, <2>4
       DEF RequestIsTheCall, WantedIsOnItsWay, Sends, NoRequest, NoCall, Calls, SetCalls, AcceptedIn
  <2> QED
    BY <1>3, <2>2, <2>3, <2>4
<1> QED
  BY <1>4, <1>5, <1>6 DEF AdaptorInv

(* What the user does. *)
LEMMA InputKeepsAdaptorInv ==
  ASSUME AdaptorInv,
         \/ MCOnWaypoint
         \/ \E g \in Goals : MCOnGoal(g) \/ MCOnReroute(g)
  PROVE  AdaptorInv'
<1>1. UNCHANGED <<vars, request>> /\ inputs < MaxInputs /\ inputs' = inputs + 1
  BY DEF MCOnWaypoint, MCOnGoal, MCOnReroute, OnWaypoint, OnGoal, OnReroute, UserInput
<1>2. ApiInv' /\ MaxInputs \in Nat
  BY <1>1, StepKeepsApiInv, AdaptorAssumption DEF AdaptorInv
<1>3. CASE MCOnWaypoint
  <2>1. /\ route_ # NoRoute /\ elapsed_count' = 1
        /\ route_' = [route_ EXCEPT !.waypoints = @ + 1]
        /\ wanted' = [wanted EXCEPT !.waypoints = @ + 1]
        /\ UNCHANGED <<reroute, turned_down>>
    BY <1>3 DEF MCOnWaypoint, OnWaypoint
  <2>2. AdaptorTypes' /\ wanted' = route_'
    BY <1>1, <1>2, <2>1 DEF AdaptorInv, AdaptorTypes, RouteRequests, WaitingCount
  <2> QED
    BY <1>1, <1>2, <2>1, <2>2
       DEF AdaptorInv, RequestIsTheCall, WantedIsOnItsWay, vars
<1>4. ASSUME NEW g \in Goals, MCOnGoal(g) PROVE AdaptorInv'
  <2>1. /\ route_' = [goal |-> g, waypoints |-> 0] /\ wanted' = route_' /\ elapsed_count' = 1
        /\ UNCHANGED <<reroute, turned_down>>
    BY <1>4 DEF MCOnGoal, OnGoal, SetGoal
  <2>2. AdaptorTypes' /\ wanted' = route_'
    BY <1>1, <1>2, <2>1 DEF AdaptorInv, AdaptorTypes, RouteRequests, WaitingCount
  <2> QED
    BY <1>1, <1>2, <2>1, <2>2
       DEF AdaptorInv, RequestIsTheCall, WantedIsOnItsWay, vars
<1>5. ASSUME NEW g \in Goals, MCOnReroute(g) PROVE AdaptorInv'
  <2>1. /\ reroute' = Sends("change", [goal |-> g, waypoints |-> 0]) /\ turned_down'
        /\ UNCHANGED <<route_, wanted, elapsed_count>>
    BY <1>5 DEF MCOnReroute, OnReroute
  <2>2. AdaptorTypes' /\ wanted' = route_'
    BY <1>1, <1>2, <2>1 DEF AdaptorInv, AdaptorTypes, RouteRequests, OneOf, Sends
  <2> QED
    BY <1>2, <2>1, <2>2 DEF AdaptorInv
<1> QED
  BY <1>3, <1>4, <1>5

(* The rest leaves the input alone: what matters is the request. *)
LEMMA RequestKeepsAdaptorInv ==
  ASSUME AdaptorInv, [Next]_vars, UNCHANGED <<elapsed_count, route_, inputs, wanted>>,
         OneOf(request, {"set", "clear"})', OneOf(reroute, {"change"})',
         ~turned_down' => ~turned_down /\ RequestIsTheCall' /\ WantedIsOnItsWay'
  PROVE  AdaptorInv'
<1>1. ApiInv'
  BY StepKeepsApiInv DEF AdaptorInv
<1>2. AdaptorTypes' /\ wanted' = route_'
  BY DEF AdaptorInv, AdaptorTypes
<1> QED
  BY <1>1, <1>2 DEF AdaptorInv

LEMMA ResponseKeepsAdaptorInv ==
  ASSUME AdaptorInv, UNCHANGED ghosts, OnRouteState \/ OnResponse \/ OnRerouteResponse
  PROVE  AdaptorInv'
<1>1. /\ UNCHANGED <<vars, elapsed_count, route_, inputs, wanted, turned_down>>
      /\ \/ UNCHANGED <<request, reroute>>
         \/ request.at = "done" /\ request' = NoRequest /\ reroute' = reroute
         \/ reroute # NoRequest /\ reroute' = NoRequest /\ request' = request
  BY DEF OnRouteState, OnResponse, OnRerouteResponse, ghosts
<1>2. OneOf(request, {"set", "clear"})' /\ OneOf(reroute, {"change"})'
  BY <1>1 DEF AdaptorInv, AdaptorTypes, OneOf
<1>3. ASSUME ~turned_down PROVE RequestIsTheCall' /\ WantedIsOnItsWay'
  <2>1. RequestIsTheCall /\ WantedIsOnItsWay /\ UNCHANGED <<call, route>>
    BY <1>1, <1>3 DEF AdaptorInv, vars, serviceVars
  <2> QED
    BY <1>1, <2>1 DEF RequestIsTheCall, WantedIsOnItsWay, NoRequest, NoCall, Calls, SetCalls,
                      AcceptedIn
<1> QED
  BY <1>1, <1>2, <1>3, RequestKeepsAdaptorInv

(* A request that is refused is turned down. *)
LEMMA TakeRequestKeepsAdaptorInv ==
  ASSUME AdaptorInv, MCTakeRequest
  PROVE  AdaptorInv' /\ [Next]_vars
<1>1. /\ request.at = "sent" /\ request # NoRequest /\ request.op \in {"set", "clear"}
      /\ \/ Accepts(request.op) /\ request' = [request EXCEPT !.at = "taken"]
         \/ UNCHANGED vars /\ request' = [request EXCEPT !.at = "done"]
      /\ UNCHANGED <<elapsed_count, route_, reroute, inputs, wanted>>
      /\ turned_down' = (turned_down \/ request'.at = "done")
  BY DEF MCTakeRequest, TakeRequest, AdaptorInv, AdaptorTypes, OneOf, NoRequest
<1>2. CASE Accepts(request.op) /\ request' = [request EXCEPT !.at = "taken"]
  <2>1. call = NoCall /\ call' = request.op /\ UNCHANGED route /\ Next
    BY <1>1, <1>2 DEF Accepts, RequestClear, RequestRoute, idle, serviceVars, Next, Request,
                      SetCalls, AcceptedIn
  <2>2. OneOf(request, {"set", "clear"})' /\ OneOf(reroute, {"change"})'
    BY <1>1, <1>2 DEF AdaptorInv, AdaptorTypes, OneOf
  <2>3. ASSUME ~turned_down' PROVE RequestIsTheCall' /\ WantedIsOnItsWay'
    <3>1. RequestIsTheCall /\ WantedIsOnItsWay
      BY <1>1, <2>3 DEF AdaptorInv
    <3>2. /\ request'.at = "taken" /\ request'.op = request.op
          /\ request.op = "set" /\ request.route = route_ => request'.route = route_
      BY <1>1, <1>2
    <3> QED
      BY <1>1, <2>1, <3>1, <3>2 DEF RequestIsTheCall, WantedIsOnItsWay, NoCall
  <2> QED
    BY <1>1, <2>1, <2>2, <2>3, RequestKeepsAdaptorInv
<1>3. CASE UNCHANGED vars /\ request' = [request EXCEPT !.at = "done"]
  <2>1. OneOf(request, {"set", "clear"})' /\ OneOf(reroute, {"change"})' /\ turned_down'
    BY <1>1, <1>3 DEF AdaptorInv, AdaptorTypes, OneOf
  <2> QED
    BY <1>1, <1>3, <2>1, RequestKeepsAdaptorInv
<1> QED
  BY <1>1, <1>2, <1>3

LEMMA TakeRerouteKeepsAdaptorInv ==
  ASSUME AdaptorInv, TakeReroute, UNCHANGED ghosts
  PROVE  AdaptorInv' /\ [Next]_vars
<1>1. /\ reroute.at = "sent" /\ reroute # NoRequest /\ reroute.op = "change"
      /\ \/ RequestRoute("change") /\ reroute' = [reroute EXCEPT !.at = "taken"]
         \/ UNCHANGED vars /\ reroute' = [reroute EXCEPT !.at = "done"]
      /\ UNCHANGED <<elapsed_count, route_, request, inputs, wanted, turned_down>>
  BY DEF TakeReroute, Accepts, ghosts, AdaptorInv, AdaptorTypes, OneOf, NoRequest
<1>2. turned_down /\ [Next]_vars
  BY <1>1 DEF AdaptorInv, RequestIsTheCall, Next, Request, SetCalls, AcceptedIn
<1>3. OneOf(request, {"set", "clear"})' /\ OneOf(reroute, {"change"})'
  BY <1>1 DEF AdaptorInv, AdaptorTypes, OneOf
<1> QED
  BY <1>1, <1>2, <1>3, RequestKeepsAdaptorInv

(* The planner gets the route of the request. *)
LEMMA ServeRequestKeepsAdaptorInv ==
  ASSUME AdaptorInv, MCServeRequest
  PROVE  AdaptorInv'
<1>1. /\ call \in Calls /\ call' = Returned /\ Next
      /\ answer' = "success" => route' = Served.route
      /\ turned_down' = (turned_down \/ answer' # "success")
      /\ UNCHANGED <<elapsed_count, route_, inputs, wanted, request, reroute>>
  BY DEF MCServeRequest, ServeRequest, Serve, Next, adaptorVars
<1>2. OneOf(request, {"set", "clear"})' /\ OneOf(reroute, {"change"})'
  BY <1>1 DEF AdaptorInv, AdaptorTypes, OneOf
<1>3. ASSUME ~turned_down' PROVE RequestIsTheCall' /\ WantedIsOnItsWay'
  <2>1. RequestIsTheCall /\ WantedIsOnItsWay /\ answer' = "success"
    BY <1>1, <1>3 DEF AdaptorInv
  <2>2. request.at = "taken" /\ call = request.op /\ Served = request
    BY <1>1, <2>1 DEF RequestIsTheCall, Served, NoCall, Calls, SetCalls, AcceptedIn
  <2> QED
    BY <1>1, <2>1, <2>2 DEF RequestIsTheCall, WantedIsOnItsWay, NoRequest, NoCall, Returned,
                            Calls, SetCalls, AcceptedIn
<1> QED
  BY <1>1, <1>2, <1>3, RequestKeepsAdaptorInv

LEMMA RespondKeepsAdaptorInv ==
  ASSUME AdaptorInv, Respond, UNCHANGED ghosts
  PROVE  AdaptorInv'
<1>1. /\ call = Returned /\ call' = NoCall /\ UNCHANGED route /\ Next
      /\ IF request.at = "taken"
         THEN request' = [request EXCEPT !.at = "done"] /\ UNCHANGED reroute
         ELSE reroute' = [reroute EXCEPT !.at = "done"] /\ UNCHANGED request
      /\ UNCHANGED <<elapsed_count, route_, inputs, wanted, turned_down>>
  BY DEF Respond, Return, Next, serviceVars, ghosts
<1>2. OneOf(request, {"set", "clear"})' /\ OneOf(reroute, {"change"})'
  BY <1>1 DEF AdaptorInv, AdaptorTypes, OneOf, NoRequest
<1>3. ASSUME ~turned_down PROVE RequestIsTheCall' /\ WantedIsOnItsWay'
  <2>1. RequestIsTheCall /\ WantedIsOnItsWay
    BY <1>3 DEF AdaptorInv
  <2>2. request.at = "taken" /\ request # NoRequest
    BY <1>1, <2>1 DEF RequestIsTheCall, NoRequest, NoCall, Returned
  <2>3. request' = [request EXCEPT !.at = "done"] /\ UNCHANGED reroute
    BY <1>1, <2>2
  <2>4. request.op \in {"set", "clear"}
    BY <2>2 DEF AdaptorInv, AdaptorTypes, OneOf
  <2> QED
    BY <1>1, <2>1, <2>2, <2>3, <2>4
       DEF RequestIsTheCall, WantedIsOnItsWay, NoCall, Returned, Calls, SetCalls, AcceptedIn
<1> QED
  BY <1>1, <1>2, <1>3, RequestKeepsAdaptorInv

(* The topics, and the planner on its own, which keeps the route. *)
LEMMA ApiStepKeepsAdaptorInv ==
  ASSUME AdaptorInv, PublishState \/ OtherApiStep, UNCHANGED ghosts
  PROVE  AdaptorInv'
<1>1. /\ OnState \/ OnRoute \/ PlannerStep
      /\ UNCHANGED <<elapsed_count, route_, inputs, request, reroute, wanted, turned_down>>
  BY DEF PublishState, OtherApiStep, adaptorVars, ghosts
<1>2. Next /\ UNCHANGED <<call, route>>
  BY <1>1 DEF Next, Deliver, OnState, OnRoute, PlannerStep, serviceVars, Planner!Open,
              Planner!Arrive
<1>3. OneOf(request, {"set", "clear"})' /\ OneOf(reroute, {"change"})'
  BY <1>1 DEF AdaptorInv, AdaptorTypes, OneOf
<1>4. ASSUME ~turned_down PROVE RequestIsTheCall' /\ WantedIsOnItsWay'
  BY <1>1, <1>2, <1>4 DEF AdaptorInv, RequestIsTheCall, WantedIsOnItsWay
<1> QED
  BY <1>1, <1>2, <1>3, <1>4, RequestKeepsAdaptorInv

LEMMA InitiallyNothingIsWanted == WantedInit => AdaptorInv
<1> SUFFICES ASSUME WantedInit PROVE AdaptorInv
  OBVIOUS
<1>1. ApiInv /\ call = NoCall /\ route = NoRoute
  BY InitiallyQuiet DEF WantedInit, AdaptorInit, Init, Planner!Init
<1>2. AdaptorTypes /\ wanted = route_
  BY AdaptorAssumption DEF WantedInit, AdaptorInit, AdaptorTypes, OneOf, WaitingCount
<1>3. RequestIsTheCall /\ WantedIsOnItsWay
  BY <1>1 DEF WantedInit, AdaptorInit, RequestIsTheCall, WantedIsOnItsWay, NoRequest, NoCall,
              Calls, SetCalls, AcceptedIn
<1> QED
  BY <1>1, <1>2, <1>3 DEF AdaptorInv

LEMMA AdaptorStep ==
  AdaptorInv /\ [WantedNext]_<<allVars, ghosts>> => AdaptorInv' /\ [Next]_vars
<1> SUFFICES ASSUME AdaptorInv, [WantedNext]_<<allVars, ghosts>>
             PROVE  AdaptorInv' /\ [Next]_vars
  OBVIOUS
<1>1. CASE UNCHANGED <<allVars, ghosts>>
  <2>1. UNCHANGED <<vars, elapsed_count, route_, inputs, wanted, turned_down, request, reroute,
                    call, route>>
    BY <1>1 DEF allVars, adaptorVars, ghosts, vars, serviceVars
  <2>2. AdaptorInv'
    BY <2>1, RequestKeepsAdaptorInv
       DEF AdaptorInv, AdaptorTypes, OneOf, RequestIsTheCall, WantedIsOnItsWay
  <2> QED
    BY <2>1, <2>2
<1>2. CASE MCOnWaypoint \/ \E g \in Goals : MCOnGoal(g) \/ MCOnReroute(g)
  <2>1. UNCHANGED vars
    BY <1>2 DEF MCOnWaypoint, MCOnGoal, MCOnReroute, OnWaypoint, OnGoal, OnReroute
  <2> QED
    BY <1>2, <2>1, InputKeepsAdaptorInv
<1>3. CASE MCTakeRequest
  BY <1>3, TakeRequestKeepsAdaptorInv
<1>4. CASE MCServeRequest
  <2>1. Next
    BY <1>4 DEF MCServeRequest, ServeRequest, Next
  <2> QED
    BY <1>4, <2>1, ServeRequestKeepsAdaptorInv
<1>5. CASE OnTimer /\ UNCHANGED ghosts
  <2>1. UNCHANGED vars
    BY <1>5 DEF OnTimer
  <2> QED
    BY <1>5, <2>1, OnTimerKeepsAdaptorInv
<1>6. CASE (OnRouteState \/ OnResponse \/ OnRerouteResponse) /\ UNCHANGED ghosts
  <2>1. UNCHANGED vars
    BY <1>6 DEF OnRouteState, OnResponse, OnRerouteResponse
  <2> QED
    BY <1>6, <2>1, ResponseKeepsAdaptorInv
<1>7. CASE TakeReroute /\ UNCHANGED ghosts
  BY <1>7, TakeRerouteKeepsAdaptorInv
<1>8. CASE Respond /\ UNCHANGED ghosts
  <2>1. Next
    BY <1>8 DEF Respond, Next
  <2> QED
    BY <1>8, <2>1, RespondKeepsAdaptorInv
<1>9. CASE (PublishState \/ OtherApiStep) /\ UNCHANGED ghosts
  <2>1. Next
    BY <1>9 DEF PublishState, OtherApiStep, Next, Deliver
  <2> QED
    BY <1>9, <2>1, ApiStepKeepsAdaptorInv
<1> QED
  BY <1>1, <1>2, <1>3, <1>4, <1>5, <1>6, <1>7, <1>8, <1>9 DEF WantedNext

LEMMA AdaptorInvariance == WantedSpec => []AdaptorInv
BY InitiallyNothingIsWanted, AdaptorStep, PTL DEF WantedSpec

(* Type correctness of the adaptor and of the API it calls: no goal,       *)
(* waypoint or late response takes the counter or the route out of range.  *)
THEOREM AdaptorTypeCorrect == WantedSpec => []AdaptorTypeOK
<1>1. AdaptorInv => AdaptorTypeOK
  BY DEF AdaptorInv, ApiInv, ApiTypes, AdaptorTypes, AdaptorTypeOK, TypeOK, States, MaybeRoute,
         ToSet
<1> QED
  BY <1>1, AdaptorInvariance, PTL

(* However goals, waypoints, ticks and responses interleave: when the      *)
(* adaptor's timer has nothing left to do and no request was turned down,  *)
(* the planner has the route the user asked for last.                      *)
THEOREM TheLastGoalWins == WantedSpec => []LastGoalWins
<1>1. AdaptorInv => LastGoalWins
  BY DEF AdaptorInv, LastGoalWins, settled, calling_service_, WantedIsOnItsWay, NoRequest
<1> QED
  BY <1>1, AdaptorInvariance, PTL

(* The adaptor is a client of the API like any other: with it, the API and *)
(* the planner do nothing they do not do without it, so that what holds    *)
(* for all clients, patient or not, holds for it.                          *)
THEOREM AdaptorIsAClient == WantedSpec => Init /\ [][Next]_vars
<1>1. WantedInit => Init
  BY DEF WantedInit, AdaptorInit
<1> QED
  BY <1>1, AdaptorInvariance, AdaptorStep, PTL DEF WantedSpec
=============================================================================
