------------------------ MODULE MissionPlannerProofs ------------------------
(***************************************************************************)
(* Proofs about the mission planner for every set of routes and maps, both *)
(* settings of allow_reroute_in_autonomous_mode and any arrival duration.  *)
(***************************************************************************)
EXTENDS MCMissionPlanner, TLAPS

(* What every RouteHandler operation preserves, whoever calls it. *)
HandlerInv(h) ==
  /\ h \in Handler
  /\ h.ready => /\ h.lanelets # NoRoute
                /\ h.ends = h.lanelets
                /\ h.on = h.map
  /\ h.route # NoRoute => /\ h.original # NoRoute
                          /\ Uuid[h.original] = Uuid[h.route]

(* Reloading the lanelets from the route message keeps the invariant of a  *)
(* handler that was made not ready before, as both callers do.             *)
LEMMA ReloadKeepsHandler ==
  ASSUME NEW h, HandlerInv(h), ~h.ready
  PROVE  /\ HandlerInv(SetLaneletsFromRouteMsg(h))
         /\ SetLaneletsFromRouteMsg(h).route = h.route
         /\ SetLaneletsFromRouteMsg(h).map = h.map
         /\ h.route \in ValidRoutes(h) =>
              /\ SetLaneletsFromRouteMsg(h).ready
              /\ SetLaneletsFromRouteMsg(h).lanelets = h.route
              /\ SetLaneletsFromRouteMsg(h).preferred = h.route
BY RouteAssumption
   DEF HandlerInv, SetLaneletsFromRouteMsg, ValidRoutes, Handler, MaybeRoute,
       MaybeMap

(* setMap: the invariant holds on the new map, and the route stays. *)
LEMMA SetMapKeepsHandler ==
  ASSUME NEW h, HandlerInv(h), NEW m \in Maps
  PROVE  /\ HandlerInv(SetMap(h, m))
         /\ SetMap(h, m).route = h.route
         /\ SetMap(h, m).map = m
         /\ h.route \in ValidOn[m] =>
              /\ SetMap(h, m).ready
              /\ SetMap(h, m).lanelets = h.route
              /\ SetMap(h, m).preferred = h.route
<1> DEFINE g == [h EXCEPT !.map = m, !.ready = FALSE]
<1>1. HandlerInv(g) /\ ~g.ready /\ g.route = h.route /\ g.map = m
  BY DEF HandlerInv, Handler, MaybeMap
<1>2. ValidRoutes(g) = ValidOn[m]
  BY <1>1, RouteAssumption DEF ValidRoutes
<1>3. SetMap(h, m) = SetLaneletsFromRouteMsg(g)
  BY DEF SetMap
<1> HIDE DEF g
<1> QED
  BY <1>1, <1>2, <1>3, ReloadKeepsHandler

(* setRoute: a route without a loop becomes the route of the handler, a    *)
(* looped one changes nothing.                                             *)
LEMMA SetRouteKeepsHandler ==
  ASSUME NEW h, HandlerInv(h), NEW r \in Routes
  PROVE  /\ HandlerInv(SetRoute(h, r))
         /\ SetRoute(h, r).map = h.map
         /\ r \in LoopedRoutes => SetRoute(h, r) = h
         /\ r \notin LoopedRoutes =>
              /\ SetRoute(h, r).route = r
              /\ r \in ValidRoutes(h) =>
                   /\ SetRoute(h, r).ready
                   /\ SetRoute(h, r).lanelets = r
                   /\ SetRoute(h, r).preferred = r
<1>1. CASE r \in LoopedRoutes
  BY <1>1 DEF SetRoute
<1>2. CASE r \notin LoopedRoutes
  <2> DEFINE g == [h EXCEPT !.route = r, !.ready = FALSE,
                            !.original = IF h.route = NoRoute \/ Uuid[h.route] # Uuid[r]
                                         THEN r ELSE h.original]
  <2>1. HandlerInv(g) /\ ~g.ready /\ g.route = r /\ g.map = h.map
    BY RouteAssumption DEF HandlerInv, Handler, MaybeRoute
  <2>2. ValidRoutes(g) = ValidRoutes(h)
    BY <2>1 DEF ValidRoutes
  <2>3. SetRoute(h, r) = SetLaneletsFromRouteMsg(g)
    BY <1>2 DEF SetRoute
  <2> HIDE DEF g
  <2> QED
    BY <1>2, <2>1, <2>2, <2>3, ReloadKeepsHandler
<1> QED
  BY <1>1, <1>2

(* setRouteLanelets and clearRoute. *)
LEMMA TouchKeepsHandler ==
  ASSUME NEW h, HandlerInv(h), NEW r \in Routes
  PROVE  /\ HandlerInv(SetRouteLanelets(h, r))
         /\ SetRouteLanelets(h, r).route = h.route
         /\ SetRouteLanelets(h, r).map = h.map
BY RouteAssumption
   DEF HandlerInv, SetRouteLanelets, Handler, MaybeRoute, MaybeMap

LEMMA ClearKeepsHandler ==
  ASSUME NEW h, HandlerInv(h)
  PROVE  HandlerInv(ClearHandlerRoute(h))
BY DEF HandlerInv, ClearHandlerRoute, Handler, MaybeRoute, MaybeMap
-----------------------------------------------------------------------------
(* The inductive invariant.  What PlannerFollowsRoute needs beyond itself  *)
(* is the handler's own invariant and the agreement of state and route.    *)
IInv ==
  /\ TypeOK
  /\ HandlerInv(planner)
  /\ RouteMatchesState
  /\ PlannerFollowsRoute

(* The arrival checker's buffer keeps its window. *)
LEMMA UpdateTwistType ==
  ASSUME NEW buffer \in TwistBuffers, NEW dt \in Nat \ {0}, NEW stopped \in BOOLEAN
  PROVE  UpdateTwist(buffer, dt, stopped) \in TwistBuffers
<1>1. PICK ages \in SUBSET (0..BufferTime) : buffer \in [ages -> BOOLEAN]
  BY DEF TwistBuffers
<1> DEFINE kept == {age + dt : age \in DOMAIN buffer} \cap (0..BufferTime)
           all == {0} \cup kept
<1>2. all \in SUBSET (0..BufferTime)
  BY ArrivalAssumption DEF ArrivalAssumption
<1>3. ASSUME NEW age \in all, age # 0
      PROVE  buffer[age - dt] \in BOOLEAN
  <2>1. PICK old \in DOMAIN buffer : age = old + dt
    BY <1>3
  <2>2. old \in ages /\ old \in Int
    BY <1>1, <2>1
  <2>3. age - dt = old
    BY <2>1, <2>2
  <2> QED
    BY <1>1, <2>2, <2>3
<1>4. [age \in all |-> IF age = 0 THEN stopped ELSE buffer[age - dt]] \in [all -> BOOLEAN]
  BY <1>3
<1> QED
  BY <1>2, <1>4 DEF UpdateTwist, TwistBuffers

LEMMA StateMessages ==
  /\ NoMsgs \in Messages
  /\ StateMsgs(<<>>) \in Messages
  /\ StateMsgs(<<"UNSET">>) \in Messages
  /\ StateMsgs(<<"ARRIVED">>) \in Messages
  /\ StateMsgs(<<BusyState, StateAfterFailure>>) \in Messages
<1>1. BusyState \in {"ROUTING", "REROUTING"} /\ StateAfterFailure \in {"SET", "UNSET"}
  BY DEF BusyState, StateAfterFailure
<1> QED
  BY <1>1 DEF Messages, NoMsgs, StateMsgs, Phases, BusyPhases

LEMMA AcceptMessages ==
  ASSUME NEW r \in Routes
  PROVE  RouteMsgs(<<BusyState, "SET">>, r) \in Messages
BY DEF Messages, RouteMsgs, BusyState, Phases, BusyPhases

(* A failed request: the handler it leaves must be sound, and the one of   *)
(* the current route.                                                      *)
LEMMA AbandonStep ==
  ASSUME IInv, state \in {"UNSET", "SET"},
         NEW code \in Failures, NEW h, HandlerInv(h), h.map = planner.map,
         current_route # NoRoute /\ current_route \notin LoopedRoutes =>
            /\ h.route = current_route
            /\ current_route \in ValidRoutes(h) =>
                 h.ready /\ h.lanelets = current_route /\ h.preferred = current_route,
         AbandonRoute(code, h)
  PROVE  IInv'
<1>1. state' = state /\ current_route' = current_route /\ goal' = goal /\ ready' = ready
  BY DEF AbandonRoute, StateAfterFailure, is_reroute
<1>2. published' \in Messages
  BY StateMessages DEF AbandonRoute
<1>3. TypeOK'
  BY <1>1, <1>2 DEF IInv, TypeOK, AbandonRoute, HandlerInv, sensing
<1>4. HandlerInv(planner)' /\ RouteMatchesState' /\ PlannerFollowsRoute'
  BY <1>1 DEF IInv, RouteMatchesState, PlannerFollowsRoute, AbandonRoute,
              HandlerInv, ValidRoutes
<1> QED
  BY <1>3, <1>4 DEF IInv
LEMMA AcceptStep ==
  ASSUME IInv, state \in {"UNSET", "SET"}, NEW r \in Routes,
         NEW h, HandlerInv(h), ChangeRoute(r, h)
  PROVE  IInv'
<1>1. HandlerInv(planner') /\ planner' = SetRoute(h, r)
  BY SetRouteKeepsHandler DEF ChangeRoute
<1>2. ValidRoutes(planner') = ValidRoutes(h)
  BY <1>1, SetRouteKeepsHandler DEF ValidRoutes
<1>3. r \in MaybeRoute /\ r # NoRoute
  BY RouteAssumption DEF MaybeRoute
<1>4. published' \in Messages
  BY AcceptMessages DEF ChangeRoute
<1>5. TypeOK'
  BY <1>1, <1>3, <1>4 DEF IInv, TypeOK, Phases, ChangeRoute, HandlerInv, sensing
<1>6. RouteMatchesState'
  BY <1>3 DEF ChangeRoute, RouteMatchesState, IInv
<1>7. PlannerFollowsRoute'
  BY <1>1, <1>2, SetRouteKeepsHandler DEF ChangeRoute, PlannerFollowsRoute
<1>8. HandlerInv(planner)'
  BY <1>1 DEF HandlerInv
<1> QED
  BY <1>5, <1>6, <1>7, <1>8 DEF IInv

(* The handler after cancel_route, from the one a plan left behind, which  *)
(* has the route message and the map of the handler before the plan.       *)
LEMMA CancelRestores ==
  ASSUME IInv, NEW h, HandlerInv(h), h.route = planner.route, h.map = planner.map
  PROVE  LET g == CancelRoute(h)
         IN  /\ HandlerInv(g) /\ g.map = planner.map
             /\ current_route # NoRoute /\ current_route \notin LoopedRoutes =>
                  /\ g.route = current_route
                  /\ current_route \in ValidRoutes(g) =>
                       g.ready /\ g.lanelets = current_route /\ g.preferred = current_route
<1>1. CASE current_route = NoRoute
  BY <1>1 DEF CancelRoute
<1>2. CASE current_route # NoRoute
  <2>1. current_route \in Routes
    BY <1>2 DEF IInv, TypeOK, MaybeRoute
  <2>2. CancelRoute(h) = SetRoute(h, current_route)
    BY <1>2 DEF CancelRoute
  <2>3. ValidRoutes(SetRoute(h, current_route)) = ValidRoutes(h)
    BY <2>1, SetRouteKeepsHandler DEF ValidRoutes
  <2> QED
    BY <2>1, <2>2, <2>3, SetRouteKeepsHandler
<1> QED
  BY <1>1, <1>2

LEMMA FinishStep ==
  ASSUME IInv, state \in {"UNSET", "SET"}, NEW r \in MaybeRoute,
         NEW h, HandlerInv(h), h.route = planner.route, h.map = planner.map,
         FinishRoute(r, h)
  PROVE  IInv'
<1>1. CASE r = NoRoute /\ AbandonRoute("ERROR_PLANNER_FAILED", CancelRoute(h))
  BY <1>1, CancelRestores, AbandonStep DEF Failures
<1>2. CASE AbandonRoute("ERROR_REROUTE_FAILED", CancelRoute(h))
  BY <1>2, CancelRestores, AbandonStep DEF Failures
<1>3. CASE r # NoRoute /\ ChangeRoute(r, h)
  BY <1>3, AcceptStep DEF MaybeRoute
<1> QED
  BY <1>1, <1>2, <1>3 DEF FinishRoute

LEMMA AnswerStep ==
  ASSUME IInv, NEW code \in {"NO_EFFECT"} \cup Refusals, Answer(code)
  PROVE  IInv'
<1>1. UNCHANGED <<state, ready, current_route, planner, goal, odometry,
                  twist_buffer, operation_mode_state>>
  BY DEF Answer, routing, sensing
<1>2. NoMsgs \in Messages
  BY StateMessages
<1> QED
  BY <1>1, <1>2 DEF IInv, TypeOK, RouteMatchesState, PlannerFollowsRoute,
                    HandlerInv, ValidRoutes, Answer

LEMMA RefusalType ==
  /\ Refusal \in Refusals \cup {"none"}
  /\ LaneletRefusal \in Refusals \cup {"none"}
  /\ Refusal = "none" => state \in {"UNSET", "SET"}
  /\ LaneletRefusal = "none" => state \in {"UNSET", "SET"}
BY DEF Refusal, LaneletRefusal, Refusals

LEMMA TransformStep ==
  ASSUME IInv, state \in {"UNSET", "SET"}, AbandonRoute("TRANSFORM_ERROR", planner)
  PROVE  IInv'
BY AbandonStep DEF Failures, IInv, PlannerFollowsRoute

LEMMA SetLaneletRouteStep ==
  ASSUME IInv, NEW r \in MaybeRoute, SetLaneletRoute(r)
  PROVE  IInv'
<1>1. CASE LaneletRefusal # "none" /\ Answer(LaneletRefusal)
  BY <1>1, RefusalType, AnswerStep
<1>2. CASE LaneletRefusal = "none" /\ AbandonRoute("TRANSFORM_ERROR", planner)
  BY <1>2, RefusalType, TransformStep
<1>3. CASE LaneletRefusal = "none" /\ FinishRoute(r, planner)
  BY <1>3, RefusalType, FinishStep DEF IInv
<1> QED
  BY <1>1, <1>2, <1>3 DEF SetLaneletRoute

LEMMA SetWaypointRouteStep ==
  ASSUME IInv, NEW r \in Routes, SetWaypointRoute(r)
  PROVE  IInv'
<1> DEFINE touched == SetRouteLanelets(planner, r)
<1>1. HandlerInv(planner) /\ HandlerInv(touched)
      /\ touched.route = planner.route /\ touched.map = planner.map
  BY TouchKeepsHandler DEF IInv
<1>2. r \in MaybeRoute /\ NoRoute \in MaybeRoute
  BY DEF MaybeRoute
<1> HIDE DEF touched
<1>3. CASE Refusal # "none" /\ Answer(Refusal)
  BY <1>3, RefusalType, AnswerStep
<1>4. CASE Refusal = "none" /\ AbandonRoute("TRANSFORM_ERROR", planner)
  BY <1>4, RefusalType, TransformStep
<1>5. CASE Refusal = "none" /\ FinishRoute(NoRoute, planner)
  BY <1>1, <1>2, <1>5, RefusalType, FinishStep
<1>6. CASE Refusal = "none" /\ FinishRoute(NoRoute, touched)
  BY <1>1, <1>2, <1>6, RefusalType, FinishStep
<1>7. CASE Refusal = "none" /\ FinishRoute(r, touched)
  BY <1>1, <1>2, <1>7, RefusalType, FinishStep
<1> QED
  BY <1>3, <1>4, <1>5, <1>6, <1>7 DEF SetWaypointRoute, PlanRoute, touched
-----------------------------------------------------------------------------
LEMMA InitIInv == Init => IInv
<1> SUFFICES ASSUME Init PROVE IInv
  OBVIOUS
<1>1. InitialHandler \in Handler /\ HandlerInv(InitialHandler)
  BY DEF InitialHandler, Handler, HandlerInv, MaybeRoute, MaybeMap
<1>2. EmptyBuffer \in TwistBuffers
  BY DEF EmptyBuffer, TwistBuffers
<1>3. /\ odometry \in [at : MaybeRoute, speed : Speed \cup {"none"}]
      /\ published \in Messages
  BY StateMessages DEF Init, MaybeRoute
<1>4. TypeOK
  BY <1>1, <1>2, <1>3 DEF Init, TypeOK, Phases, MaybeRoute
<1> QED
  BY <1>1, <1>4 DEF Init, IInv, RouteMatchesState, PlannerFollowsRoute

LEMMA OdometryStep ==
  ASSUME IInv, NEW dt \in Periods, NEW at \in MaybeRoute, NEW speed \in Speeds,
         OnOdometry(dt, at, speed)
  PROVE  IInv'
<1>1. twist_buffer' \in TwistBuffers
  BY UpdateTwistType, PlannerAssumption DEF OnOdometry, IInv, TypeOK
<1>2. odometry' \in [at : MaybeRoute, speed : Speed \cup {"none"}]
  BY PlannerAssumption DEF OnOdometry
<1>3. published' \in Messages
  BY StateMessages DEF OnOdometry
<1>4. UNCHANGED <<ready, current_route, planner, goal, operation_mode_state>>
  BY DEF OnOdometry, routing
<1>5. state' = state \/ (state = "SET" /\ state' = "ARRIVED")
  BY DEF OnOdometry, IsArrived
<1>6. reply' = "none"
  BY DEF OnOdometry
<1>7. TypeOK'
  BY <1>1, <1>2, <1>3, <1>4, <1>5, <1>6 DEF IInv, TypeOK, Phases
<1> QED
  BY <1>4, <1>5, <1>7 DEF IInv, RouteMatchesState, PlannerFollowsRoute,
                          HandlerInv, ValidRoutes
(* Every step of the mission planner keeps the inductive invariant. *)
LEMMA NextIInv == IInv /\ [Next]_vars => IInv'
<1> SUFFICES ASSUME IInv, [Next]_vars PROVE IInv'
  OBVIOUS
<1>1. CASE CheckInitialization
  <2>1. published' \in Messages
    BY <1>1, StateMessages DEF CheckInitialization
  <2> QED
    BY <1>1, <2>1 DEF CheckInitialization, routing, sensing, IInv, TypeOK, Phases,
         RouteMatchesState, PlannerFollowsRoute, HandlerInv, ValidRoutes
<1>2. CASE Odometry
  BY <1>2, OdometryStep DEF Odometry
<1>3. ASSUME NEW mode \in Modes, OnOperationModeState(mode)
      PROVE  IInv'
  <2>1. published' \in Messages
    BY <1>3, StateMessages DEF OnOperationModeState
  <2> QED
    BY <1>3, <2>1 DEF OnOperationModeState, routing, IInv, TypeOK,
         RouteMatchesState, PlannerFollowsRoute, HandlerInv, ValidRoutes
<1>4. ASSUME NEW m \in Maps, OnMap(m)
      PROVE  IInv'
  <2>1. published' \in Messages /\ planner' = SetMap(planner, m)
    BY <1>4, StateMessages DEF OnMap
  <2>2. HandlerInv(planner)' /\ planner' \in Handler
    BY <2>1, SetMapKeepsHandler DEF IInv, HandlerInv
  <2>3. ValidRoutes(planner)' = ValidOn[m]
    BY <2>1, SetMapKeepsHandler, RouteAssumption DEF ValidRoutes, IInv
  <2>4. PlannerFollowsRoute'
    BY <1>4, <2>1, <2>3, SetMapKeepsHandler DEF OnMap, IInv, PlannerFollowsRoute
  <2>5. TypeOK' /\ RouteMatchesState'
    BY <1>4, <2>1, <2>2 DEF OnMap, sensing, IInv, TypeOK, RouteMatchesState
  <2> QED
    BY <2>2, <2>4, <2>5 DEF IInv
<1>5. CASE ClearRoute
  <2>1. CASE ~ready
    BY <1>5, <2>1, AnswerStep DEF ClearRoute
  <2>2. CASE ready
    <3>1. published' \in Messages
      BY <1>5, <2>2, StateMessages DEF ClearRoute
    <3>2. HandlerInv(planner)' /\ planner' \in Handler
      BY <1>5, <2>2, ClearKeepsHandler
         DEF ClearRoute, ProcessClearRoute, IInv, HandlerInv
    <3>3. /\ state' = "UNSET" /\ current_route' = NoRoute /\ goal' = NoRoute
          /\ reply' = "success" /\ UNCHANGED <<ready, sensing>>
      BY <1>5, <2>2 DEF ClearRoute, ProcessClearRoute
    <3> QED
      BY <2>2, <3>1, <3>2, <3>3 DEF sensing, IInv, TypeOK, Phases, MaybeRoute,
           RouteMatchesState, PlannerFollowsRoute
  <2> QED
    BY <2>1, <2>2
<1>6. ASSUME NEW r \in MaybeRoute, SetLaneletRoute(r)
      PROVE  IInv'
  BY <1>6, SetLaneletRouteStep
<1>7. ASSUME NEW r \in Routes, SetWaypointRoute(r)
      PROVE  IInv'
  BY <1>7, SetWaypointRouteStep
<1>8. CASE UNCHANGED vars
  BY <1>8 DEF vars, IInv, TypeOK, RouteMatchesState, PlannerFollowsRoute,
              HandlerInv, ValidRoutes
<1> QED
  BY <1>1, <1>2, <1>3, <1>4, <1>5, <1>6, <1>7, <1>8 DEF Next, Request

-----------------------------------------------------------------------------
(* The inductive invariant holds in every reachable state. *)
THEOREM Invariance == Spec => []IInv
<1>1. Init => IInv
  BY InitIInv
<1>2. IInv /\ [Next]_vars => IInv'
  BY NextIInv
<1> QED
  BY <1>1, <1>2, PTL DEF Spec

(* Type correctness of the mission planner. *)
THEOREM TypeCorrect == Spec => []TypeOK
<1>1. IInv => TypeOK
  BY DEF IInv
<1> QED
  BY <1>1, Invariance, PTL

(* A route is there exactly in SET and ARRIVED, and it is the one the      *)
(* arrival checker watches: check_reroute_safety never dereferences a null *)
(* current_route_.                                                         *)
THEOREM RouteAlwaysMatchesState == Spec => []RouteMatchesState
<1>1. IInv => RouteMatchesState
  BY DEF IInv
<1> QED
  BY <1>1, Invariance, PTL

(* Plans that fail never leave the handler on another route than the       *)
(* active one (cancel_route restores it).                                  *)
THEOREM PlannerAlwaysFollowsRoute == Spec => []PlannerFollowsRoute
<1>1. IInv => PlannerFollowsRoute
  BY DEF IInv
<1> QED
  BY <1>1, Invariance, PTL

(* The RouteHandler is ready only over coherent lanelets of the present    *)
(* map: isHandlerReady() after any sequence of maps, plans and failures.   *)
THEOREM HandlerAlwaysCoherent == Spec => []HandlerCoherent
<1>1. IInv => HandlerCoherent
  BY DEF IInv, HandlerInv, HandlerCoherent
<1> QED
  BY <1>1, Invariance, PTL

(* The original start and goal poses belong to the uuid of the route of    *)
(* the handler, whatever setRoute and clearRoute were called with.         *)
THEOREM OriginalPoseAlwaysTracksUuid == Spec => []OriginalPoseTracksUuid
<1>1. IInv => OriginalPoseTracksUuid
  BY DEF IInv, HandlerInv, OriginalPoseTracksUuid
<1> QED
  BY <1>1, Invariance, PTL
-----------------------------------------------------------------------------
(* What a response says of the request. *)
LEMMA AnsweredIs ==
  /\ reply' = "none" => Answered' = "none"
  /\ reply' = "success" => Answered' = "success"
  /\ reply' = "NO_EFFECT" => Answered' = "success"
  /\ reply' \in Refusals => Answered' = "refused"
  /\ reply' \in Failures => Answered' = "failed"
BY DEF Answered, Refusals, Failures

(* An abandoned request is a Fail of the service, ChangeRoute an Accept. *)
LEMMA AbandonMaps ==
  ASSUME state \in {"UNSET", "SET"}, NEW code \in Failures, NEW h, AbandonRoute(code, h)
  PROVE  Service!Fail
BY AnsweredIs DEF AbandonRoute, StateAfterFailure, BusyState, is_reroute,
                  Service!Fail, Service!Busy, StateMsgs, Service!StateMsgs

LEMMA ChangeMaps ==
  ASSUME state \in {"UNSET", "SET"}, NEW r \in Routes, NEW h, ChangeRoute(r, h)
  PROVE  Service!Accept(r)
BY AnsweredIs DEF ChangeRoute, BusyState, is_reroute, Service!Accept, Service!Busy,
                  StateMsgs, Service!StateMsgs, RouteMsgs, Service!RouteMsgs

LEMMA FinishMaps ==
  ASSUME state \in {"UNSET", "SET"}, NEW r \in MaybeRoute, NEW h, FinishRoute(r, h)
  PROVE  Service!Fail \/ \E s \in Routes : Service!Accept(s)
BY AbandonMaps, ChangeMaps DEF FinishRoute, Failures, MaybeRoute

LEMMA TransformMaps ==
  ASSUME state \in {"UNSET", "SET"}, AbandonRoute("TRANSFORM_ERROR", planner)
  PROVE  Service!Fail
BY AbandonMaps DEF Failures

(* No request is refused in UNSET. *)
LEMMA RefusalMaps ==
  /\ IInv /\ Refusal # "none" /\ Answer(Refusal) => Service!Refuse
  /\ IInv /\ LaneletRefusal # "none" /\ Answer(LaneletRefusal) => Service!Refuse
<1>1. IInv /\ (Refusal # "none" \/ LaneletRefusal # "none") => state # "UNSET"
  BY DEF Refusal, LaneletRefusal, is_reroute, IInv, RouteMatchesState
<1>2. ASSUME NEW code \in Refusals, Answer(code), state # "UNSET"
      PROVE  Service!Refuse
  BY <1>2, AnsweredIs DEF Answer, routing, Service!Refuse, NoMsgs, Service!NoMsgs,
                          StateMsgs, Service!StateMsgs
<1> QED
  BY <1>1, <1>2, RefusalType

(* A step without a message and a response leaves the clients nothing to   *)
(* see.                                                                    *)
LEMMA QuietMaps ==
  ASSUME published' = NoMsgs, reply' = "none", UNCHANGED <<state, current_route>>
  PROVE  Service!Quiet
BY AnsweredIs DEF Service!Quiet, NoMsgs, Service!NoMsgs, StateMsgs, Service!StateMsgs

(* What each callback of the mission planner is to the clients of its      *)
(* services and topics.                                                    *)
CallbacksServe ==
  /\ CheckInitialization => Service!Open
  /\ Odometry => Service!Arrive \/ Service!Quiet
  /\ \A operation_mode \in Modes : OnOperationModeState(operation_mode) => Service!Quiet
  /\ \A m \in Maps : OnMap(m) => Service!Quiet
  /\ ClearRoute => Service!ServeClear
  /\ \A r \in MaybeRoute : SetLaneletRoute(r) => Service!ServeSet
  /\ \A r \in Routes : SetWaypointRoute(r) => Service!ServeSet

(* Each of them is. *)
LEMMA CallbacksMap == IInv => CallbacksServe
<1> SUFFICES ASSUME IInv PROVE CallbacksServe
  OBVIOUS
<1>a. NoRoute \in MaybeRoute /\ Routes \subseteq MaybeRoute
  BY DEF MaybeRoute
<1>1. ASSUME CheckInitialization
      PROVE  Service!Open
  BY <1>1, AnsweredIs DEF CheckInitialization, routing, IInv, RouteMatchesState,
                          Service!Open, StateMsgs, Service!StateMsgs
<1>2. ASSUME Odometry
      PROVE  Service!Arrive \/ Service!Quiet
  <2>1. PICK dt \in Periods, at \in MaybeRoute, speed \in Speeds : OnOdometry(dt, at, speed)
    BY <1>2 DEF Odometry
  <2> DEFINE arrived == IsArrived([at |-> at, speed |-> speed],
                                  UpdateTwist(twist_buffer, dt, speed = "stopped"))
  <2>2. CASE arrived
    BY <2>1, <2>2, AnsweredIs DEF OnOdometry, IsArrived, routing, Service!Arrive,
                                  StateMsgs, Service!StateMsgs
  <2>3. CASE ~arrived
    <3>1. published' = NoMsgs /\ reply' = "none" /\ UNCHANGED <<state, current_route>>
      BY <2>1, <2>3 DEF OnOdometry, routing, NoMsgs
    <3> QED
      BY <3>1, QuietMaps
  <2> QED
    BY <2>2, <2>3
<1>3. ASSUME NEW operation_mode \in Modes, OnOperationModeState(operation_mode)
      PROVE  Service!Quiet
  BY <1>3, QuietMaps DEF OnOperationModeState, routing
<1>4. ASSUME NEW m \in Maps, OnMap(m)
      PROVE  Service!Quiet
  BY <1>4, QuietMaps DEF OnMap
<1>5. ASSUME ClearRoute
      PROVE  Service!ServeClear
  <2>1. CASE ~ready /\ Answer("NO_EFFECT")
    <3>1. Service!ClearNothing
      BY <2>1, AnsweredIs DEF Answer, routing, IInv, RouteMatchesState, Service!ClearNothing,
                                NoMsgs, Service!NoMsgs, StateMsgs, Service!StateMsgs
    <3> QED
      BY <3>1 DEF Service!ServeClear
  <2>2. CASE ready
    <3>1. Service!Clear
      BY <1>5, <2>2, AnsweredIs
         DEF ClearRoute, ProcessClearRoute, IInv, RouteMatchesState, Service!Clear,
             StateMsgs, Service!StateMsgs
    <3> QED
      BY <3>1 DEF Service!ServeClear
  <2> QED
    BY <1>5, <2>1, <2>2 DEF ClearRoute
<1>6. ASSUME NEW r \in MaybeRoute, SetLaneletRoute(r)
      PROVE  Service!ServeSet
  BY <1>6, RefusalMaps, TransformMaps, FinishMaps, RefusalType
     DEF SetLaneletRoute, Service!ServeSet
<1>7. ASSUME NEW r \in Routes, SetWaypointRoute(r)
      PROVE  Service!ServeSet
  BY <1>7, <1>a, RefusalMaps, TransformMaps, FinishMaps, RefusalType
     DEF SetWaypointRoute, PlanRoute, Service!ServeSet
<1> QED
  BY <1>1, <1>2, <1>3, <1>4, <1>5, <1>6, <1>7 DEF CallbacksServe

(* Every request is answered by one of the steps RoutingApi composes with: *)
(* a callback that serves a clear does what a clear of the service does,   *)
(* one that serves a route what it does with a route, and no other         *)
(* callback answers, or changes the route.                                 *)
THEOREM CallbacksAlwaysServe == Spec => [][CallbacksServe]_vars
<1>1. IInv /\ [Next]_vars => [CallbacksServe]_vars
  BY CallbacksMap
<1> QED
  BY <1>1, Invariance, PTL DEF Spec

(* Each step of the mission planner is a step of the service. *)
LEMMA StepMaps == IInv /\ [Next]_vars => [Service!Next]_(Service!serviceVars)
<1> SUFFICES ASSUME IInv, [Next]_vars
             PROVE  Service!Next \/ UNCHANGED Service!serviceVars
  OBVIOUS
<1>1. CASE Next
  BY <1>1, CallbacksMap DEF CallbacksServe, Next, Request, Service!Next
<1>2. CASE UNCHANGED vars
  BY <1>2 DEF vars, Service!serviceVars, Answered
<1> QED
  BY <1>1, <1>2

(* The mission planner implements the route service its clients rely on,   *)
(* with the messages it publishes and the answers it gives: a route is     *)
(* accepted only in UNSET or SET, kept through every failure, removed      *)
(* after arrival by a clear only, and no request is refused in UNSET.      *)
THEOREM Refinement == Spec => ImplementsRouteService
<1>1. Init => Service!Init
  <2>1. reply = "none" => Answered = "none"
    BY DEF Answered, Refusals, Failures
  <2> QED
    BY <2>1 DEF Init, Service!Init, NoMsgs, Service!NoMsgs, StateMsgs, Service!StateMsgs
<1>2. IInv /\ [Next]_vars => [Service!Next]_(Service!serviceVars)
  BY StepMaps
<1> QED
  BY <1>1, <1>2, Invariance, PTL DEF Spec, ImplementsRouteService, Service!Spec
-----------------------------------------------------------------------------
(* cancel_route after any plan gives back the very handler of before, when *)
(* the active route has no loop and is valid on the present map.           *)
LEMMA RestoreExact ==
  ASSUME IInv, current_route \in ValidRoutes(planner) \ LoopedRoutes,
         NEW r \in Routes, NEW h \in {planner, SetRouteLanelets(planner, r)}
  PROVE  CancelRoute(h) = planner
<1>1. current_route \in Routes /\ current_route # NoRoute /\ planner.map # NoMap
  BY RouteAssumption DEF ValidRoutes, IInv, TypeOK, Handler, MaybeMap
<1>2. planner \in Handler
  BY DEF IInv, TypeOK
<1>3. /\ planner.route = current_route
      /\ planner.ready
      /\ planner.lanelets = current_route
      /\ planner.preferred = current_route
      /\ planner.ends = current_route
      /\ planner.on = planner.map
  BY <1>1 DEF IInv, PlannerFollowsRoute, HandlerInv
<1>4. /\ h \in Handler
      /\ h.route = current_route /\ h.map = planner.map
      /\ h.original = planner.original
  BY <1>2, <1>3 DEF SetRouteLanelets, Handler, MaybeRoute, MaybeMap
<1>5. CancelRoute(h) = SetLaneletsFromRouteMsg([h EXCEPT !.route = current_route,
                                                       !.ready = FALSE,
                                                       !.original = h.original])
  BY <1>1, <1>4 DEF CancelRoute, SetRoute
<1> DEFINE g == [h EXCEPT !.route = current_route, !.ready = FALSE,
                          !.original = h.original]
<1>6. /\ g \in Handler
      /\ g.route = current_route /\ g.map = planner.map
      /\ g.original = planner.original
  BY <1>1, <1>4 DEF Handler, MaybeRoute
<1>7. current_route \in ValidRoutes(g)
  BY <1>6 DEF ValidRoutes
<1> HIDE DEF g
<1>8. SetLaneletsFromRouteMsg(g) =
        [g EXCEPT !.lanelets = current_route, !.on = planner.map,
                  !.preferred = current_route, !.ends = current_route, !.ready = TRUE]
  BY <1>1, <1>6, <1>7 DEF SetLaneletsFromRouteMsg
<1> DEFINE restored == [map |-> planner.map, route |-> current_route,
                        lanelets |-> current_route, on |-> planner.map,
                        preferred |-> current_route, ends |-> current_route,
                        original |-> planner.original, ready |-> TRUE]
<1>9. planner = restored
  BY <1>2, <1>3 DEF Handler
<1>10. SetLaneletsFromRouteMsg(g) = restored
  BY <1>6, <1>8 DEF Handler
<1> QED
  BY <1>5, <1>9, <1>10 DEF g

LEMMA FinishFails ==
  ASSUME IInv, state \in {"UNSET", "SET"}, NEW p \in Routes, NEW r \in MaybeRoute,
         NEW h \in {planner, SetRouteLanelets(planner, p)}, FinishRoute(r, h),
         reply' \in Refusals \cup Failures
  PROVE  /\ UNCHANGED <<state, current_route, goal>>
         /\ current_route \in ValidRoutes(planner) \ LoopedRoutes => UNCHANGED planner
<1>1. PICK code \in Failures : AbandonRoute(code, CancelRoute(h))
  BY DEF FinishRoute, ChangeRoute, Refusals, Failures
<1>2. UNCHANGED <<state, current_route, goal>> /\ planner' = CancelRoute(h)
  BY <1>1 DEF AbandonRoute, StateAfterFailure, is_reroute
<1> QED
  BY <1>2, RestoreExact

(* A refused or failed request is undone completely: the route, the goal   *)
(* of the arrival checker, the state, and the handler of an active route.  *)
THEOREM FailureIsUndone == Spec => FailedRequestKeepsRoute
<1> DEFINE Undone == /\ UNCHANGED <<state, current_route, goal>>
                     /\ current_route \in ValidRoutes(planner) \ LoopedRoutes =>
                          UNCHANGED planner
           Failed == reply' \in Refusals \cup Failures
<1>1. ASSUME IInv, Next, Failed PROVE Undone
  <2> USE <1>1
  <2>a. reply' # "none" /\ reply' # "success"
    BY DEF Refusals, Failures
  <2>b. ASSUME NEW code, Answer(code) PROVE Undone
    BY <2>b DEF Answer, routing
  <2>c. ASSUME state \in {"UNSET", "SET"}, AbandonRoute("TRANSFORM_ERROR", planner)
        PROVE  Undone
    BY <2>c DEF AbandonRoute, StateAfterFailure, is_reroute
  <2>1. CASE CheckInitialization
    BY <2>1, <2>a DEF CheckInitialization
  <2>2. CASE Odometry
    BY <2>2, <2>a DEF Odometry, OnOdometry
  <2>3. CASE (\E mode \in Modes : OnOperationModeState(mode)) \/ \E m \in Maps : OnMap(m)
    BY <2>3, <2>a DEF OnOperationModeState, OnMap
  <2>4. CASE ClearRoute
    BY <2>4, <2>a, <2>b DEF ClearRoute
  <2>5. ASSUME NEW r \in MaybeRoute, SetLaneletRoute(r)
        PROVE  Undone
    <3>1. CASE Answer(LaneletRefusal)
      BY <3>1, <2>b
    <3>2. CASE state \in {"UNSET", "SET"} /\ AbandonRoute("TRANSFORM_ERROR", planner)
      BY <3>2, <2>c
    <3>3. CASE state \in {"UNSET", "SET"} /\ FinishRoute(r, planner)
      <4>1. CASE Routes = {}
        <5>1. AbandonRoute("ERROR_PLANNER_FAILED", CancelRoute(planner))
          BY <3>3, <4>1, RouteAssumption DEF FinishRoute, MaybeRoute
        <5>2. current_route \notin ValidRoutes(planner)
          BY <4>1, RouteAssumption DEF ValidRoutes, IInv, TypeOK, Handler, MaybeMap
        <5> QED
          BY <3>3, <5>1, <5>2 DEF AbandonRoute, StateAfterFailure, is_reroute
      <4>2. CASE Routes # {}
        BY <3>3, <4>2, FinishFails
      <4> QED
        BY <4>1, <4>2
    <3> QED
      BY <2>5, <3>1, <3>2, <3>3, RefusalType DEF SetLaneletRoute
  <2>6. ASSUME NEW r \in Routes, SetWaypointRoute(r)
        PROVE  Undone
    <3>1. CASE Answer(Refusal)
      BY <3>1, <2>b
    <3>2. CASE state \in {"UNSET", "SET"} /\ AbandonRoute("TRANSFORM_ERROR", planner)
      BY <3>2, <2>c
    <3>3. CASE state \in {"UNSET", "SET"} /\ PlanRoute(r)
      BY <3>3, FinishFails DEF PlanRoute, MaybeRoute
    <3> QED
      BY <2>6, <3>1, <3>2, <3>3, RefusalType DEF SetWaypointRoute
  <2> QED
    BY <2>1, <2>2, <2>3, <2>4, <2>5, <2>6 DEF Next, Request
<1>2. IInv /\ [Next]_vars => [Failed => Undone]_vars
  BY <1>1
<1> QED
  BY <1>2, Invariance, PTL DEF Spec, FailedRequestKeepsRoute
-----------------------------------------------------------------------------
(* As far back as the buffer holds stopped samples only, odometry has      *)
(* reported nothing else; the samples it dropped play no part.             *)
StillInv ==
  /\ twist_buffer \in TwistBuffers /\ still \in NotStill..MaxStill
  /\ \A age \in DOMAIN twist_buffer :
       (\A younger \in DOMAIN twist_buffer : younger <= age => twist_buffer[younger])
         => still >= age

LEMMA StillTypes ==
  /\ ArrivalDuration \in Nat /\ BufferTime \in Nat /\ MaxStill = BufferTime + 1 /\ NotStill = -1
  /\ \A buffer \in TwistBuffers :
       /\ DOMAIN buffer \subseteq 0..BufferTime
       /\ \A age \in DOMAIN buffer : age \in Nat /\ age <= BufferTime /\ buffer[age] \in BOOLEAN
<1>1. ArrivalDuration \in Nat /\ BufferTime \in Nat
  BY ArrivalAssumption
<1>2. ASSUME NEW buffer \in TwistBuffers
      PROVE  /\ DOMAIN buffer \subseteq 0..BufferTime
             /\ \A age \in DOMAIN buffer :
                  age \in Nat /\ age <= BufferTime /\ buffer[age] \in BOOLEAN
  <2>1. PICK ages \in SUBSET (0..BufferTime) : buffer \in [ages -> BOOLEAN]
    BY <1>2 DEF TwistBuffers
  <2> QED
    BY <1>1, <2>1
<1> QED
  BY <1>1, <1>2 DEF MaxStill, NotStill

LEMMA OdometryKeepsStill ==
  ASSUME StillInv, MCOdometry
  PROVE  StillInv'
<1>1. PICK dt \in Periods, at \in MaybeRoute, speed \in Speeds :
        /\ OnOdometry(dt, at, speed)
        /\ still' = IF speed # "stopped" THEN NotStill
                    ELSE IF still = NotStill THEN 0
                    ELSE IF still + dt > MaxStill THEN MaxStill ELSE still + dt
  BY DEF MCOdometry
<1> DEFINE stopped == speed = "stopped"
           buffer == twist_buffer
           kept == {age + dt : age \in DOMAIN buffer} \cap (0..BufferTime)
           new == UpdateTwist(buffer, dt, stopped)
<1>2. dt \in Nat \ {0} /\ stopped \in BOOLEAN /\ buffer \in TwistBuffers
      /\ still \in NotStill..MaxStill
  BY PlannerAssumption DEF StillInv
<1>3. twist_buffer' = new /\ new \in TwistBuffers
  BY <1>1, <1>2, UpdateTwistType DEF OnOdometry
<1>4. /\ 0 \in DOMAIN new /\ new[0] = stopped
      /\ DOMAIN new = {0} \cup kept
      /\ \A age \in kept : age # 0 => new[age] = buffer[age - dt]
  BY DEF UpdateTwist
<1>5. ASSUME NEW old \in DOMAIN buffer, old + dt <= BufferTime
      PROVE  old + dt \in DOMAIN new /\ new[old + dt] = buffer[old]
  <2> DEFINE age == old + dt
  <2>1. old \in Nat /\ age \in kept /\ age # 0 /\ age - dt = old
    BY <1>2, <1>5, StillTypes
  <2> HIDE DEF age, new, kept
  <2>2. age \in DOMAIN new /\ new[age] = buffer[old]
    BY <1>4, <2>1
  <2> QED
    BY <2>2 DEF age
<1>6. ASSUME NEW age \in DOMAIN new
      PROVE  age = 0 \/ \E old \in DOMAIN buffer : age = old + dt
  <2> HIDE DEF new
  <2> QED
    BY <1>4
<1> HIDE DEF new, kept
<1>7. still' \in NotStill..MaxStill
  <2>1. still' \in {NotStill, 0, MaxStill} \/ (still # NotStill /\ still' = still + dt /\ ~(still + dt > MaxStill))
    BY <1>1
  <2> QED
    BY <1>2, <2>1, StillTypes
<1>8. ASSUME NEW age \in DOMAIN new,
             \A younger \in DOMAIN new : younger <= age => new[younger]
      PROVE  still' >= age
  <2>1. age \in Nat /\ age <= BufferTime
    BY <1>3, StillTypes
  <2>2. stopped
    <3>1. 0 <= age
      BY <2>1
    <3>2. new[0]
      BY <1>4, <1>8, <3>1
    <3> QED
      BY <1>4, <3>2, Zenon
  <2>3. still' = IF still = NotStill THEN 0
                 ELSE IF still + dt > MaxStill THEN MaxStill ELSE still + dt
    BY <1>1, <2>2
  <2>4. CASE age = 0
    BY <1>2, <2>3, <2>4, StillTypes
  <2>5. CASE age # 0
    <3>1. PICK old \in DOMAIN buffer : age = old + dt
      BY <1>6, <2>5
    <3>2. \A younger \in DOMAIN buffer : younger <= old => buffer[younger]
      <4> SUFFICES ASSUME NEW younger \in DOMAIN buffer, younger <= old PROVE buffer[younger]
        OBVIOUS
      <4>1. younger \in Nat /\ old \in Nat /\ younger + dt <= age /\ younger + dt <= BufferTime
        BY <1>2, <2>1, <3>1, StillTypes
      <4> QED
        BY <1>5, <1>8, <4>1
    <3>3. still >= old /\ old \in Nat
      BY <1>2, <3>2, StillTypes DEF StillInv
    <3> QED
      BY <1>2, <2>1, <2>3, <3>1, <3>3, StillTypes
  <2> QED
    BY <2>4, <2>5
<1> QED
  BY <1>3, <1>7, <1>8 DEF StillInv

(* Only odometry finds that the vehicle has arrived. *)
LEMMA OthersDoNotArrive ==
  ASSUME \/ CheckInitialization
         \/ \E mode \in Modes : OnOperationModeState(mode)
         \/ \E m \in Maps : OnMap(m)
         \/ Request
  PROVE  twist_buffer' = twist_buffer /\ (state' = "ARRIVED" => state = "ARRIVED")
<1> DEFINE Calm == twist_buffer' = twist_buffer /\ (state' = "ARRIVED" => state = "ARRIVED")
<1>1. ASSUME NEW code, Answer(code) PROVE Calm
  BY <1>1 DEF Answer, sensing
<1>2. ASSUME NEW code, NEW h, AbandonRoute(code, h) PROVE Calm
  BY <1>2 DEF AbandonRoute, StateAfterFailure, sensing
<1>3. ASSUME NEW r, NEW h, FinishRoute(r, h) PROVE Calm
  BY <1>2, <1>3 DEF FinishRoute, ChangeRoute, sensing
<1>4. CASE CheckInitialization
  BY <1>4 DEF CheckInitialization, sensing
<1>5. CASE (\E mode \in Modes : OnOperationModeState(mode)) \/ \E m \in Maps : OnMap(m)
  BY <1>5 DEF OnOperationModeState, OnMap, sensing
<1>6. CASE ClearRoute
  BY <1>1, <1>6 DEF ClearRoute, sensing
<1>7. ASSUME NEW r, SetLaneletRoute(r) PROVE Calm
  BY <1>1, <1>2, <1>3, <1>7 DEF SetLaneletRoute
<1>8. ASSUME NEW r, SetWaypointRoute(r) PROVE Calm
  BY <1>1, <1>2, <1>3, <1>8 DEF SetWaypointRoute, PlanRoute
<1> QED
  BY <1>4, <1>5, <1>6, <1>7, <1>8 DEF Request

LEMMA StillInvariance == MCSpec => []StillInv
<1>1. MCInit => StillInv
  <2>1. EmptyBuffer \in TwistBuffers /\ DOMAIN EmptyBuffer = {}
    BY DEF EmptyBuffer, TwistBuffers
  <2> QED
    BY <2>1, StillTypes DEF MCInit, Init, StillInv
<1>2. StillInv /\ [MCNext]_<<vars, still>> => StillInv'
  <2>1. CASE MCOdometry
    BY <2>1, OdometryKeepsStill
  <2>2. ASSUME StillInv, UNCHANGED <<twist_buffer, still>> PROVE StillInv'
    BY <2>2 DEF StillInv
  <2> QED
    BY <2>1, <2>2, OthersDoNotArrive DEF MCNext, vars
<1> QED
  BY <1>1, <1>2, PTL DEF MCSpec

(* Arrival is announced only when odometry has reported nothing but a      *)
(* stopped vehicle for arrival_check_duration, however irregularly it came *)
(* and whatever the twist buffer has dropped since (isVehicleStopped).     *)
THEOREM StillWhenItArrives == MCSpec => ArrivesOnlyWhenStill
<1> DEFINE Arrives == state' = "ARRIVED" /\ state # "ARRIVED"
<1>1. ASSUME StillInv', MCNext, Arrives PROVE still' >= ArrivalDuration
  <2>1. MCOdometry
    BY <1>1, OthersDoNotArrive DEF MCNext
  <2>2. IsVehicleStopped(twist_buffer')
    BY <1>1, <2>1 DEF MCOdometry, OnOdometry, IsArrived
  <2>3. PICK age \in DOMAIN twist_buffer' :
          /\ age >= ArrivalDuration
          /\ \A younger \in DOMAIN twist_buffer' : younger <= age => twist_buffer'[younger]
    BY <2>2 DEF IsVehicleStopped
  <2>4. still' >= age /\ age \in Nat /\ still' \in Int
    BY <1>1, <2>3, StillTypes DEF StillInv
  <2> QED
    BY <2>3, <2>4, StillTypes
<1>2. StillInv' /\ [MCNext]_<<vars, still>>
        => [Arrives => still' >= ArrivalDuration]_<<vars, still>>
  BY <1>1
<1> QED
  BY <1>2, StillInvariance, PTL DEF MCSpec, ArrivesOnlyWhenStill
=============================================================================
