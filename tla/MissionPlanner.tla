--------------------------- MODULE MissionPlanner ---------------------------
(***************************************************************************)
(* autoware_mission_planner: the MissionPlanner class as its node drives   *)
(* it.  The node runs its callbacks one at a time, so each handler is one  *)
(* action; "published" holds the messages the last callback published, by  *)
(* topic and in their order, and "reply" its service response.             *)
(***************************************************************************)
EXTENDS RouteHandler, ArrivalChecker, RouteMessages, Sequences

CONSTANTS AllowReroute,  \* allow_reroute_in_autonomous_mode
          Periods,       \* the times between two odometry messages
          Speeds         \* the speeds odometry reports, see Speed below

(* Speeds as far as the code tells them apart: "stopped" for the arrival   *)
(* checker (norm under 1e-3), "slow" for the reroute check (forward under  *)
(* 0.01, reversing included), "moving"; "none" before the first odometry.  *)
Speed == {"stopped", "slow", "moving"}

ASSUME PlannerAssumption ==
  /\ AllowReroute \in BOOLEAN
  /\ Periods \subseteq Nat \ {0}
  /\ Speeds \subseteq Speed

VARIABLES state, ready, current_route,
          planner,        \* the RouteHandler of planner_
          goal,           \* the route whose goal arrival_checker_ holds
          odometry,       \* speed, and the route whose goal it is at
          twist_buffer, operation_mode_state, reply, published

vars == <<state, ready, current_route, planner, goal, odometry,
          twist_buffer, operation_mode_state, reply, published>>
routing == <<current_route, planner, goal>>
sensing == <<odometry, twist_buffer, operation_mode_state>>

(* mode AUTONOMOUS with Autoware control is "autonomous", any other mode   *)
(* message "manual".                                                       *)
Modes == {"autonomous", "manual"}

Refusals == {"ERROR_INVALID_STATE", "ERROR_PLANNER_UNREADY"}
Failures == {"TRANSFORM_ERROR", "ERROR_PLANNER_FAILED", "ERROR_REROUTE_FAILED"}

Init ==
  /\ state = "UNKNOWN"
  /\ ready = FALSE
  /\ current_route = NoRoute
  /\ planner = InitialHandler
  /\ goal = NoRoute
  /\ odometry = [at |-> NoRoute, speed |-> "none"]
  /\ twist_buffer = EmptyBuffer
  /\ operation_mode_state = "none"
  /\ reply = "none"
  /\ published = NoMsgs
-----------------------------------------------------------------------------
(* Fault: readiness also waits for the operation mode. *)
DataReadyWithMode ==
  /\ planner.map # NoMap /\ odometry.speed # "none"
  /\ operation_mode_state # "none"

DataReady == planner.map # NoMap /\ odometry.speed # "none"

(* The 10 Hz timer, cancelled by the node once it succeeds. *)
CheckInitialization ==
  /\ ~ready
  /\ DataReady
  /\ ready' = TRUE
  /\ state' = "UNSET"
  /\ published' = StateMsgs(<<"UNSET">>)
  /\ reply' = "none"
  /\ UNCHANGED <<routing, sensing>>

(* Arrival is looked for in state SET only. *)
IsArrived(odom, buffer) ==
  state = "SET" /\ goal # NoRoute /\ odom.at = goal /\ IsVehicleStopped(buffer)

OnOdometry(dt, at, speed) ==
  LET odom == [at |-> at, speed |-> speed]
      buffer == UpdateTwist(twist_buffer, dt, speed = "stopped")
      arrived == IsArrived(odom, buffer)
  IN  /\ odometry' = odom
      /\ twist_buffer' = buffer
      /\ state' = IF arrived THEN "ARRIVED" ELSE state
      /\ published' = StateMsgs(IF arrived THEN <<"ARRIVED">> ELSE <<>>)
      /\ reply' = "none"
      /\ UNCHANGED <<ready, routing, operation_mode_state>>

OnOperationModeState(mode) ==
  /\ operation_mode_state' = mode
  /\ published' = NoMsgs
  /\ reply' = "none"
  /\ UNCHANGED <<state, ready, routing, odometry, twist_buffer>>

OnMap(m) ==
  /\ planner' = SetMap(planner, m)
  /\ published' = NoMsgs
  /\ reply' = "none"
  /\ UNCHANGED <<state, ready, current_route, goal, sensing>>
-----------------------------------------------------------------------------
is_reroute == state = "SET"
is_autonomous_driving == operation_mode_state = "autonomous"

(* Answer without doing anything. *)
Answer(code) ==
  /\ reply' = code
  /\ published' = NoMsgs
  /\ UNCHANGED <<state, ready, routing, sensing>>

(* Fault: the arrival checker keeps the goal of the cleared route.         *)
ProcessClearRouteKeepsGoal ==
  /\ current_route' = NoRoute
  /\ planner' = ClearHandlerRoute(planner)
  /\ UNCHANGED goal

ProcessClearRoute ==
  /\ current_route' = NoRoute
  /\ planner' = ClearHandlerRoute(planner)
  /\ goal' = NoRoute

ClearRoute ==
  \/ ~ready /\ Answer("NO_EFFECT")
  \/ /\ ready
     /\ ProcessClearRoute
     /\ state' = "UNSET"
     /\ published' = StateMsgs(<<"UNSET">>)
     /\ reply' = "success"
     /\ UNCHANGED <<ready, sensing>>

(* Fault: a route is taken in every state but UNKNOWN. *)
RefusalAfterArrivalMissing ==
  IF state = "UNKNOWN"
  THEN "ERROR_INVALID_STATE"
  ELSE IF is_reroute /\ operation_mode_state = "none"
       THEN "ERROR_PLANNER_UNREADY"
       ELSE "none"

(* The checks both set services make, in their order. *)
Refusal ==
  IF state \notin {"UNSET", "SET"}
  THEN "ERROR_INVALID_STATE"
  ELSE IF ~ready \/ (is_reroute /\ operation_mode_state = "none")
       THEN "ERROR_PLANNER_UNREADY"
       ELSE "none"

(* Only set_lanelet_route looks at allow_reroute_in_autonomous_mode. *)
LaneletRefusal ==
  IF Refusal = "none" /\ is_reroute /\ ~AllowReroute /\ is_autonomous_driving
  THEN "ERROR_INVALID_STATE"
  ELSE Refusal

(* Fault: the planner keeps the lanelets of the route it just failed on.   *)
CancelRouteDoesNothing(h) == h

(* The handler h after a failure: that of the current route, if there is one. *)
CancelRoute(h) ==
  IF current_route # NoRoute THEN SetRoute(h, current_route) ELSE h

BusyState == IF is_reroute THEN "REROUTING" ELSE "ROUTING"

(* Fault: a failed reroute ends in UNSET like a failed first route. *)
StateAfterFailureUnset == "UNSET"

StateAfterFailure == IF is_reroute THEN "SET" ELSE "UNSET"

AbandonRoute(code, h) ==
  /\ planner' = h
  /\ state' = StateAfterFailure
  /\ published' = StateMsgs(<<BusyState, StateAfterFailure>>)
  /\ reply' = code
  /\ UNCHANGED <<ready, current_route, goal, sensing>>

(* change_route, then the node publishes the route after the state. *)
ChangeRoute(r, h) ==
  /\ current_route' = r
  /\ planner' = SetRoute(h, r)
  /\ goal' = r
  /\ state' = "SET"
  /\ published' = RouteMsgs(<<BusyState, "SET">>, r)
  /\ reply' = "success"
  /\ UNCHANGED <<ready, sensing>>

(* check_reroute_safety on a map and odometry that are there: always safe  *)
(* when stopped or slow, otherwise by lengths this model does not carry.   *)
SafetyVerdicts == IF odometry.speed = "moving" THEN BOOLEAN ELSE {TRUE}

(* From the route a create_*_route function returned, h being the handler  *)
(* it left behind, to the end of the request.                              *)
FinishRoute(r, h) ==
  \/ /\ r = NoRoute
     /\ AbandonRoute("ERROR_PLANNER_FAILED", CancelRoute(h))
  \/ /\ r # NoRoute
     /\ is_reroute /\ is_autonomous_driving /\ FALSE \in SafetyVerdicts
     /\ AbandonRoute("ERROR_REROUTE_FAILED", CancelRoute(h))
  \/ r # NoRoute /\ ChangeRoute(r, h)

SetLaneletRoute(r) ==
  \/ LaneletRefusal # "none" /\ Answer(LaneletRefusal)
  \/ /\ LaneletRefusal = "none"
     /\ \/ AbandonRoute("TRANSFORM_ERROR", planner)
        \/ FinishRoute(r, planner)

(* DefaultPlanner::plan for points on the path r: there is no path; its    *)
(* lanelets are set in the handler before the goal is rejected or a loop   *)
(* found; or r is the route.                                               *)
PlanRoute(r) ==
  LET touched == SetRouteLanelets(planner, r)
  IN  \/ FinishRoute(NoRoute, planner)
      \/ /\ r \in ValidRoutes(planner)
         /\ \/ FinishRoute(NoRoute, touched)
            \/ r \notin LoopedRoutes /\ FinishRoute(r, touched)

SetWaypointRoute(r) ==
  \/ Refusal # "none" /\ Answer(Refusal)
  \/ /\ Refusal = "none"
     /\ \/ AbandonRoute("TRANSFORM_ERROR", planner)
        \/ PlanRoute(r)
-----------------------------------------------------------------------------
Odometry == \E dt \in Periods, at \in MaybeRoute, speed \in Speeds :
              OnOdometry(dt, at, speed)

Request == \/ ClearRoute
           \/ \E r \in MaybeRoute : SetLaneletRoute(r)
           \/ \E r \in Routes : SetWaypointRoute(r)

Next == \/ CheckInitialization
        \/ Odometry
        \/ \E mode \in Modes : OnOperationModeState(mode)
        \/ \E m \in Maps : OnMap(m)
        \/ Request

Spec == Init /\ [][Next]_vars

(* The timer fires until it is cancelled and localization keeps publishing. *)
FairSpec == Spec /\ WF_vars(CheckInitialization) /\ WF_vars(Odometry)
-----------------------------------------------------------------------------
Messages == [state : Seq((Phases \cup BusyPhases) \ {"UNKNOWN"}), route : Seq(Routes)]

(* Every variable keeps its type; a callback publishes states other than   *)
(* UNKNOWN, and routes, each on its topic.                                 *)
TypeOK ==
  /\ state \in Phases
  /\ ready \in BOOLEAN
  /\ current_route \in MaybeRoute
  /\ planner \in Handler
  /\ goal \in MaybeRoute
  /\ odometry \in [at : MaybeRoute, speed : Speed \cup {"none"}]
  /\ twist_buffer \in TwistBuffers
  /\ operation_mode_state \in Modes \cup {"none"}
  /\ reply \in {"none", "success", "NO_EFFECT"} \cup Refusals \cup Failures
  /\ published \in Messages

(* The state the clients see, the route object check_reroute_safety        *)
(* dereferences and the goal the arrival checker watches never disagree:   *)
(* a route is there exactly in SET and ARRIVED, whatever failed before.    *)
RouteMatchesState ==
  /\ state \in {"SET", "ARRIVED"} <=> current_route # NoRoute
  /\ goal = current_route
  /\ ready <=> state # "UNKNOWN"

(* Failed plans write their lanelets into the handler; still, while a      *)
(* route without a loop is active, the handler works on that very route,   *)
(* and completely so when the map allows it.                               *)
PlannerFollowsRoute ==
  current_route # NoRoute /\ current_route \notin LoopedRoutes =>
    /\ planner.route = current_route
    /\ current_route \in ValidRoutes(planner) =>
         /\ planner.ready
         /\ planner.lanelets = current_route
         /\ planner.preferred = current_route

(* isHandlerReady() holds only over lanelets of the present map, with the  *)
(* start and goal lanelets of the same path.                               *)
HandlerCoherent ==
  planner.ready =>
    /\ planner.lanelets # NoRoute
    /\ planner.ends = planner.lanelets
    /\ planner.on = planner.map

(* The original start and goal pose belong to a route message with the     *)
(* uuid of the present one, through reroutes, failures and restorations.   *)
OriginalPoseTracksUuid ==
  planner.route # NoRoute =>
    /\ planner.original # NoRoute
    /\ Uuid[planner.original] = Uuid[planner.route]

(* A request that fails is undone: the route, its goal and the published   *)
(* state stay, and the handler of an active route is as before.            *)
FailedRequestKeepsRoute ==
  [][reply' \in Refusals \cup Failures =>
       /\ UNCHANGED <<state, current_route, goal>>
       /\ current_route \in ValidRoutes(planner) \ LoopedRoutes =>
            UNCHANGED planner]_vars

(* What the response tells a client: its success field, and whether the    *)
(* request was taken up at all.                                            *)
Answered == CASE reply = "none" -> "none"
              [] reply \in {"success", "NO_EFFECT"} -> "success"
              [] reply \in Refusals -> "refused"
              [] reply \in Failures -> "failed"

(* The mission planner is a route service, down to the messages it         *)
(* publishes and the answers it gives: see RouteService.                   *)
Service == INSTANCE RouteService WITH phase <- state, route <- current_route,
                                      answer <- Answered
ImplementsRouteService == Service!Spec

(* A vehicle standing at the goal of its route does not do so for ever     *)
(* without being told it has arrived.                                      *)
ParkedIsNoticed ==
  []<>~(state = "SET" /\ odometry.at = goal /\ odometry.speed = "stopped")

(* Once the map and odometry are there the route API opens, whatever else  *)
(* has or has not been received.                                           *)
InitializationCompletes ==
  (planner.map # NoMap /\ odometry.speed # "none") ~> ready

(* "If false, reroute fails" (allow_reroute_in_autonomous_mode): while     *)
(* driving autonomously no request but a clear succeeds in state SET.      *)
RerouteForbidden ==
  [][~AllowReroute /\ is_reroute /\ is_autonomous_driving /\ reply' = "success"
       => state' = "UNSET"]_vars
=============================================================================
