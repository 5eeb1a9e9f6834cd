------------------------------ MODULE RoutingApi ------------------------------
(***************************************************************************)
(* The routing AD API: default_adapi's RoutingNode between its clients,    *)
(* the mission planner, of which it relies on the RouteService promises    *)
(* only, and the command gate, whose operation mode it stops on arrival.   *)
(*                                                                         *)
(* The node's services and subscriptions share one mutually exclusive      *)
(* callback group, and a service callback waits in it for the planner's    *)
(* response: meanwhile no subscription callback runs.                      *)
(***************************************************************************)
EXTENDS RouteMessages, Topics

CONSTANTS Routes, NoRoute

ASSUME ApiAssumption == NoRoute \notin Routes

VARIABLES phase, route, answer, published  \* of the mission planner

Planner == INSTANCE RouteService

VARIABLES to_state, to_route,  \* messages on their way to on_state, on_route
          to_mode,             \* an operation mode is on its way to the node
          api_state,           \* state_.state
          api_auto,            \* is_auto_mode_ and is_autoware_control_
          api_moving,          \* ~vehicle_stop_checker_.isVehicleStopped()
          api_route,           \* the route the node published last
          call,                \* what its service callback is waiting for
          stop_request,        \* a STOP request is on its way to the gate
          stop_service,        \* cli_operation_mode_->service_is_ready()
          mode                 \* the operation mode of the command gate

nodeVars == <<api_state, api_auto, api_moving, api_route>>
gateVars == <<to_mode, stop_request, stop_service, mode>>
topics == <<to_state, to_route>>
serviceVars == <<phase, route, answer, published>>
vars == <<serviceVars, topics, nodeVars, gateVars, call>>

(* Autoware is in control exactly in AUTONOMOUS; "stop" stands for every   *)
(* other mode.                                                             *)
OperationModes == {"autonomous", "stop"}

(* Fault: set_route is accepted in SET, too. *)
AcceptedInBoth == [set |-> {"UNSET", "SET"}, change |-> {"SET"}]

(* set_route(_points) and change_route(_points) reach the same planner     *)
(* services, and are told apart by the state they are accepted in.         *)
AcceptedIn == [set |-> {"UNSET"}, change |-> {"SET"}]
SetCalls == DOMAIN AcceptedIn
Calls == SetCalls \cup {"clear"}

NoCall == "none"
Returned == "returned"

PublishRouting ==
  /\ to_state' \in Sent(to_state, published'.state)
  /\ to_route' \in Sent(to_route, published'.route)
-----------------------------------------------------------------------------
Init ==
  /\ Planner!Init
  /\ to_state = <<>> /\ to_route = <<>>
  /\ api_state = "UNKNOWN" /\ api_auto = FALSE /\ api_route = NoRoute
  /\ api_moving = TRUE
  /\ call = NoCall
  /\ to_mode = FALSE /\ stop_request = FALSE /\ mode = "stop"
  /\ stop_service = FALSE

(* The mission planner on its own: it opens, or the vehicle arrives. *)
PlannerStep ==
  /\ Planner!Open \/ Planner!Arrive
  /\ PublishRouting
  /\ UNCHANGED <<nodeVars, gateVars, call>>

(* The mission planner serves the request of the node. *)
Serve ==
  /\ call \in Calls
  /\ IF call = "clear" THEN Planner!ServeClear ELSE Planner!ServeSet
  /\ PublishRouting
  /\ call' = Returned
  /\ UNCHANGED <<nodeVars, gateVars>>

(* Fault: the response is handled in the callback group of the services.   *)
ReturnInServiceGroup ==
  /\ call = Returned
  /\ call = NoCall
  /\ call' = NoCall
  /\ UNCHANGED <<serviceVars, topics, nodeVars, gateVars>>

(* future.get(): the response arrives in the clients' callback group.      *)
Return ==
  /\ call = Returned
  /\ call' = NoCall
  /\ UNCHANGED <<serviceVars, topics, nodeVars, gateVars>>
-----------------------------------------------------------------------------
idle == call = NoCall

(* A refused request changes nothing and is left out, as is one made while *)
(* the planner's service is not ready.                                     *)
RequestRoute(c) ==
  /\ idle
  /\ api_state \in AcceptedIn[c]
  /\ call' = c
  /\ UNCHANGED <<serviceVars, topics, nodeVars, gateVars>>

(* For safety, do not clear the route while it is in use. *)
RequestClear ==
  /\ idle
  /\ ~(api_auto /\ api_moving)
  /\ call' = "clear"
  /\ UNCHANGED <<serviceVars, topics, nodeVars, gateVars>>

(* Fault: the stop mode is requested on SET instead of ARRIVED. *)
StopsInSet(s) == s = "SET" /\ api_auto /\ stop_service

(* change_stop_mode, called in ARRIVED: while the service is not ready it  *)
(* says so and gives up.                                                   *)
StopsIn(s) == s = "ARRIVED" /\ api_auto /\ stop_service

(* Fault: the published route stays when the planner has none. *)
RouteShownForever(s) == api_route

(* An empty route is published for UNSET. *)
RouteShown(s) == IF s = "UNSET" THEN NoRoute ELSE api_route

OnState ==
  /\ idle
  /\ \E i \in DOMAIN to_state :
       /\ to_state' = Taken(to_state, i)
       /\ api_state' = to_state[i]
       /\ api_route' = RouteShown(to_state[i])
       /\ stop_request' = (stop_request \/ StopsIn(to_state[i]))
  /\ UNCHANGED <<serviceVars, to_route, api_auto, api_moving, call, to_mode,
                 stop_service, mode>>

OnRoute ==
  /\ idle
  /\ \E i \in DOMAIN to_route :
       /\ to_route' = Taken(to_route, i)
       /\ api_route' = to_route[i]
  /\ UNCHANGED <<serviceVars, to_state, api_state, api_auto, api_moving, call,
                 gateVars>>

(* Only the latest operation mode is kept for the node. *)
OnOperationMode ==
  /\ idle /\ to_mode
  /\ to_mode' = FALSE
  /\ api_auto' = (mode = "autonomous")
  /\ UNCHANGED <<serviceVars, topics, api_state, api_moving, api_route, call,
                 stop_request, stop_service, mode>>

(* Odometry keeps coming, and the vehicle may have moved off or stopped;   *)
(* the buffer of the stop checker is reduced to its newest sample.         *)
OnKinematicState ==
  /\ idle
  /\ api_moving' \in BOOLEAN
  /\ UNCHANGED <<serviceVars, topics, api_state, api_auto, api_route, call,
                 gateVars>>
-----------------------------------------------------------------------------
(* The command gate changes the mode as it is told and publishes it. *)
ChangeMode(m) ==
  /\ mode' = m
  /\ to_mode' = TRUE
  /\ UNCHANGED <<serviceVars, topics, nodeVars, stop_service, call>>

UserMode == \E m \in OperationModes : ChangeMode(m) /\ UNCHANGED stop_request

StopMode == stop_request /\ stop_request' = FALSE /\ ChangeMode("stop")

(* The node finds the gate's service, or loses it, and with it perhaps the *)
(* request on its way.                                                     *)
Discovery ==
  /\ stop_service' = ~stop_service
  /\ stop_request' \in {stop_request, stop_request /\ stop_service'}
  /\ UNCHANGED <<serviceVars, topics, nodeVars, to_mode, mode, call>>

Request == RequestClear \/ \E c \in SetCalls : RequestRoute(c)

Deliver == OnState \/ OnRoute \/ OnOperationMode \/ OnKinematicState

Next ==
  \/ PlannerStep \/ Serve \/ Return
  \/ Request \/ Deliver
  \/ UserMode \/ StopMode \/ Discovery

(* Messages and responses arrive, the planner answers and the gate obeys.  *)
(* The executor takes what a subscription holds before the next service    *)
(* request, so a subscription is not starved by clients that call again    *)
(* and again: strong fairness.  Clients, user and vehicle owe nothing.     *)
Fairness ==
  /\ WF_vars(Serve) /\ WF_vars(Return) /\ WF_vars(StopMode)
  /\ SF_vars(OnState) /\ SF_vars(OnRoute) /\ SF_vars(OnOperationMode)

Spec == Init /\ [][Next]_vars /\ Fairness
-----------------------------------------------------------------------------
TypeOK ==
  /\ phase \in Phases
  /\ route \in Routes \cup {NoRoute}
  /\ ToSet(to_state) \subseteq Phases \cup BusyPhases
  /\ ToSet(to_route) \subseteq Routes
  /\ Len(to_state) <= 2 /\ Len(to_route) <= 2
  /\ api_state \in Phases \cup BusyPhases
  /\ api_route \in Routes \cup {NoRoute}
  /\ api_auto \in BOOLEAN /\ to_mode \in BOOLEAN
  /\ stop_request \in BOOLEAN /\ stop_service \in BOOLEAN
  /\ call \in Calls \cup {NoCall, Returned}
  /\ mode \in OperationModes

(* The node's view of the state is corrected again and again for as long   *)
(* as the planner stays in one state, however it got there and whatever    *)
(* was lost on the way.                                                    *)
ApiCatchesUp == \A s \in Phases : <>[](phase = s) => []<>(api_state = s)

(* The node never waits for the planner for ever.                          *)
ApiNeverHangs == []<>idle

(* "Change operation mode to stop when the vehicle arrives": an arrival on *)
(* its way to a node that knows of the autonomous mode ends that mode,     *)
(* whatever is asked of the node meanwhile.  The code makes no such effort *)
(* in two cases: the route is cleared before the node asks for the stop,   *)
(* or the gate's service is not ready, and the node does not try again.    *)
ArrivalStops ==
  (api_auto /\ "ARRIVED" \in ToSet(to_state)) ~>
    \/ mode # "autonomous"
    \/ phase # "ARRIVED" /\ ~stop_request
    \/ ~stop_service
=============================================================================
