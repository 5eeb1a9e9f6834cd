---------------------------- MODULE RoutingAdaptor ----------------------------
(***************************************************************************)
(* adapi_adaptors' RoutingAdaptor, which turns the goals and waypoints of  *)
(* a user into calls of the routing AD API, on top of RoutingApi.  It is   *)
(* the only client, and the vehicle is not in autonomous mode.             *)
(***************************************************************************)
EXTENDS RoutingApi

CONSTANTS Goals,      \* the goals a user sets
          MaxInputs   \* bound: goals, waypoints and reroutes of the user

ASSUME AdaptorAssumption == MaxInputs \in Nat

(* g_waiting_count_from_last_request *)
WaitingCount == 3

(* A route request: its goal and the number of its waypoints. *)
RouteRequests == [goal : Goals, waypoints : 0..MaxInputs]

VARIABLES elapsed_count,   \* elapsed_count_from_last_request_
          route_,          \* the request being put together
          adaptor_state,   \* state_ of the adaptor
          to_adaptor,      \* states the API published, on their way
          request,         \* the clear or set request under way
          reroute,         \* the change request under way
          inputs           \* how many inputs the user has made

(* A request under way: sent, taken by the API node, and done; "refused"   *)
(* is done as well.  calling_service_ says that request is not NoRequest.  *)
NoRequest == [op |-> "none", at |-> "done"]
Sends(op, r) == [op |-> op, at |-> "sent", route |-> r]
calling_service_ == request # NoRequest

adaptorVars == <<elapsed_count, route_, adaptor_state, to_adaptor, request,
                 reroute, inputs>>
allVars == <<vars, adaptorVars>>

(* convert_state: the API has no routing state. *)
ExternalState(s) == CASE s = "ROUTING"   -> "UNSET"
                      [] s = "REROUTING" -> "CHANGING"
                      [] OTHER           -> s

AdaptorInit ==
  /\ Init
  /\ elapsed_count = 0
  /\ route_ = NoRoute
  /\ adaptor_state = "UNKNOWN"
  /\ to_adaptor = <<>>
  /\ request = NoRequest
  /\ reroute = NoRequest
  /\ inputs = 0
-----------------------------------------------------------------------------
UserInput == inputs < MaxInputs /\ inputs' = inputs + 1

(* Fault: a new goal keeps the waypoints of the last one. *)
SetGoalKeepsWaypoints(g) ==
  [goal |-> g, waypoints |-> IF route_ = NoRoute THEN 0 ELSE route_.waypoints]

SetGoal(g) == [goal |-> g, waypoints |-> 0]

(* on_fixed_goal, on_rough_goal *)
OnGoal(g) ==
  /\ UserInput
  /\ elapsed_count' = 1
  /\ route_' = SetGoal(g)
  /\ UNCHANGED <<vars, adaptor_state, to_adaptor, request, reroute>>

(* A waypoint in another frame than the goal's is dropped. *)
OnWaypoint ==
  /\ UserInput
  /\ route_ # NoRoute
  /\ elapsed_count' = 1
  /\ route_' = [route_ EXCEPT !.waypoints = @ + 1]
  /\ UNCHANGED <<vars, adaptor_state, to_adaptor, request, reroute>>

(* A second reroute before the first is answered is left out. *)
OnReroute(g) ==
  /\ UserInput
  /\ reroute = NoRequest
  /\ reroute' = Sends("change", [goal |-> g, waypoints |-> 0])
  /\ UNCHANGED <<vars, elapsed_count, route_, adaptor_state, to_adaptor, request>>

(* Fault: the counter has no upper limit. *)
decide_routing_action_uncapped(count, calling, unset) ==
  IF count = 0 THEN [action |-> "none", count |-> 0]
  ELSE IF count + 1 < WaitingCount \/ calling
       THEN [action |-> "none", count |-> count + 1]
       ELSE IF unset THEN [action |-> "set", count |-> 0]
            ELSE [action |-> "clear", count |-> count + 1]

(* Fault: the clear already ends the wait. *)
decide_routing_action_once(count, calling, unset) ==
  LET ticks == IF count \in 1..(WaitingCount - 1) THEN count + 1 ELSE count
  IN  IF ticks # WaitingCount \/ calling
      THEN [action |-> "none", count |-> ticks]
      ELSE [action |-> IF unset THEN "set" ELSE "clear", count |-> 0]

(* What a tick of the timer does, and the counter after it: a clear leaves *)
(* it due, so that the next tick looks again.                              *)
decide_routing_action(count, calling, unset) ==
  LET ticks == IF count \in 1..(WaitingCount - 1) THEN count + 1 ELSE count
  IN  IF ticks # WaitingCount \/ calling
      THEN [action |-> "none", count |-> ticks]
      ELSE IF unset THEN [action |-> "set", count |-> 0]
           ELSE [action |-> "clear", count |-> ticks]

OnTimer ==
  LET decision == decide_routing_action(elapsed_count, calling_service_,
                                        adaptor_state = "UNSET")
  IN  /\ elapsed_count' = decision.count
      /\ request' = CASE decision.action = "none"  -> request
                      [] decision.action = "set"   -> Sends("set", route_)
                      [] decision.action = "clear" -> Sends("clear", NoRoute)
      /\ UNCHANGED <<vars, route_, adaptor_state, to_adaptor, reroute, inputs>>

OnRouteState ==
  /\ \E i \in DOMAIN to_adaptor :
       /\ adaptor_state' = to_adaptor[i]
       /\ to_adaptor' = Taken(to_adaptor, i)
  /\ UNCHANGED <<vars, elapsed_count, route_, request, reroute, inputs>>

(* calling_service_ = false, whatever the response says. *)
OnResponse ==
  /\ request.at = "done" /\ calling_service_
  /\ request' = NoRequest
  /\ UNCHANGED <<vars, elapsed_count, route_, adaptor_state, to_adaptor, reroute, inputs>>

OnRerouteResponse ==
  /\ reroute.at = "done" /\ reroute # NoRequest
  /\ reroute' = NoRequest
  /\ UNCHANGED <<vars, elapsed_count, route_, adaptor_state, to_adaptor, request, inputs>>
-----------------------------------------------------------------------------
(* What the API node and the planner do, and what it means to the adaptor. *)
Accepts(op) == IF op = "clear" THEN RequestClear ELSE RequestRoute(op)
Refuses(op) == op # "clear" /\ idle /\ api_state \notin AcceptedIn[op]

(* The API node takes a request of the adaptor, or refuses it. *)
TakeRequest ==
  /\ request.at = "sent"
  /\ \/ Accepts(request.op) /\ request' = [request EXCEPT !.at = "taken"]
     \/ Refuses(request.op) /\ request' = [request EXCEPT !.at = "done"] /\ UNCHANGED vars
  /\ UNCHANGED <<elapsed_count, route_, adaptor_state, to_adaptor, reroute, inputs>>

TakeReroute ==
  /\ reroute.at = "sent"
  /\ \/ Accepts("change") /\ reroute' = [reroute EXCEPT !.at = "taken"]
     \/ Refuses("change") /\ reroute' = [reroute EXCEPT !.at = "done"] /\ UNCHANGED vars
  /\ UNCHANGED <<elapsed_count, route_, adaptor_state, to_adaptor, request, inputs>>

Served == IF request.at = "taken" THEN request ELSE reroute

ServeRequest ==
  /\ Serve
  /\ answer' = "success" => route' = Served.route
  /\ UNCHANGED adaptorVars

Respond ==
  /\ Return
  /\ IF request.at = "taken"
     THEN request' = [request EXCEPT !.at = "done"] /\ UNCHANGED reroute
     ELSE reroute' = [reroute EXCEPT !.at = "done"] /\ UNCHANGED request
  /\ UNCHANGED <<elapsed_count, route_, adaptor_state, to_adaptor, inputs>>

PublishState ==
  /\ OnState
  /\ to_adaptor' \in Sent(to_adaptor, <<ExternalState(api_state')>>)
  /\ UNCHANGED <<elapsed_count, route_, adaptor_state, request, reroute, inputs>>

OtherApiStep == (PlannerStep \/ OnRoute) /\ UNCHANGED adaptorVars

AdaptorNext ==
  \/ \E g \in Goals : OnGoal(g) \/ OnReroute(g)
  \/ OnWaypoint \/ OnTimer \/ OnRouteState \/ OnResponse \/ OnRerouteResponse
  \/ TakeRequest \/ TakeReroute \/ ServeRequest \/ Respond
  \/ PublishState \/ OtherApiStep

(* The timer ticks, messages and responses arrive, and no request starves. *)
AdaptorFairness ==
  /\ WF_allVars(OnTimer) /\ WF_allVars(OnRouteState)
  /\ WF_allVars(OnResponse) /\ WF_allVars(OnRerouteResponse)
  /\ SF_allVars(TakeRequest) /\ SF_allVars(TakeReroute)
  /\ WF_allVars(ServeRequest) /\ WF_allVars(Respond)
  /\ SF_allVars(PublishState)

AdaptorSpec == AdaptorInit /\ [][AdaptorNext]_allVars /\ AdaptorFairness
-----------------------------------------------------------------------------
(* Types of the variables of the API and of the adaptor.                   *)
AdaptorTypeOK ==
  /\ TypeOK
  /\ elapsed_count \in 0..WaitingCount
  /\ route_ \in RouteRequests \cup {NoRoute}
  /\ inputs \in 0..MaxInputs

(* A clear made for a goal is followed by the request for its route, once  *)
(* the planner is ready: the adaptor does not leave the vehicle without    *)
(* one.                                                                    *)
ClearLeadsToSet ==
  (request.op = "clear" /\ phase # "UNKNOWN") ~> (request.op = "set")

(* "When a goal pose topic is received, reset the waypoints and call the   *)
(* API. [...] The clear API is called automatically before setting the     *)
(* route": the API has no reason to refuse the adaptor's route, at least   *)
(* not one that will not be sent again.                                    *)
GoalIsNotDropped ==
  [][request.op = "set" /\ request.at = "sent" /\ request'.at = "done"
       => elapsed_count # 0]_allVars

settled ==
  /\ elapsed_count = 0 /\ ~calling_service_ /\ reroute = NoRequest
  /\ call = NoCall /\ to_state = <<>> /\ to_adaptor = <<>>
=============================================================================
