---------------------------- MODULE RouteMessages ----------------------------
(***************************************************************************)
(* The two topics of the mission planner's interface: what one step        *)
(* publishes on each, in its order.                                        *)
(***************************************************************************)
StateMsgs(states) == [state |-> states, route |-> <<>>]
RouteMsgs(states, r) == [state |-> states, route |-> <<r>>]
NoMsgs == StateMsgs(<<>>)

(* state_ outside a request, and while one is being worked on.             *)
Phases == {"UNKNOWN", "UNSET", "SET", "ARRIVED"}
BusyPhases == {"ROUTING", "REROUTING"}
=============================================================================
