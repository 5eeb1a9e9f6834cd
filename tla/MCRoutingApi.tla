----------------------------- MODULE MCRoutingApi -----------------------------
(***************************************************************************)
(* RoutingApi with two routes; "patient" tells whether every request so    *)
(* far was made with no message of the planner still under way.            *)
(***************************************************************************)
EXTENDS RoutingApi

CONSTANTS r1, r2

MCRoutes == {r1, r2}

VARIABLE patient

nothingUnderWay == to_state = <<>> /\ to_route = <<>>

MCInit == Init /\ patient = TRUE

MCNext ==
  /\ Next
  /\ patient' = (patient /\ (idle /\ call' \in Calls => nothingUnderWay))

MCSpec == MCInit /\ [][MCNext]_<<vars, patient>> /\ Fairness

(* With patient clients a request that succeeds does what it is called: a  *)
(* set request gives a first route, a change request another one.          *)
CallsMeanWhatTheySay ==
  [][patient /\ call \in SetCalls /\ call' = Returned /\ answer' = "success"
       => (call = "set" <=> route = NoRoute)]_<<vars, patient>>

(* With patient clients the route the API shows is, once everything has    *)
(* arrived, the route of the planner.                                      *)
ShownRouteIsRight == patient /\ idle /\ nothingUnderWay => api_route = route
=============================================================================
