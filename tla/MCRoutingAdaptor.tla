--------------------------- MODULE MCRoutingAdaptor ---------------------------
(***************************************************************************)
(* RoutingAdaptor with what the user asked for last, and whether the API   *)
(* or the planner turned down a request on the way or a reroute was asked  *)
(* for.                                                                    *)
(***************************************************************************)
EXTENDS RoutingAdaptor

CONSTANTS g1

MCGoals == {g1}
RequestedRoutes == [goal : MCGoals, waypoints : 0..MaxInputs]

VARIABLES wanted, turned_down

ghosts == <<wanted, turned_down>>

WantedInit == AdaptorInit /\ wanted = NoRoute /\ turned_down = FALSE

MCOnGoal(g) ==
  OnGoal(g) /\ wanted' = [goal |-> g, waypoints |-> 0] /\ UNCHANGED turned_down

MCOnWaypoint ==
  /\ OnWaypoint
  /\ wanted' = [wanted EXCEPT !.waypoints = @ + 1]
  /\ UNCHANGED turned_down

MCOnReroute(g) == OnReroute(g) /\ turned_down' = TRUE /\ UNCHANGED wanted

MCTakeRequest ==
  /\ TakeRequest
  /\ turned_down' = (turned_down \/ request'.at = "done")
  /\ UNCHANGED wanted

MCServeRequest ==
  /\ ServeRequest
  /\ turned_down' = (turned_down \/ answer' # "success")
  /\ UNCHANGED wanted

WantedNext ==
  \/ \E g \in Goals : MCOnGoal(g) \/ MCOnReroute(g)
  \/ MCOnWaypoint \/ MCTakeRequest \/ MCServeRequest
  \/ /\ OnTimer \/ OnRouteState \/ OnResponse \/ OnRerouteResponse
        \/ TakeReroute \/ Respond \/ PublishState \/ OtherApiStep
     /\ UNCHANGED ghosts

WantedSpec == WantedInit /\ [][WantedNext]_<<allVars, ghosts>> /\ AdaptorFairness

(* When all is quiet and nothing was turned down, the planner's route is   *)
(* what the user asked for last, waypoints included.                       *)
LastGoalWins == settled /\ ~turned_down => route = wanted
=============================================================================
