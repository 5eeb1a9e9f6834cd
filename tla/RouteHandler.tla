---------------------------- MODULE RouteHandler ----------------------------
(***************************************************************************)
(* The route state of autoware_route_handler's RouteHandler, as operators  *)
(* on a handler record.  A route stands for its segments, goal and start   *)
(* pose.  The lanelets a handler holds are named by the route they were    *)
(* taken from, so that stale lanelets can be told from current ones.       *)
(***************************************************************************)
CONSTANTS Routes,        \* routes a request can carry or a plan can return
          NoRoute,       \* a null route, and a route message with no segments
          LoopedRoutes,  \* the routes in which some lanelet appears twice
          Uuid,          \* Uuid[r]: the uuid field of the route message r
          Maps, NoMap,   \* lanelet maps that can be received; none received
          ValidOn        \* ValidOn[m]: the routes isRouteValid accepts on m

ASSUME RouteAssumption ==
  /\ NoRoute \notin Routes
  /\ LoopedRoutes \subseteq Routes
  /\ DOMAIN Uuid = Routes
  /\ NoMap \notin Maps
  /\ ValidOn \in [Maps -> SUBSET Routes]

MaybeRoute == Routes \cup {NoRoute}
MaybeMap == Maps \cup {NoMap}

(* map        lanelet_map_ptr_ with the graphs built from it               *)
(* route      route_ptr_                                                   *)
(* lanelets   route_lanelets_ and their tree; on: the map they belong to   *)
(* preferred  preferred_lanelets_ and route_areas_                         *)
(* ends       start_lanelets_ and goal_lanelets_                           *)
(* original   original_start_pose_ and original_goal_pose_                 *)
(* ready      is_handler_ready_                                            *)
Handler == [map : MaybeMap, route : MaybeRoute, lanelets : MaybeRoute,
            on : MaybeMap, preferred : MaybeRoute, ends : MaybeRoute,
            original : MaybeRoute, ready : BOOLEAN]

InitialHandler ==
  [map |-> NoMap, route |-> NoRoute, lanelets |-> NoRoute, on |-> NoMap,
   preferred |-> NoRoute, ends |-> NoRoute, original |-> NoRoute,
   ready |-> FALSE]

ValidRoutes(h) == IF h.map = NoMap THEN {} ELSE ValidOn[h.map]

(* A route that is not valid on the map empties the lanelets and leaves    *)
(* the handler not ready; start and goal lanelets then keep their old      *)
(* values.                                                                 *)
SetLaneletsFromRouteMsg(h) ==
  IF h.route = NoRoute \/ h.map = NoMap
  THEN h
  ELSE IF h.route \in ValidRoutes(h)
       THEN [h EXCEPT !.lanelets = h.route, !.on = h.map,
                      !.preferred = h.route, !.ends = h.route, !.ready = TRUE]
       ELSE [h EXCEPT !.lanelets = NoRoute, !.on = NoMap,
                      !.preferred = NoRoute]

(* Fault: the new map is stored but readiness survives from the old one.   *)
SetMapStaysReady(h, m) == SetLaneletsFromRouteMsg([h EXCEPT !.map = m])

SetMap(h, m) ==
  SetLaneletsFromRouteMsg([h EXCEPT !.map = m, !.ready = FALSE])

(* Fault: the original poses are reset for every route message.            *)
SetRouteForgetsOriginal(h, r) ==
  IF r \in LoopedRoutes
  THEN h
  ELSE SetLaneletsFromRouteMsg([h EXCEPT !.route = r, !.ready = FALSE])

(* A looped route is ignored with an error log.  The original poses follow *)
(* the route until a message with another uuid arrives.                    *)
SetRoute(h, r) ==
  IF r \in LoopedRoutes
  THEN h
  ELSE SetLaneletsFromRouteMsg(
         [h EXCEPT !.route = r, !.ready = FALSE,
                   !.original = IF h.route = NoRoute \/ Uuid[h.route] # Uuid[r]
                                THEN r ELSE @])

SetRouteLanelets(h, path) ==
  [h EXCEPT !.lanelets = path, !.on = h.map, !.ends = path, !.ready = TRUE]

ClearHandlerRoute(h) ==
  [h EXCEPT !.route = NoRoute, !.lanelets = NoRoute, !.on = NoMap,
            !.preferred = NoRoute, !.ends = NoRoute, !.ready = FALSE]
=============================================================================
