---------------------------- MODULE RouteService ----------------------------
(***************************************************************************)
(* What the mission planner promises to the clients of its interface: the  *)
(* route is exactly the last one accepted, it is replaced only while       *)
(* driving towards a goal, only a clear makes room for another after       *)
(* arrival, a request is never refused in UNSET, and every change of the   *)
(* phase is published, in order.                                           *)
(***************************************************************************)
EXTENDS RouteMessages

CONSTANTS Routes, NoRoute

VARIABLES phase, route,
          answer,     \* of the last step, if it served a request
          published   \* by the last step

serviceVars == <<phase, route, answer, published>>

Init ==
  phase = "UNKNOWN" /\ route = NoRoute /\ answer = "none" /\ published = NoMsgs

(* Requests are served from here on. *)
Open == /\ phase = "UNKNOWN"
        /\ phase' = "UNSET"
        /\ published' = StateMsgs(<<"UNSET">>)
        /\ answer' = "none"
        /\ UNCHANGED route

Arrive == /\ phase = "SET"
          /\ phase' = "ARRIVED"
          /\ published' = StateMsgs(<<"ARRIVED">>)
          /\ answer' = "none"
          /\ UNCHANGED route

(* Something the clients do not see. *)
Quiet == answer' = "none" /\ published' = NoMsgs /\ UNCHANGED <<phase, route>>

Clear == /\ phase # "UNKNOWN"
         /\ phase' = "UNSET"
         /\ route' = NoRoute
         /\ published' = StateMsgs(<<"UNSET">>)
         /\ answer' = "success"

ClearNothing == /\ phase = "UNKNOWN"
                /\ answer' = "success"
                /\ published' = NoMsgs
                /\ UNCHANGED <<phase, route>>

Busy == IF phase = "SET" THEN "REROUTING" ELSE "ROUTING"

Accept(r) == /\ phase \in {"UNSET", "SET"}
             /\ phase' = "SET"
             /\ route' = r
             /\ published' = RouteMsgs(<<Busy, "SET">>, r)
             /\ answer' = "success"

Fail == /\ phase \in {"UNSET", "SET"}
        /\ published' = StateMsgs(<<Busy, phase>>)
        /\ answer' = "failed"
        /\ UNCHANGED <<phase, route>>

Refuse == /\ phase # "UNSET"
          /\ answer' = "refused"
          /\ published' = NoMsgs
          /\ UNCHANGED <<phase, route>>

ServeClear == Clear \/ ClearNothing
ServeSet == Refuse \/ Fail \/ \E r \in Routes : Accept(r)

Next == Open \/ Arrive \/ Quiet \/ ServeClear \/ ServeSet

Spec == Init /\ [][Next]_serviceVars
=============================================================================
