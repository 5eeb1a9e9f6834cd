-------------------------- MODULE MCMissionPlanner --------------------------
(***************************************************************************)
(* MissionPlanner with a route A, a later message A2 of the same route     *)
(* (same uuid, another goal) that is valid on the first map only, and a    *)
(* looped route; "still" records for how long odometry has reported the    *)
(* vehicle stopped without a break.                                        *)
(***************************************************************************)
EXTENDS MissionPlanner

CONSTANTS A, A2, Loop, m1, m2

MCRoutes == {A, A2, Loop}
MCLooped == {Loop}
MCUuid == [r \in MCRoutes |-> IF r = Loop THEN 2 ELSE 1]
MCMaps == {m1, m2}
MCValidOn == [m \in MCMaps |-> IF m = m1 THEN MCRoutes ELSE MCRoutes \ {A2}]

VARIABLE still
NotStill == -1
MaxStill == BufferTime + 1

MCOdometry ==
  \E dt \in Periods, at \in MaybeRoute, speed \in Speeds :
    /\ OnOdometry(dt, at, speed)
    /\ still' = IF speed # "stopped" THEN NotStill
                ELSE IF still = NotStill THEN 0
                ELSE IF still + dt > MaxStill THEN MaxStill ELSE still + dt

MCInit == Init /\ still = NotStill

MCNext ==
  \/ MCOdometry
  \/ /\ UNCHANGED still
     /\ \/ CheckInitialization
        \/ \E mode \in Modes : OnOperationModeState(mode)
        \/ \E m \in Maps : OnMap(m)
        \/ Request

MCFairness == WF_vars(CheckInitialization) /\ WF_<<vars, still>>(MCOdometry)

MCSpec == MCInit /\ [][MCNext]_<<vars, still>> /\ MCFairness

(* Arrival is announced only after the vehicle has been reported stopped   *)
(* in every odometry message of the last ArrivalDuration.                  *)
ArrivesOnlyWhenStill ==
  [][state' = "ARRIVED" /\ state # "ARRIVED" => still' >= ArrivalDuration]_<<vars, still>>
=============================================================================
