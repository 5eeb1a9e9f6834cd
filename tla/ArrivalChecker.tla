--------------------------- MODULE ArrivalChecker ---------------------------
(***************************************************************************)
(* The stop test of the mission planner's ArrivalChecker.  twist_buffer_   *)
(* is a function from the age of a sample (time since the newest one) to   *)
(* whether the vehicle was stopped in it; stamps increase from one         *)
(* odometry to the next.                                                   *)
(***************************************************************************)
EXTENDS Integers

CONSTANTS ArrivalDuration,  \* arrival_check_duration
          BufferTime        \* velocity_buffer_time_sec

ASSUME ArrivalAssumption == ArrivalDuration \in Nat /\ BufferTime \in Nat

TwistBuffers == UNION {[ages -> BOOLEAN] : ages \in SUBSET (0..BufferTime)}

EmptyBuffer == [age \in {} |-> FALSE]

(* Fault: a sample is never dropped.                                       *)
UpdateTwistUnbounded(buffer, dt, stopped) ==
  LET kept == {age + dt : age \in DOMAIN buffer}
  IN  [age \in {0} \cup kept |-> IF age = 0 THEN stopped ELSE buffer[age - dt]]

(* Fault: only samples younger than the stop duration are kept.            *)
UpdateTwistShort(buffer, dt, stopped) ==
  LET kept == {age + dt : age \in DOMAIN buffer} \cap (0..(ArrivalDuration - 1))
  IN  [age \in {0} \cup kept |-> IF age = 0 THEN stopped ELSE buffer[age - dt]]

(* push_front of a sample dt after the newest one, pop_back of the old.    *)
UpdateTwist(buffer, dt, stopped) ==
  LET kept == {age + dt : age \in DOMAIN buffer} \cap (0..BufferTime)
  IN  [age \in {0} \cup kept |-> IF age = 0 THEN stopped ELSE buffer[age - dt]]

(* Fault: any stopped sample that is old enough will do.                   *)
WasVehicleStopped(buffer) ==
  \E age \in DOMAIN buffer : age >= ArrivalDuration /\ buffer[age]

(* The buffer reaches back ArrivalDuration, and every sample from the      *)
(* newest to the first one that old was stopped.                           *)
IsVehicleStopped(buffer) ==
  \E age \in DOMAIN buffer :
    /\ age >= ArrivalDuration
    /\ \A younger \in DOMAIN buffer : younger <= age => buffer[younger]
=============================================================================
