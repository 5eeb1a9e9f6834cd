----------------------------- MODULE GyroOdometer -----------------------------
(***************************************************************************)
(* The gyro odometer: which vehicle twists and gyro samples are fused.     *)
(*                                                                         *)
(* A sample is its stamp; the stamps of an input come in order, but the    *)
(* inputs are delayed differently.  What the means and covariances of the  *)
(* samples are is left out.                                                *)
(***************************************************************************)
EXTENDS Integers

CONSTANTS Timeout,     \* message_timeout_sec
          MaxTime,     \* bound of the clock
          MaxLatency   \* how late a sample comes, at most

ASSUME GyroAssumption == Timeout \in Nat /\ MaxTime \in Nat /\ MaxLatency \in Nat

VARIABLES now,
          queue,    \* vehicle_twist_queue_ and gyro_queue_
          arrived,  \* the inputs that have arrived at all
          latest,   \* latest_vehicle_twist_ros_time_ and latest_imu_ros_time_
          fused     \* the samples of the last output

vars == <<now, queue, arrived, latest, fused>>

Inputs == {"twist", "imu"}
NothingWaits == [input \in Inputs |-> {}]

Init ==
  /\ now = 0
  /\ queue = NothingWaits /\ arrived = {} /\ latest = [input \in Inputs |-> 0]
  /\ fused = NothingWaits

(* Fault: only the vehicle twist is looked at. *)
StaleIgnoringImu(times) == times["imu"] - times["twist"] > Timeout

(* The newest sample of one input is older than that of the other by more  *)
(* than the timeout; the reference time is the newer of the two.           *)
Stale(times) == \E i, j \in Inputs : times[j] - times[i] > Timeout

(* Fault: the vehicle twists are not removed when they are fused. *)
FuseKeepsTwist(waiting) ==
  /\ fused' = waiting
  /\ queue' = [NothingWaits EXCEPT !["twist"] = waiting["twist"]]

(* fuse_twist, and publish_data in the same callback. *)
Fuse(waiting) ==
  /\ fused' = waiting
  /\ queue' = NothingWaits

(* concat_gyro_and_odometer, with what waits and the newest stamps.        *)
ConcatGyroAndOdometer(waiting, times) ==
  LET complete == arrived' = Inputs /\ ~Stale(times)
      waits == \E input \in Inputs : waiting[input] = {}
  IN  \/ ~complete /\ queue' = NothingWaits /\ UNCHANGED fused
      \/ complete /\ waits /\ queue' = waiting /\ UNCHANGED fused
      \/ complete /\ ~waits
         /\ \/ Fuse(waiting)
            \/ queue' = NothingWaits /\ UNCHANGED fused   \* the frame_ids differ

(* input_vehicle_twist and input_imu.  An IMU sample that cannot be        *)
(* transformed does not get here.                                          *)
OnSample(input, stamp) ==
  /\ stamp \in 0..now /\ stamp >= now - MaxLatency
  /\ input \in arrived => stamp > latest[input]
  /\ arrived' = arrived \cup {input}
  /\ latest' = [latest EXCEPT ![input] = stamp]
  /\ ConcatGyroAndOdometer([queue EXCEPT ![input] = @ \cup {stamp}], latest')
  /\ UNCHANGED now

Tick ==
  /\ now < MaxTime
  /\ now' = now + 1
  /\ UNCHANGED <<queue, arrived, latest, fused>>

Next == Tick \/ \E input \in Inputs, stamp \in 0..now : OnSample(input, stamp)

Spec == Init /\ [][Next]_vars
-----------------------------------------------------------------------------
(* Besides the types: what waits was not fused before, and one side waits.  *)
GyroTypeOK ==
  /\ now \in 0..MaxTime
  /\ queue \in [Inputs -> SUBSET (0..now)] /\ fused \in [Inputs -> SUBSET (0..now)]
  /\ arrived \subseteq Inputs /\ latest \in [Inputs -> 0..now]
  /\ \A input \in Inputs : queue[input] \cap fused[input] = {}
  /\ \E input \in Inputs : queue[input] = {}

(* Every output is made of samples of both inputs, all of them newer than  *)
(* any sample fused before: none is used twice, none is passed over and    *)
(* used later, and so the stamps of the outputs increase.                  *)
FusedInOrder ==
  [][fused' # fused =>
       \A input \in Inputs :
         /\ fused'[input] # {}
         /\ \A old \in fused[input], new \in fused'[input] : old < new]_vars

(* Each input is compared with the newest of the other only, and both wait *)
(* for each other as long as it takes; still the samples of an output are  *)
(* no further apart than three timeouts, however late they came.           *)
FusedAreClose ==
  \A i, j \in Inputs : \A a \in fused[i], b \in fused[j] : a - b <= 3 * Timeout
=============================================================================
