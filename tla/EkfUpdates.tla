------------------------------ MODULE EkfUpdates ------------------------------
(***************************************************************************)
(* What becomes of a measurement in the EKF localizer.                     *)
(*                                                                         *)
(* Poses and twists come in callback groups of their own, beside the one   *)
(* that the timer, the reset and the trigger share; the pose initializer   *)
(* starts and stops the EKF.  Time is counted in periods of the timer.     *)
(***************************************************************************)
EXTENDS EkfLocalizer, DelayCompensation, FiniteSets

CONSTANTS MaxTime,          \* bound of the clock
          MaxMeasurements,  \* bound on the measurements that come in
          MaxEras,          \* bound on the activations
          ResetPose

(* Never is some thirty million years.                                     *)
ASSUME UpdatesAssumption ==
  /\ MaxTime \in Nat /\ MaxMeasurements \in Nat /\ MaxEras \in Nat
  /\ MaxTime < Never
  /\ ResetPose # NoPose

VARIABLES now,
          ekf,       \* the flags and the queues
          filter,    \* the delay compensation
          pushing,   \* the pose between the checks of push_pose and its lock
          received,  \* history: the measurements so far
          era,       \* history: the activations so far
          uses       \* history: the updates that used a measurement

vars == <<now, ekf, filter, pushing, received, era, uses>>

Times == 0..MaxTime

(* A measurement is its number; its stamp matters to the filter only.      *)
Numbers == 1..MaxMeasurements
NoPush == [number |-> 0, era |-> 0]

Init ==
  /\ now = 0
  /\ ekf = InitialEkf /\ filter = InitialFilter
  /\ pushing = NoPush
  /\ received = 0 /\ era = 0 /\ uses = [k \in Kinds |-> [n \in Numbers |-> 0]]

Tick ==
  /\ now < MaxTime
  /\ now' = now + 1
  /\ UNCHANGED <<ekf, filter, pushing, received, era, uses>>

Receive ==
  /\ received < MaxMeasurements /\ received' = received + 1
  /\ UNCHANGED <<now, filter, era, uses>>

(* callback_twist_with_covariance, whether activated or not. *)
OnTwist ==
  /\ Receive
  /\ ekf' = Stage(ekf, "twist", [number |-> received', era |-> era])
  /\ UNCHANGED pushing

(* push_pose looks at the flags ... *)
OnPose ==
  /\ pushing = NoPush
  /\ Estimating(ekf)
  /\ Receive
  /\ pushing' = [number |-> received', era |-> era]
  /\ UNCHANGED ekf

(* ... and queues the pose later, behind its lock. *)
StagePose ==
  /\ pushing # NoPush
  /\ ekf' = Stage(ekf, "pose", pushing)
  /\ pushing' = NoPush
  /\ UNCHANGED <<now, filter, received, era, uses>>

(* callback_initial_pose: a reset may come at any time. *)
OnReset ==
  /\ ekf' = Initialize(ekf, ResetPose)
  /\ filter' = Reset(filter)
  /\ UNCHANGED <<now, pushing, received, era, uses>>

(* Fault: a running EKF is activated again. *)
ActivateRunning ==
  /\ era < MaxEras /\ era' = era + 1
  /\ ekf' = Activate(ekf, TRUE)
  /\ filter' = ForgetLast(filter)
  /\ UNCHANGED <<now, pushing, received, uses>>

(* service_trigger_node: the pose initializer activates no EKF that runs   *)
(* (OnlyIdleEkfIsActivated of PoseInitializerProofs) ...                   *)
ActivateEkf ==
  /\ ~ekf.active
  /\ era < MaxEras /\ era' = era + 1
  /\ ekf' = Activate(ekf, TRUE)
  /\ filter' = ForgetLast(filter)
  /\ UNCHANGED <<now, pushing, received, uses>>

(* ... but deactivates one in any state, after a failed request, say.      *)
DeactivateEkf ==
  /\ ekf' = Activate(ekf, FALSE)
  /\ UNCHANGED <<now, filter, pushing, received, era, uses>>

Using(kind, n) == {i \in DOMAIN Drained(ekf, kind) : Drained(ekf, kind)[i].data.number = n}

(* timer_callback, once in a period and, when starved, later or never.     *)
Update ==
  /\ filter.last < now
  /\ ekf' = UpdateStep(ekf)
  /\ IF Estimating(ekf)
     THEN /\ filter' = Predict(filter, now)
          /\ uses' = [k \in Kinds |-> [n \in Numbers |-> uses[k][n] + Cardinality(Using(k, n))]]
     ELSE UNCHANGED <<filter, uses>>
  /\ UNCHANGED <<now, pushing, received, era>>

Next ==
  \/ Tick
  \/ OnTwist \/ OnPose \/ StagePose
  \/ OnReset \/ ActivateEkf \/ DeactivateEkf \/ Update

Spec == Init /\ [][Next]_vars
-----------------------------------------------------------------------------
Measurements == [number : Numbers, era : 0..MaxEras]

EkfTypeOK ==
  /\ now \in Times /\ era \in 0..MaxEras
  /\ ekf.active \in BOOLEAN /\ ekf.set \in BOOLEAN /\ ekf.pose \in {NoPose, ResetPose}
  /\ \A k \in Kinds :
       /\ ekf.staged[k] \in Seq(Measurements) /\ Len(ekf.staged[k]) <= MaxQueueSize[k]
       /\ ekf.aged[k] \in Seq([data : Measurements, age : 1..(SmoothingSteps[k] - 1)])
       /\ Len(ekf.aged[k]) <= MaxAged(k)
  /\ filter.slots \in [Slots -> Times \cup {FromReset}] /\ filter.table \in [Slots -> Nat]
  /\ filter.last \in Times \cup {NoTime} /\ filter.dt \in 0..MaxDt
  /\ pushing \in Measurements \cup {NoPush}
  /\ received \in 0..MaxMeasurements /\ uses \in [Kinds -> [Numbers -> Nat]]

(* The predictions since the reset that the table knows: the first one     *)
(* after the start of the process is not among them.                       *)
Known == {i \in Slots : filter.slots[i] # FromReset /\ filter.table[i] < Never}

(* An update that came later than MaxDt counts as less late than it was.   *)
OnTime ==
  \A i \in Known : i + 1 \in Known => filter.slots[i] - filter.slots[i + 1] <= MaxDt

Apart(a, b) == IF a < b THEN b - a ELSE a - b

(* Activated, deactivated, reset and updated in any order, now and then    *)
(* late: the prediction a measurement is compared with is the one closest  *)
(* to it in time of those since the reset.  The first one after the start  *)
(* of the process is the only one the table may not know.                  *)
MeasurementMeetsItsPrediction ==
  Estimating(ekf) /\ filter.last # NoTime =>
    /\ \A i \in Slots : i + 1 \in Slots /\ filter.slots[i + 1] # FromReset => i \in Known
    /\ OnTime => \A stamp \in 0..filter.last :
         LET slot == FindClosestDelayTimeIndex(filter.table, filter.last - stamp) + 1
         IN  slot \in Known =>
               \A i \in Known : Apart(filter.slots[slot], stamp) <= Apart(filter.slots[i], stamp)

(* A measurement is used in as many updates as its covariance is scaled    *)
(* for, or in fewer, whatever is queued, dropped and cleared meanwhile.    *)
UsedInFewUpdates ==
  \A k \in Kinds : \A n \in Numbers : uses[k][n] <= SmoothingSteps[k]

(* After an activation the new estimate meets one pose at most that was    *)
(* measured for the one before: the pose push_pose was busy with.          *)
AtMostOneStalePose ==
  Cardinality({p \in ToSet(ekf.staged["pose"])
                     \cup {entry.data : entry \in ToSet(ekf.aged["pose"])} :
                 ekf.active /\ p.era < era}) <= 1
=============================================================================
