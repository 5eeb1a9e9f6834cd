----------------------------- MODULE EkfLocalizer -----------------------------
(***************************************************************************)
(* EKFLocalizer without its filter: the two activation flags, the pose the *)
(* estimate started from, and the queues a measurement passes through.     *)
(*                                                                         *)
(* Sensor callbacks stage measurements in *_queue_tmp_; each update moves  *)
(* them to an AgedObjectQueue, from which a measurement is used in the     *)
(* given number of updates.  The operators take and return an ekf record:  *)
(*   active, set   is_activated_ and is_set_initialpose_                   *)
(*   pose          the pose of the last initialize(), NoPose before        *)
(*   staged        the measurements staged, by kind                        *)
(*   aged          the measurements in use, by kind, with their ages       *)
(***************************************************************************)
EXTENDS Integers, Sequences, SequencesExt

CONSTANTS NoPose,
          SmoothingSteps,  \* pose_ and twist_smoothing_steps
          MaxQueueSize     \* max_pose_ and max_twist_queue_size, by kind

Kinds == {"pose", "twist"}

ASSUME EkfAssumption ==
  /\ SmoothingSteps \in [Kinds -> Nat \ {0}]
  /\ MaxQueueSize \in [Kinds -> Nat \ {0}]

EmptyQueues == [k \in Kinds |-> <<>>]

InitialEkf ==
  [active |-> FALSE, set |-> FALSE, pose |-> NoPose,
   staged |-> EmptyQueues, aged |-> EmptyQueues]

(* What the filter estimates is published in this case only.               *)
Estimating(ekf) == ekf.active /\ ekf.set

(* Only the newest n elements stay. *)
Newest(seq, n) == IF Len(seq) <= n THEN seq ELSE SubSeq(seq, Len(seq) - n + 1, Len(seq))

(* push_pose, push_twist behind their lock: the oldest are dropped.        *)
Stage(ekf, kind, measurement) ==
  [ekf EXCEPT !.staged[kind] = Newest(Append(@, measurement), MaxQueueSize[kind])]

(* Fault: measurements staged before the activation stay. *)
ActivateKeepsStaged(ekf, activate) ==
  IF activate THEN [ekf EXCEPT !.active = TRUE, !.aged = EmptyQueues]
  ELSE [ekf EXCEPT !.active = FALSE, !.set = FALSE]

(* Fault: the initial pose is forgotten by the activation. *)
ActivateForgetsPose(ekf, activate) ==
  IF activate
  THEN [ekf EXCEPT !.active = TRUE, !.set = FALSE,
                   !.staged = EmptyQueues, !.aged = EmptyQueues]
  ELSE [ekf EXCEPT !.active = FALSE, !.set = FALSE]

(* A deactivation leaves the queues alone, an activation empties them.     *)
Activate(ekf, activate) ==
  IF activate
  THEN [ekf EXCEPT !.active = TRUE, !.staged = EmptyQueues, !.aged = EmptyQueues]
  ELSE [ekf EXCEPT !.active = FALSE, !.set = FALSE]

(* The filter starts anew from a pose, activated or not. *)
Initialize(ekf, pose) == [ekf EXCEPT !.set = TRUE, !.pose = pose]

(* What is left of a queue when each element is one update older: those    *)
(* no older than that, in their order.                                     *)
Older(aged, oldest) ==
  LET left[n \in 0..Len(aged)] ==  \* of the first n
        IF n = 0 THEN <<>>
        ELSE IF aged[n].age + 1 <= oldest
             THEN Append(left[n - 1], [aged[n] EXCEPT !.age = @ + 1])
             ELSE left[n - 1]
  IN  left[Len(aged)]

(* Fault: a measurement is used once more than it should be. *)
OlderByOneTooOld(aged, steps) == Older(aged, steps)

(* pop_increment_age of every element in turn: an element goes to the back *)
(* unless it has been used often enough.                                   *)
OlderByOne(aged, steps) == Older(aged, steps - 1)

(* The bound of the AgedObjectQueue. *)
MaxAged(kind) ==
  IF MaxQueueSize[kind] > SmoothingSteps[kind] THEN MaxQueueSize[kind]
  ELSE SmoothingSteps[kind]

(* What one update uses of a kind: what was left, then what was staged,    *)
(* without the oldest if that is too much.                                 *)
Drained(ekf, kind) ==
  Newest(ekf.aged[kind] \o [i \in DOMAIN ekf.staged[kind] |->
                              [data |-> ekf.staged[kind][i], age |-> 0]],
         MaxAged(kind))

(* Fault: what is staged is not removed when it is drained. *)
UpdateStepKeepsStaged(ekf) ==
  IF ~Estimating(ekf) THEN ekf
  ELSE [ekf EXCEPT !.aged = [k \in Kinds |-> OlderByOne(Drained(ekf, k), SmoothingSteps[k])]]

(* update_step: without both flags it returns before it touches a queue.   *)
UpdateStep(ekf) ==
  IF ~Estimating(ekf) THEN ekf
  ELSE [ekf EXCEPT
          !.staged = EmptyQueues,
          !.aged = [k \in Kinds |-> OlderByOne(Drained(ekf, k), SmoothingSteps[k])]]
=============================================================================
