---------------------------- MODULE PoseInitializer ----------------------------
(***************************************************************************)
(* The pose initializer with the nodes it starts and stops: the EKF        *)
(* localizer and the NDT scan matcher (both enabled).                      *)
(*                                                                         *)
(* A request is worked on step by step in one callback of group_srv_, so   *)
(* requests wait for each other.  Triggers and the alignment are service   *)
(* calls the callback waits for without a timeout; the pose reset is a     *)
(* topic of depth 1.  Nodes may crash and restart.                         *)
(***************************************************************************)
EXTENDS EkfLocalizer, Topics

CONSTANTS Poses,
          UserDefinedPose,  \* user_defined_initial_pose, NoPose when disabled
          MaxCrashes

ASSUME PoseAssumption ==
  /\ NoPose \notin Poses
  /\ UserDefinedPose \in Poses \cup {NoPose}
  /\ MaxCrashes \in Nat

VARIABLES state,       \* state_.state
          handed,      \* the pose of the reset published by the request
          work,        \* the method of the request in work
          answer,      \* the response to the last request
          step,        \* what its callback is at
          pose,        \* its pose: the guess, then the result of the alignment
          call,        \* the state of the service call of the current step
          startup,     \* user_defined_initial_pose_timer_ is to fire
          to_reset,    \* pose_reset, on its way to the EKF
          ekf,         \* the EKF localizer
          ndt_active,  \* is_activated_ of the NDT scan matcher
          up,          \* the nodes that run
          crashes,
          disturbed    \* history: a node was lost since the work began

requestVars == <<state, handed, work, answer, step, pose>>
systemVars == <<ekf, ndt_active, up, crashes>>
nodeVars == <<systemVars, disturbed>>
vars == <<requestVars, nodeVars, call, startup, to_reset>>

Service == INSTANCE LocalizationService

Nodes == {"ekf", "ndt"}

(* The steps that call a trigger: of which node, and with which value.     *)
Triggers ==
  [off_ekf |-> [node |-> "ekf", activate |-> FALSE],
   off_ndt |-> [node |-> "ndt", activate |-> FALSE],
   on_ekf |-> [node |-> "ekf", activate |-> TRUE],
   on_ndt |-> [node |-> "ndt", activate |-> TRUE]]

Steps == DOMAIN Triggers \cup {"idle", "guess", "align", "confirm", "reset", "finish"}

(* Fault: the nodes are not deactivated first. *)
FirstStepSkipsDeactivation(method) == IF method = "auto" THEN "guess" ELSE "reset"

FirstStep(method) == "off_ekf"

(* What on_initialize and set_user_defined_initial_pose do, in this order. *)
Following(s, method) ==
  CASE s = "off_ekf" -> "off_ndt"
    [] s = "off_ndt" -> IF method = "auto" THEN "guess" ELSE "reset"
    [] s = "guess" -> "align"
    [] s = "align" -> "confirm"
    [] s = "confirm" -> "reset"
    [] s = "reset" -> "on_ekf"
    [] s = "on_ekf" -> "on_ndt"
    [] s = "on_ndt" -> "finish"

Requests == [method : {"auto", "direct", "unknown"}, pose : Poses \cup {NoPose}]

idle == step = "idle"
Triggering == step \in DOMAIN Triggers
Proceed == step' = Following(step, work)

(* The node the service call of this step goes to. *)
Callee == IF Triggering THEN Triggers[step].node ELSE "ndt"

-----------------------------------------------------------------------------
Init ==
  /\ state = (IF UserDefinedPose = NoPose THEN "UNINITIALIZED" ELSE "INITIALIZING")
  /\ startup = (UserDefinedPose # NoPose)
  /\ handed = NoPose /\ work = Service!NoWork /\ answer = "none"
  /\ step = "idle" /\ pose = NoPose /\ call = "none"
  /\ to_reset = <<>>
  /\ ekf = InitialEkf /\ ndt_active = FALSE
  /\ up = Nodes /\ crashes = 0 /\ disturbed = FALSE

Begin(method, guess) ==
  /\ state' = "INITIALIZING"
  /\ work' = method
  /\ step' = FirstStep(method)
  /\ pose' = guess
  /\ handed' = NoPose
  /\ disturbed' = FALSE
  /\ UNCHANGED answer

Refuse(code) ==
  /\ state' = "UNINITIALIZED"
  /\ answer' = code
  /\ UNCHANGED <<handed, work, step, pose, disturbed>>

(* What the request lacks is seen only once the vehicle is known to stand. *)
Lacking(r) == r.method = "unknown" \/ (r.method = "direct" /\ r.pose = NoPose)

(* A client's request, made directly or through the AD API, is taken;      *)
(* whether the vehicle is stopped is up to it.                             *)
OnInitialize(r) ==
  /\ idle
  /\ \/ Refuse("unsafe")
     \/ Lacking(r) /\ Refuse("parameter_error")
     \/ ~Lacking(r) /\ Begin(r.method, r.pose)
  /\ UNCHANGED <<systemVars, call, startup, to_reset>>

(* The timer with the user defined pose fires, once. *)
OnStartup ==
  /\ idle /\ startup
  /\ startup' = FALSE
  /\ Begin("startup", UserDefinedPose)
  /\ UNCHANGED <<systemVars, call, to_reset>>

(* Fault: the state stays INITIALIZING when a request fails. *)
FailSilently ==
  /\ answer' = Service!FailureAnswer(work, answer)
  /\ work' = Service!NoWork
  /\ step' = "idle" /\ pose' = NoPose
  /\ call' = "none"
  /\ UNCHANGED <<state, handed, nodeVars, startup, to_reset>>

(* The catch of on_initialize or of set_user_defined_initial_pose.         *)
Fail ==
  /\ state' = "UNINITIALIZED"
  /\ answer' = Service!FailureAnswer(work, answer)
  /\ work' = Service!NoWork
  /\ step' = "idle" /\ pose' = NoPose
  /\ call' = "none"
  /\ UNCHANGED <<handed, nodeVars, startup, to_reset>>
-----------------------------------------------------------------------------
(* wait_for_service returns: a trigger waits for its node as long as it    *)
(* takes.                                                                  *)
WaitForService ==
  /\ Triggering /\ call = "none"
  /\ Callee \in up
  /\ call' = "found"
  /\ UNCHANGED <<requestVars, nodeVars, startup, to_reset>>

(* service_is_ready is asked again, before the request is sent.            *)
ReadyToCall == (Triggering /\ call = "found") \/ (step = "align" /\ call = "none")

SendRequest ==
  /\ ReadyToCall /\ Callee \in up
  /\ call' = "sent"
  /\ UNCHANGED <<requestVars, nodeVars, startup, to_reset>>

NotReady == ReadyToCall /\ Callee \notin up /\ Fail

(* service_trigger_node of the EKF or of the NDT scan matcher.             *)
ServeTrigger ==
  /\ Triggering /\ call = "sent"
  /\ IF Callee = "ekf"
     THEN ekf' = Activate(ekf, Triggers[step].activate) /\ UNCHANGED ndt_active
     ELSE ndt_active' = Triggers[step].activate /\ UNCHANGED ekf
  /\ call' = "answered"
  /\ UNCHANGED <<requestVars, up, crashes, disturbed, startup, to_reset>>

(* service_ndt_align finds a pose or fails. *)
ServeAlign ==
  /\ step = "align" /\ call = "sent"
  /\ \/ pose' \in Poses /\ call' = "answered"
     \/ pose' = pose /\ call' = "failed"
  /\ UNCHANGED <<state, handed, work, answer, step, nodeVars, startup, to_reset>>

(* Fault: the response is handled in group_srv_, which the callback holds. *)
ReceiveInServiceGroup ==
  /\ call = "answered" /\ idle
  /\ step' = "idle" /\ call' = "none"
  /\ UNCHANGED <<state, handed, work, answer, pose, nodeVars, startup, to_reset>>

(* future.get() returns. *)
Receive ==
  /\ call = "answered"
  /\ Proceed /\ call' = "none"
  /\ UNCHANGED <<state, handed, work, answer, pose, nodeVars, startup, to_reset>>

AlignFailed == call = "failed" /\ Fail

(* get_gnss_pose, when the request has no pose; GNSS may be unsupported,   *)
(* silent or too old.                                                      *)
Guess ==
  /\ step = "guess"
  /\ \/ pose # NoPose /\ Proceed /\ UNCHANGED pose
     \/ pose = NoPose /\ Proceed /\ pose' \in Poses
  /\ UNCHANGED <<state, handed, work, answer, nodeVars, call, startup, to_reset>>

NoGnssPose == ((step = "guess" /\ pose = NoPose) \/ step = "confirm") /\ Fail

(* The GNSS pose is asked for once more, for the diagnostics.              *)
Confirm ==
  /\ step = "confirm"
  /\ Proceed
  /\ UNCHANGED <<state, handed, work, answer, pose, nodeVars, call, startup,
                 to_reset>>

(* pub_reset_->publish: an EKF that is not there does not get it.          *)
PublishReset ==
  /\ step = "reset"
  /\ Proceed
  /\ handed' = pose
  /\ IF "ekf" \in up THEN to_reset' \in Sent(to_reset, <<pose>>)
     ELSE UNCHANGED to_reset
  /\ UNCHANGED <<state, work, answer, pose, nodeVars, call, startup>>

(* The end: the nodes are active again. *)
Finish ==
  /\ step = "finish"
  /\ state' = "INITIALIZED"
  /\ answer' = (IF work = "startup" THEN answer ELSE "success")
  /\ work' = Service!NoWork
  /\ step' = "idle" /\ pose' = NoPose
  /\ UNCHANGED <<handed, nodeVars, call, startup, to_reset>>
-----------------------------------------------------------------------------
(* callback_initial_pose of the EKF. *)
OnReset ==
  /\ "ekf" \in up
  /\ \E i \in DOMAIN to_reset :
       /\ to_reset' = Taken(to_reset, i)
       /\ ekf' = Initialize(ekf, to_reset[i])
  /\ UNCHANGED <<requestVars, ndt_active, up, crashes, disturbed, call, startup>>

(* A node is lost, with its state, its messages and the request it serves; *)
(* an answer given before arrives.                                         *)
Crash(node) ==
  /\ node \in up /\ crashes < MaxCrashes
  /\ up' = up \ {node} /\ crashes' = crashes + 1 /\ disturbed' = TRUE
  /\ call' = (IF call = "sent" /\ Callee = node THEN "lost" ELSE call)
  /\ IF node = "ekf"
     THEN ekf' = InitialEkf /\ to_reset' = <<>> /\ UNCHANGED ndt_active
     ELSE ndt_active' = FALSE /\ UNCHANGED <<ekf, to_reset>>
  /\ UNCHANGED <<requestVars, startup>>

Restart(node) ==
  /\ node \notin up
  /\ up' = up \cup {node}
  /\ UNCHANGED <<requestVars, ekf, ndt_active, crashes, disturbed, call, startup,
                 to_reset>>

Work ==
  \/ OnStartup
  \/ WaitForService \/ SendRequest \/ NotReady \/ ServeTrigger \/ ServeAlign
  \/ Receive \/ AlignFailed
  \/ Guess \/ NoGnssPose \/ Confirm \/ PublishReset \/ Finish

Next ==
  \/ \E r \in Requests : OnInitialize(r)
  \/ Work
  \/ OnReset
  \/ \E node \in Nodes : Crash(node) \/ Restart(node)

(* The executors run every callback in the end, the nodes answer, and one  *)
(* that is lost is started again.  Clients owe nothing.                    *)
Fairness ==
  /\ WF_vars(Work) /\ WF_vars(OnReset)
  /\ \A node \in Nodes : WF_vars(Restart(node))

Spec == Init /\ [][Next]_vars /\ Fairness
-----------------------------------------------------------------------------
PoseInitializerTypeOK ==
  /\ state \in Service!States /\ answer \in Service!Answers
  /\ handed \in Poses \cup {NoPose} /\ pose \in Poses \cup {NoPose}
  /\ work \in Service!Methods \cup {Service!NoWork}
  /\ step \in Steps
  /\ call \in {"none", "found", "sent", "answered", "failed", "lost"}
  /\ startup \in BOOLEAN /\ disturbed \in BOOLEAN /\ ndt_active \in BOOLEAN
  /\ to_reset \in Seq(Poses) /\ Len(to_reset) <= 2
  /\ ekf \in [active : BOOLEAN, set : BOOLEAN, pose : Poses \cup {NoPose},
              staged : {EmptyQueues}, aged : {EmptyQueues}]
  /\ up \in SUBSET Nodes /\ crashes \in 0..MaxCrashes

(* Whatever was asked for, failed, was late or crashed: an EKF that runs   *)
(* and has nothing more to receive estimates from the pose the last        *)
(* request handed on, never from the pose of an abandoned one.             *)
LocalizesFromHandedPose ==
  Estimating(ekf) /\ handed # NoPose /\ to_reset = <<>> => ekf.pose = handed

(* INITIALIZED means that both nodes work, once the reset has arrived and  *)
(* unless a node was lost since the request began.                         *)
InitializedLocalizes ==
  state = "INITIALIZED" /\ ~disturbed /\ to_reset = <<>>
    => Estimating(ekf) /\ ndt_active

(* A request that fails leaves no node at work with what it had before,    *)
(* unless a node was lost; one that is refused leaves them as they were.   *)
FailureStopsLocalization ==
  state = "UNINITIALIZED" /\ answer \notin Service!Refusals /\ ~disturbed
    => ~ekf.active /\ ~ndt_active

(* Between the deactivation and the reset of a request the old estimate is *)
(* not continued, even if an older reset is late.                          *)
SilentUntilReset ==
  step \in {"guess", "align", "confirm", "reset"} => ~ekf.active /\ ~ndt_active

(* The state machine is the one the clients know. *)
ImplementsLocalizationService == Service!Spec

(* A request ends, unless the node it waits for is lost while serving.     *)
InitializationEnds == ~idle ~> (idle \/ call = "lost")
=============================================================================
