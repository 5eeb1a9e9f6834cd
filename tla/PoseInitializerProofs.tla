------------------------- MODULE PoseInitializerProofs -------------------------
(***************************************************************************)
(* Theorems about PoseInitializer: for every set of poses, with or without *)
(* a user defined one, and any number of crashes.                          *)
(***************************************************************************)
EXTENDS PoseInitializer, SequenceTheorems, TLAPS

(* The newest of the messages sent is the last one of the topic. *)
LEMMA SentEndsWithNewest ==
  ASSUME NEW S, NEW queue \in Seq(S), NEW msgs \in Seq(S), msgs # <<>>,
         NEW q \in Sent(queue, msgs)
  PROVE  q \in Seq(S) /\ Len(q) \in 1..2 /\ q[Len(q)] = msgs[Len(msgs)]
<1> DEFINE all == queue \o msgs
<1>1. /\ all \in Seq(S) /\ Len(all) = Len(queue) + Len(msgs)
      /\ Len(queue) \in Nat /\ Len(msgs) \in Nat \ {0}
      /\ all[Len(all)] = msgs[Len(msgs)]
  OBVIOUS
<1>2. CASE Len(all) < 2
  BY <1>1, <1>2 DEF Sent
<1>3. CASE ~(Len(all) < 2)
  <2>1. PICK i \in 1..(Len(all) - 1) : q = <<all[i], msgs[Len(msgs)]>>
    BY <1>1, <1>3 DEF Sent, Last
  <2>2. all[i] \in S /\ msgs[Len(msgs)] \in S
    BY <1>1
  <2> QED
    BY <2>1, <2>2
<1> QED
  BY <1>2, <1>3

(* Taking a message leaves nothing, if it was the newest, or the newest.   *)
LEMMA TakenLeavesNewest ==
  ASSUME NEW S, NEW queue \in Seq(S), Len(queue) <= 2, NEW i \in 1..Len(queue)
  PROVE  \/ Taken(queue, i) = <<>> /\ i = Len(queue)
         \/ /\ Taken(queue, i) \in Seq(S) /\ Len(Taken(queue, i)) = 1
            /\ Taken(queue, i)[1] = queue[Len(queue)]
<1>1. i \in 1..Len(queue) /\ Len(queue) \in Nat
  OBVIOUS
<1>2. CASE i = Len(queue)
  BY <1>1, <1>2, SubSeqEmpty DEF Taken
<1>3. CASE i # Len(queue)
  <2>1. i = 1 /\ Len(queue) = 2
    <3>1. \A n \in Nat : \A k \in 1..n : n <= 2 /\ k # n => k = 1 /\ n = 2
      OBVIOUS
    <3> QED BY <3>1, <1>1, <1>3
  <2>2. Taken(queue, i) = SubSeq(queue, 2, 2)
    BY <2>1 DEF Taken
  <2>3. \A k \in 2..2 : queue[k] \in S
    <3>1. 2 \in 1..Len(queue) /\ \A k \in 2..2 : k = 2
      BY <2>1
    <3> QED
      BY <3>1, ElementOfSeq, Zenon
  <2>4. /\ SubSeq(queue, 2, 2) \in Seq(S) /\ Len(SubSeq(queue, 2, 2)) = 1
        /\ \A k \in 1..1 : SubSeq(queue, 2, 2)[k] = queue[k + 2 - 1]
    BY <2>3, SubSeqProperties
  <2>5. 1 \in 1..1 /\ 1 + 2 - 1 = 2
    OBVIOUS
  <2>6. SubSeq(queue, 2, 2)[1] = queue[2]
    BY <2>4, <2>5
  <2> QED BY <2>1, <2>2, <2>4, <2>6
<1> QED BY <1>2, <1>3
-----------------------------------------------------------------------------
Later == {"on_ekf", "on_ndt", "finish"}

(* The request in work, its pose and the pose it handed on.                *)
WorkInv ==
  /\ idle <=> work = Service!NoWork
  /\ ~idle => state = "INITIALIZING"
  /\ idle => pose = NoPose
  /\ startup => UserDefinedPose # NoPose
  /\ step \in {"align", "confirm", "reset"} => pose \in Poses
  /\ work \in {"direct", "startup"} => pose \in Poses
  /\ step \in Later => handed = pose /\ pose \in Poses
  /\ ~idle /\ step \notin Later => handed = NoPose

(* The service call of the step and the node it goes to.                   *)
CallInv ==
  /\ call # "none" => Triggering \/ step = "align"
  /\ call = "failed" => step = "align"
  /\ call = "found" => Triggering
  /\ call = "sent" => Callee \in up

Answered(s) == step = s /\ call = "answered"
Unanswered(s) == step = s /\ call # "answered"

(* A node that is not there has nothing, and without a loss it is there.   *)
NodeInv ==
  /\ "ekf" \notin up => ekf = InitialEkf /\ to_reset = <<>>
  /\ "ndt" \notin up => ~ndt_active
  /\ ~disturbed /\ ~idle /\ ~Unanswered("off_ekf") => "ekf" \in up
  /\ ~disturbed /\ (call = "found") => Callee \in up

(* The last reset is the last to arrive.                                   *)
ResetInv ==
  /\ handed # NoPose /\ to_reset # <<>> => to_reset[Len(to_reset)] = handed
  /\ handed # NoPose /\ to_reset = <<>> /\ ekf.set => ekf.pose = handed
  /\ ~disturbed /\ (step \in Later \/ state = "INITIALIZED")
       => to_reset # <<>> \/ ekf.set

EkfOff == \/ step \in {"off_ndt", "guess", "align", "confirm", "reset"}
          \/ Answered("off_ekf") \/ Unanswered("on_ekf")
NdtOff == \/ step \in {"guess", "align", "confirm", "reset", "on_ekf"}
          \/ Answered("off_ndt") \/ Unanswered("on_ndt")
EkfOn == Answered("on_ekf") \/ step \in {"on_ndt", "finish"} \/ state = "INITIALIZED"
NdtOn == Answered("on_ndt") \/ step = "finish" \/ state = "INITIALIZED"

(* Which node is active at which step.                                     *)
ActiveInv ==
  /\ EkfOff => ~ekf.active
  /\ NdtOff => ~ndt_active
  /\ ~disturbed /\ EkfOn => ekf.active
  /\ ~disturbed /\ NdtOn => ndt_active

IInv ==
  /\ PoseInitializerTypeOK
  /\ WorkInv /\ CallInv /\ NodeInv /\ ResetInv /\ ActiveInv
  /\ FailureStopsLocalization

-----------------------------------------------------------------------------
(* A reset that is published is the newest one of its topic. *)
LEMMA ResetIsNewest ==
  ASSUME NEW queue \in Seq(Poses), NEW p \in Poses, NEW q \in Sent(queue, <<p>>)
  PROVE  q \in Seq(Poses) /\ Len(q) \in 1..2 /\ q[Len(q)] = p
<1> DEFINE msgs == <<p>>
<1>1. msgs \in Seq(Poses) /\ msgs # <<>> /\ msgs[Len(msgs)] = p /\ q \in Sent(queue, msgs)
  OBVIOUS
<1> HIDE DEF msgs
<1> QED
  BY <1>1, SentEndsWithNewest

-----------------------------------------------------------------------------
EkfStates == [active : BOOLEAN, set : BOOLEAN, pose : Poses \cup {NoPose},
              staged : {EmptyQueues}, aged : {EmptyQueues}]

(* Which node a step calls, and whether to activate it. *)
LEMMA TriggerSteps ==
  /\ Triggering <=> step \in {"off_ekf", "off_ndt", "on_ekf", "on_ndt"}
  /\ step \in {"off_ekf", "on_ekf"} => Callee = "ekf"
  /\ step \in {"off_ndt", "on_ndt", "align"} => Callee = "ndt"
  /\ step \in {"off_ekf", "off_ndt"} => Triggers[step].activate = FALSE
  /\ step \in {"on_ekf", "on_ndt"} => Triggers[step].activate = TRUE
<1>1. DOMAIN Triggers = {"off_ekf", "off_ndt", "on_ekf", "on_ndt"}
  BY DEF Triggers
<1>2. /\ Triggers["off_ekf"] = [node |-> "ekf", activate |-> FALSE]
      /\ Triggers["off_ndt"] = [node |-> "ndt", activate |-> FALSE]
      /\ Triggers["on_ekf"] = [node |-> "ekf", activate |-> TRUE]
      /\ Triggers["on_ndt"] = [node |-> "ndt", activate |-> TRUE]
  BY DEF Triggers
<1> QED BY <1>1, <1>2 DEF Triggering, Callee

(* The order of the steps. *)
LEMMA Order ==
  ASSUME Proceed
  PROVE  /\ step = "off_ekf" => step' = "off_ndt"
         /\ step = "off_ndt" => step' \in {"guess", "reset"}
         /\ step = "off_ndt" /\ step' = "reset" => work # "auto"
         /\ step = "guess" => step' = "align"
         /\ step = "align" => step' = "confirm"
         /\ step = "confirm" => step' = "reset"
         /\ step = "reset" => step' = "on_ekf"
         /\ step = "on_ekf" => step' = "on_ndt"
         /\ step = "on_ndt" => step' = "finish"
BY DEF Proceed, Following

(* What a trigger changes of the EKF: its flags, never its pose. *)
LEMMA ActivateEkf ==
  ASSUME NEW e \in EkfStates, NEW activate \in BOOLEAN
  PROVE  /\ Activate(e, activate) \in EkfStates
         /\ Activate(e, activate).active = activate
         /\ Activate(e, activate).pose = e.pose
         /\ Activate(e, activate).set = (e.set /\ activate)
BY DEF Activate, EkfStates

(* A reset sets the pose, activated or not. *)
LEMMA InitializeEkf ==
  ASSUME NEW e \in EkfStates, NEW p \in Poses
  PROVE  /\ Initialize(e, p) \in EkfStates
         /\ Initialize(e, p).active = e.active
         /\ Initialize(e, p).pose = p
         /\ Initialize(e, p).set = TRUE
BY DEF Initialize, EkfStates

(* An EKF that has just started. *)
LEMMA InitialIsEkf ==
  InitialEkf \in EkfStates /\ InitialEkf.active = FALSE /\ InitialEkf.set = FALSE
BY DEF InitialEkf, EkfStates

(* All steps. *)
LEMMA StepNames ==
  Steps = {"off_ekf", "off_ndt", "on_ekf", "on_ndt",
           "idle", "guess", "align", "confirm", "reset", "finish"}
<1>1. DOMAIN Triggers = {"off_ekf", "off_ndt", "on_ekf", "on_ndt"}
  BY DEF Triggers
<1> QED BY <1>1 DEF Steps

(* A request, or the timer of the start, begins. *)
LEMMA BeginStep ==
  ASSUME IInv, idle, NEW method \in Service!Methods, NEW guess \in Poses \cup {NoPose},
         method # "auto" => guess \in Poses,
         Begin(method, guess), UNCHANGED <<systemVars, call, to_reset>>,
         startup' = startup \/ startup' = FALSE
  PROVE  IInv'
<1> USE DEF IInv, systemVars, idle
<1>1. /\ state' = "INITIALIZING" /\ step' = "off_ekf" /\ work' = method /\ pose' = guess
      /\ handed' = NoPose /\ disturbed' = FALSE /\ answer' = answer
  BY DEF Begin, FirstStep
<1>2. call = "none" /\ method # Service!NoWork
  BY TriggerSteps DEF CallInv, Service!Methods, Service!NoWork
<1>3. PoseInitializerTypeOK'
  BY <1>1, StepNames DEF PoseInitializerTypeOK, Service!States
<1>4. WorkInv' /\ CallInv'
  BY <1>1, <1>2, PoseAssumption DEF WorkInv, CallInv, Later, Service!Methods
<1>5. NodeInv' /\ ResetInv'
  BY <1>1, <1>2 DEF NodeInv, ResetInv, Unanswered, Later
<1>6. ActiveInv' /\ FailureStopsLocalization'
  BY <1>1, <1>2 DEF ActiveInv, EkfOff, NdtOff, EkfOn, NdtOn, Answered, Unanswered,
                    FailureStopsLocalization
<1> QED BY <1>3, <1>4, <1>5, <1>6

(* A refusal leaves both nodes as they were. *)
LEMMA RefuseStep ==
  ASSUME IInv, idle, NEW code \in Service!Refusals, Refuse(code),
         UNCHANGED <<systemVars, call, startup, to_reset>>
  PROVE  IInv'
<1> USE DEF IInv, systemVars, idle, Refuse
<1>1. PoseInitializerTypeOK'
  BY DEF PoseInitializerTypeOK, Service!States, Service!Answers, Service!Refusals
<1>2. WorkInv' /\ CallInv'
  BY DEF WorkInv, CallInv, Callee, Triggering
<1>3. NodeInv' /\ ResetInv'
  BY DEF NodeInv, ResetInv, Unanswered, Later, Callee, Triggering
<1>4. ActiveInv' /\ FailureStopsLocalization'
  BY DEF ActiveInv, EkfOff, NdtOff, EkfOn, NdtOn, Answered, Unanswered,
                    FailureStopsLocalization
<1> QED BY <1>1, <1>2, <1>3, <1>4

(* A request that fails without a loss does so with both nodes off. *)
LEMMA FailStep ==
  ASSUME IInv, Fail, ~idle, ~disturbed => ~ekf.active /\ ~ndt_active
  PROVE  IInv'
<1> USE DEF IInv, nodeVars, systemVars, idle, Fail
<1>1. /\ state' = "UNINITIALIZED" /\ step' = "idle" /\ call' = "none"
      /\ work' = Service!NoWork /\ pose' = NoPose
      /\ UNCHANGED <<handed, ekf, ndt_active, up, crashes, disturbed, startup, to_reset>>
  OBVIOUS
<1>2. answer' \in Service!Answers
  BY DEF WorkInv, PoseInitializerTypeOK, Service!FailureAnswer, Service!Answers,
         Service!Methods, Service!NoWork
<1>3. PoseInitializerTypeOK'
  BY <1>1, <1>2, StepNames DEF PoseInitializerTypeOK, Service!States
<1>4. WorkInv' /\ CallInv'
  BY <1>1 DEF WorkInv, CallInv, Later, Service!Methods, Service!NoWork
<1>5. NodeInv' /\ ResetInv'
  BY <1>1 DEF NodeInv, ResetInv, Unanswered, Later
<1>6. ActiveInv' /\ FailureStopsLocalization'
  BY <1>1 DEF ActiveInv, EkfOff, NdtOff, EkfOn, NdtOn, Answered, Unanswered,
              FailureStopsLocalization
<1> QED BY <1>3, <1>4, <1>5, <1>6

(* WaitForService and SendRequest: the node is there. *)
LEMMA AskStep ==
  ASSUME IInv, NEW c \in {"found", "sent"}, call' = c,
         Triggering \/ (step = "align" /\ c = "sent"), call # "answered", Callee \in up,
         UNCHANGED <<requestVars, nodeVars, startup, to_reset>>
  PROVE  IInv'
<1> USE DEF IInv, nodeVars, systemVars, requestVars, idle
<1>1. /\ UNCHANGED <<state, handed, work, answer, step, pose>>
      /\ UNCHANGED <<ekf, ndt_active, up, crashes, disturbed, startup, to_reset>>
      /\ Callee' = Callee /\ (Triggering' <=> Triggering)
  BY DEF Callee, Triggering
<1>2. PoseInitializerTypeOK' /\ WorkInv'
  BY <1>1 DEF PoseInitializerTypeOK, WorkInv
<1>3. CallInv' /\ NodeInv'
  BY <1>1 DEF CallInv, NodeInv, Unanswered
<1>4. ResetInv'
  BY <1>1 DEF ResetInv
<1>5. ActiveInv' /\ FailureStopsLocalization'
  BY <1>1 DEF ActiveInv, EkfOff, NdtOff, EkfOn, NdtOn, Answered, Unanswered,
              FailureStopsLocalization
<1> QED BY <1>2, <1>3, <1>4, <1>5

(* A trigger changes one node, which is there. *)
LEMMA ServeTriggerStep ==
  ASSUME IInv, ServeTrigger
  PROVE  IInv'
<1> USE DEF IInv, requestVars, idle
<1>1. /\ UNCHANGED <<state, handed, work, answer, step, pose>>
      /\ UNCHANGED <<up, crashes, disturbed, startup, to_reset>>
      /\ call = "sent" /\ call' = "answered" /\ Triggering /\ Callee \in up
      /\ Callee' = Callee /\ (Triggering' <=> Triggering)
  BY DEF ServeTrigger, CallInv, Callee, Triggering
<1>2. step \in {"off_ekf", "off_ndt", "on_ekf", "on_ndt"}
  BY <1>1, TriggerSteps
<1>3. state = "INITIALIZING" /\ ekf \in EkfStates
  BY <1>2 DEF WorkInv, PoseInitializerTypeOK, EkfStates
<1>4. WorkInv' /\ CallInv'
  BY <1>1, <1>2 DEF WorkInv, CallInv
<1>5. CASE step \in {"off_ekf", "on_ekf"}
  <2> DEFINE activate == step = "on_ekf"
  <2>1. ekf' = Activate(ekf, activate) /\ ndt_active' = ndt_active
    BY <1>5, TriggerSteps DEF ServeTrigger
  <2>2. /\ ekf' \in EkfStates /\ ekf'.active = activate
        /\ ekf'.pose = ekf.pose /\ ekf'.set = (ekf.set /\ activate)
    BY <2>1, <1>3, ActivateEkf
  <2>3. PoseInitializerTypeOK'
    BY <1>1, <2>1, <2>2 DEF PoseInitializerTypeOK, EkfStates
  <2>4. "ekf" \in up
    BY <1>1, <1>5, TriggerSteps
  <2>5. NodeInv'
    BY <1>1, <2>1, <2>4 DEF NodeInv, Unanswered
  <2>6. ResetInv'
    BY <1>1, <1>3, <1>5, <2>2 DEF ResetInv, Later, WorkInv
  <2>7. ActiveInv' /\ FailureStopsLocalization'
    BY <1>1, <1>3, <1>5, <2>1, <2>2
    DEF ActiveInv, EkfOff, NdtOff, EkfOn, NdtOn, Answered, Unanswered,
        FailureStopsLocalization
  <2> QED BY <1>4, <2>3, <2>5, <2>6, <2>7
<1>6. CASE step \in {"off_ndt", "on_ndt"}
  <2> DEFINE activate == step = "on_ndt"
  <2>1. ndt_active' = activate /\ ekf' = ekf
    BY <1>6, TriggerSteps DEF ServeTrigger
  <2>2. PoseInitializerTypeOK'
    BY <1>1, <2>1 DEF PoseInitializerTypeOK
  <2>3. "ndt" \in up
    BY <1>1, <1>6, TriggerSteps
  <2>4. NodeInv' /\ ResetInv'
    BY <1>1, <1>6, <2>1, <2>3 DEF NodeInv, ResetInv, Unanswered
  <2>5. ActiveInv' /\ FailureStopsLocalization'
    BY <1>1, <1>3, <1>6, <2>1
    DEF ActiveInv, EkfOff, NdtOff, EkfOn, NdtOn, Answered, Unanswered,
        FailureStopsLocalization
  <2> QED BY <1>4, <2>2, <2>4, <2>5
<1> QED BY <1>2, <1>5, <1>6

(* The alignment gives a pose, or the old one and a failure. *)
LEMMA ServeAlignStep ==
  ASSUME IInv, ServeAlign
  PROVE  IInv'
<1> USE DEF IInv, nodeVars, systemVars, idle
<1>1. /\ UNCHANGED <<state, handed, work, answer, step>>
      /\ UNCHANGED <<ekf, ndt_active, up, crashes, disturbed, startup, to_reset>>
      /\ step = "align" /\ call' \in {"answered", "failed"}
      /\ pose' \in Poses
  BY DEF ServeAlign, WorkInv
<1>2. PoseInitializerTypeOK' /\ WorkInv'
  BY <1>1 DEF PoseInitializerTypeOK, WorkInv, Later
<1>3. CallInv' /\ NodeInv' /\ ResetInv'
  BY <1>1 DEF CallInv, NodeInv, ResetInv, Unanswered
<1>4. ActiveInv' /\ FailureStopsLocalization'
  BY <1>1 DEF ActiveInv, EkfOff, NdtOff, EkfOn, NdtOn, Answered, Unanswered,
              FailureStopsLocalization
<1> QED BY <1>2, <1>3, <1>4

(* Receive, Guess and Confirm: the next step, maybe with another pose.     *)
LEMMA ProceedStep ==
  ASSUME IInv, Proceed, call' = "none",
         (Triggering /\ call = "answered") \/ step \in {"guess", "align", "confirm"},
         step = "guess" => pose' \in Poses,
         step # "guess" => pose' = pose,
         UNCHANGED <<state, handed, work, answer, nodeVars, startup, to_reset>>
  PROVE  IInv'
<1> USE DEF IInv, nodeVars, systemVars, idle
<1>1. step \in {"off_ekf", "off_ndt", "on_ekf", "on_ndt", "guess", "align", "confirm"}
  BY TriggerSteps
<1>2. step' \in {"off_ndt", "guess", "align", "confirm", "reset", "on_ndt", "finish"}
  BY <1>1, Order
<1>3. /\ UNCHANGED <<ekf, ndt_active, up, crashes, disturbed>>
      /\ step = "off_ekf" => call = "answered"
      /\ step \in {"on_ekf", "off_ndt", "on_ndt"} => call = "answered"
  BY TriggerSteps
<1>4. PoseInitializerTypeOK'
  BY <1>2, <1>3, StepNames DEF PoseInitializerTypeOK
<1>5. WorkInv'
  BY <1>1, <1>2, Order DEF WorkInv, Later, PoseInitializerTypeOK, Service!Methods, Service!NoWork
<1>6. CallInv'
  BY <1>2 DEF CallInv
<1>7. NodeInv' /\ ResetInv'
  BY <1>1, <1>2, <1>3, Order DEF NodeInv, ResetInv, Unanswered, Later
<1>8. ActiveInv' /\ FailureStopsLocalization'
  BY <1>1, <1>2, <1>3, Order DEF ActiveInv, EkfOff, NdtOff, EkfOn, NdtOn, Answered, Unanswered,
              FailureStopsLocalization, WorkInv
<1> QED BY <1>4, <1>5, <1>6, <1>7, <1>8

(* The reset becomes the newest on its topic, or there is no EKF. *)
LEMMA PublishResetStep ==
  ASSUME IInv, PublishReset
  PROVE  IInv'
<1> USE DEF IInv, nodeVars, systemVars, idle
<1>1. /\ step = "reset" /\ step' = "on_ekf" /\ handed' = pose /\ pose' = pose
      /\ call = "none" /\ call' = "none" /\ pose \in Poses
      /\ UNCHANGED <<state, work, answer, ekf, ndt_active, up, crashes, disturbed, startup>>
  BY Order, TriggerSteps DEF PublishReset, WorkInv, CallInv
<1>2. /\ to_reset' \in Seq(Poses) /\ Len(to_reset') <= 2
      /\ "ekf" \in up => to_reset' # <<>> /\ to_reset'[Len(to_reset')] = pose
      /\ "ekf" \notin up => to_reset' = <<>> /\ ekf.set = FALSE
  <2>1. CASE "ekf" \in up
    <3>1. /\ to_reset' \in Seq(Poses) /\ Len(to_reset') \in 1..2
          /\ to_reset'[Len(to_reset')] = pose
      BY <1>1, <2>1, ResetIsNewest DEF PublishReset, PoseInitializerTypeOK
    <3>2. to_reset' # <<>>
      BY <3>1
    <3> QED BY <2>1, <3>1, <3>2
  <2>2. CASE "ekf" \notin up
    BY <2>2, InitialIsEkf DEF PublishReset, NodeInv, PoseInitializerTypeOK
  <2> QED BY <2>1, <2>2
<1>3. PoseInitializerTypeOK'
  BY <1>1, <1>2, StepNames DEF PoseInitializerTypeOK
<1>4. WorkInv' /\ CallInv'
  BY <1>1 DEF WorkInv, CallInv, Later
<1>5. NodeInv' /\ ResetInv'
  BY <1>1, <1>2 DEF NodeInv, ResetInv, Unanswered, Later
<1>6. ActiveInv' /\ FailureStopsLocalization'
  BY <1>1 DEF ActiveInv, EkfOff, NdtOff, EkfOn, NdtOn, Answered, Unanswered,
              FailureStopsLocalization, WorkInv
<1> QED BY <1>3, <1>4, <1>5, <1>6

(* At the end both nodes are active. *)
LEMMA FinishStep ==
  ASSUME IInv, Finish
  PROVE  IInv'
<1> USE DEF IInv, nodeVars, systemVars, idle
<1>1. /\ step = "finish" /\ step' = "idle" /\ state' = "INITIALIZED"
      /\ work' = Service!NoWork /\ pose' = NoPose /\ call = "none" /\ call' = "none"
      /\ UNCHANGED <<handed, ekf, ndt_active, up, crashes, disturbed, startup, to_reset>>
  BY TriggerSteps DEF Finish, CallInv
<1>2. PoseInitializerTypeOK'
  BY <1>1, StepNames DEF Finish, PoseInitializerTypeOK, Service!States, Service!Answers
<1>3. WorkInv' /\ CallInv'
  BY <1>1 DEF WorkInv, CallInv, Later, Service!Methods, Service!NoWork
<1>4. NodeInv' /\ ResetInv'
  BY <1>1 DEF NodeInv, ResetInv, Unanswered, Later
<1>5. ActiveInv' /\ FailureStopsLocalization'
  BY <1>1 DEF ActiveInv, EkfOff, NdtOff, EkfOn, NdtOn, Answered, Unanswered,
              FailureStopsLocalization
<1> QED BY <1>2, <1>3, <1>4, <1>5

(* The EKF starts anew: from the newest reset if it is the one it takes.   *)
LEMMA OnResetStep ==
  ASSUME IInv, OnReset
  PROVE  IInv'
<1> USE DEF IInv, requestVars, idle
<1>1. /\ UNCHANGED <<state, handed, work, answer, step, pose>>
      /\ UNCHANGED <<ndt_active, up, crashes, disturbed, call, startup>>
      /\ "ekf" \in up
  BY DEF OnReset
<1>2. to_reset \in Seq(Poses) /\ Len(to_reset) <= 2 /\ ekf \in EkfStates
  BY DEF PoseInitializerTypeOK, EkfStates
<1>3. PICK i \in 1..Len(to_reset) :
        /\ to_reset' = Taken(to_reset, i)
        /\ ekf' = Initialize(ekf, to_reset[i])
  BY <1>2 DEF OnReset
<1>4. to_reset[i] \in Poses /\ to_reset # <<>>
  BY <1>2
<1>5. /\ ekf' \in EkfStates /\ ekf'.active = ekf.active /\ ekf'.set = TRUE
      /\ ekf'.pose = to_reset[i]
  BY <1>2, <1>3, <1>4, InitializeEkf
<1>6. \/ to_reset' = <<>> /\ i = Len(to_reset)
      \/ /\ to_reset' \in Seq(Poses) /\ Len(to_reset') = 1
         /\ to_reset'[1] = to_reset[Len(to_reset)]
  BY <1>2, <1>3, TakenLeavesNewest
<1>7. PoseInitializerTypeOK'
  <2>1. <<>> \in Seq(Poses) /\ Len(<<>>) = 0
    OBVIOUS
  <2>2. to_reset' \in Seq(Poses) /\ (Len(to_reset') = 0 \/ Len(to_reset') = 1)
    BY <1>6, <2>1
  <2> QED BY <1>1, <1>5, <2>1, <2>2 DEF PoseInitializerTypeOK, EkfStates
<1>8. WorkInv' /\ CallInv' /\ NodeInv'
  BY <1>1 DEF WorkInv, CallInv, NodeInv, Unanswered, Callee, Triggering
<1>9. ResetInv'
  <2>1. handed # NoPose => to_reset[Len(to_reset)] = handed
    BY <1>4 DEF ResetInv
  <2>2. CASE to_reset' = <<>> /\ i = Len(to_reset)
    BY <1>1, <1>5, <2>1, <2>2 DEF ResetInv
  <2>3. CASE Len(to_reset') = 1 /\ to_reset'[1] = to_reset[Len(to_reset)]
    <3>1. to_reset' # <<>>
      BY <2>3
    <3> QED BY <1>1, <2>1, <2>3, <3>1 DEF ResetInv
  <2> QED BY <1>6, <2>2, <2>3
<1>10. ActiveInv' /\ FailureStopsLocalization'
  BY <1>1, <1>5 DEF ActiveInv, EkfOff, NdtOff, EkfOn, NdtOn, Answered, Unanswered,
              FailureStopsLocalization
<1> QED BY <1>7, <1>8, <1>9, <1>10

(* A lost node has nothing left. *)
LEMMA CrashStep ==
  ASSUME IInv, NEW node \in Nodes, Crash(node)
  PROVE  IInv'
<1> USE DEF IInv, requestVars, idle, Crash
<1>1. /\ UNCHANGED <<state, handed, work, answer, step, pose, startup>>
      /\ up' = up \ {node} /\ disturbed' = TRUE
      /\ call' = (IF call = "sent" /\ Callee = node THEN "lost" ELSE call)
      /\ Callee' = Callee /\ (Triggering' <=> Triggering)
  BY DEF Callee, Triggering
<1>2. crashes' \in 0..MaxCrashes
  <2>1. crashes \in 0..MaxCrashes /\ crashes < MaxCrashes /\ crashes' = crashes + 1
    BY DEF PoseInitializerTypeOK
  <2> QED BY <2>1, PoseAssumption
<1>3. WorkInv'
  BY <1>1 DEF WorkInv
<1>4. CallInv'
  BY <1>1 DEF CallInv
<1>5. CASE node = "ekf"
  <2>1. ekf' = InitialEkf /\ to_reset' = <<>> /\ ndt_active' = ndt_active
    BY <1>5
  <2>2. PoseInitializerTypeOK'
    BY <1>1, <1>2, <2>1, InitialIsEkf DEF PoseInitializerTypeOK, EkfStates
  <2>3. NodeInv' /\ ResetInv'
    BY <1>1, <1>5, <2>1, InitialIsEkf DEF NodeInv, ResetInv
  <2>4. ActiveInv' /\ FailureStopsLocalization'
    BY <1>1, <2>1, InitialIsEkf
    DEF ActiveInv, EkfOff, NdtOff, Answered, Unanswered, FailureStopsLocalization
  <2> QED BY <1>3, <1>4, <2>2, <2>3, <2>4
<1>6. CASE node = "ndt"
  <2>1. ndt_active' = FALSE /\ UNCHANGED <<ekf, to_reset>>
    BY <1>6
  <2>2. PoseInitializerTypeOK'
    BY <1>1, <1>2, <2>1 DEF PoseInitializerTypeOK
  <2>3. NodeInv' /\ ResetInv'
    BY <1>1, <1>6, <2>1 DEF NodeInv, ResetInv
  <2>4. ActiveInv' /\ FailureStopsLocalization'
    BY <1>1, <2>1
    DEF ActiveInv, EkfOff, NdtOff, Answered, Unanswered, FailureStopsLocalization
  <2> QED BY <1>3, <1>4, <2>2, <2>3, <2>4
<1> QED BY <1>5, <1>6 DEF Nodes

(* A node starts as it was lost: inactive. *)
LEMMA RestartStep ==
  ASSUME IInv, NEW node \in Nodes, Restart(node)
  PROVE  IInv'
<1> USE DEF IInv, requestVars, idle
<1>1. /\ UNCHANGED <<state, handed, work, answer, step, pose, startup, call, to_reset>>
      /\ UNCHANGED <<ekf, ndt_active, crashes, disturbed>>
      /\ up' = up \cup {node}
      /\ Callee' = Callee /\ (Triggering' <=> Triggering)
  BY DEF Restart, Callee, Triggering
<1>2. PoseInitializerTypeOK' /\ WorkInv'
  BY <1>1 DEF PoseInitializerTypeOK, WorkInv
<1>3. CallInv' /\ NodeInv' /\ ResetInv'
  BY <1>1 DEF CallInv, NodeInv, ResetInv, Unanswered
<1>4. ActiveInv' /\ FailureStopsLocalization'
  BY <1>1 DEF ActiveInv, EkfOff, NdtOff, EkfOn, NdtOn, Answered, Unanswered,
              FailureStopsLocalization
<1> QED BY <1>2, <1>3, <1>4

-----------------------------------------------------------------------------
(* The inductive invariant holds at first... *)
LEMMA Initially == Init => IInv
<1> SUFFICES ASSUME Init PROVE IInv
  OBVIOUS
<1>1. PoseInitializerTypeOK
  <2>1. ekf \in EkfStates
    BY InitialIsEkf DEF Init
  <2>2. to_reset \in Seq(Poses) /\ Len(to_reset) <= 2
    BY DEF Init
  <2>3. startup \in BOOLEAN /\ crashes \in 0..MaxCrashes
    BY PoseAssumption DEF Init
  <2> QED BY <2>1, <2>2, <2>3, StepNames
      DEF Init, PoseInitializerTypeOK, EkfStates, Service!States, Service!Answers
<1>2. WorkInv /\ CallInv
  BY TriggerSteps DEF Init, WorkInv, CallInv, idle, Later, Service!NoWork
<1>3. NodeInv /\ ResetInv
  BY InitialIsEkf DEF Init, NodeInv, ResetInv, Nodes, idle, Later
<1>4. ActiveInv /\ FailureStopsLocalization
  BY InitialIsEkf DEF Init, ActiveInv, EkfOff, NdtOff, EkfOn, NdtOn, Answered, Unanswered,
                      FailureStopsLocalization
<1> QED BY <1>1, <1>2, <1>3, <1>4 DEF IInv

(* What a request carries is what a client may send. *)
LEMMA OnInitializeStep ==
  ASSUME IInv, NEW r \in Requests, OnInitialize(r)
  PROVE  IInv'
<1>1. CASE \E code \in Service!Refusals : Refuse(code)
  BY <1>1, RefuseStep DEF OnInitialize
<1>2. CASE ~Lacking(r) /\ Begin(r.method, r.pose)
  <2>1. r.method \in {"auto", "direct"} /\ r.pose \in Poses \cup {NoPose}
        /\ (r.method # "auto" => r.pose \in Poses)
    BY <1>2 DEF Lacking, Requests
  <2>2. r.method \in Service!Methods
    BY <2>1 DEF Service!Methods
  <2> QED BY <1>2, <2>1, <2>2, BeginStep DEF OnInitialize
<1> QED BY <1>1, <1>2 DEF OnInitialize, Service!Refusals

(* ... and every step keeps it. *)
LEMMA Step == IInv /\ [Next]_vars => IInv'
<1> SUFFICES ASSUME IInv, [Next]_vars PROVE IInv'
  OBVIOUS
<1>1. CASE OnStartup
  <2>1. UserDefinedPose \in Poses /\ "startup" \in Service!Methods
    BY <1>1, PoseAssumption DEF OnStartup, IInv, WorkInv, Service!Methods
  <2> QED BY <1>1, <2>1, BeginStep DEF OnStartup
<1>2. CASE WaitForService
  BY <1>2, AskStep DEF WaitForService
<1>3. CASE SendRequest
  BY <1>3, AskStep DEF SendRequest, ReadyToCall
<1>4. CASE NotReady
  <2>1. ~idle
    BY <1>4, TriggerSteps DEF NotReady, ReadyToCall, idle
  <2>2. ~disturbed => step = "align"
    BY <1>4 DEF NotReady, ReadyToCall, IInv, NodeInv
  <2> QED BY <1>4, <2>1, <2>2, FailStep, InitialIsEkf DEF NotReady, IInv, ActiveInv, EkfOff, NdtOff
<1>5. CASE ServeTrigger
  BY <1>5, ServeTriggerStep
<1>6. CASE ServeAlign
  BY <1>6, ServeAlignStep
<1>7. CASE Receive
  BY <1>7, TriggerSteps, ProceedStep DEF Receive, IInv, CallInv
<1>8. CASE AlignFailed
  BY <1>8, FailStep DEF AlignFailed, IInv, CallInv, ActiveInv, EkfOff, NdtOff, idle
<1>9. CASE Guess \/ Confirm
  BY <1>9, TriggerSteps, ProceedStep DEF Guess, Confirm, IInv, CallInv, PoseInitializerTypeOK
<1>10. CASE NoGnssPose
  BY <1>10, FailStep DEF NoGnssPose, IInv, ActiveInv, EkfOff, NdtOff, idle
<1>11. CASE PublishReset \/ Finish \/ OnReset
  BY <1>11, PublishResetStep, FinishStep, OnResetStep
<1>12. CASE UNCHANGED vars
  BY <1>12 DEF vars, requestVars, nodeVars, systemVars, IInv, PoseInitializerTypeOK, WorkInv,
       CallInv, NodeInv, ResetInv, ActiveInv, EkfOff, NdtOff, EkfOn, NdtOn, Answered, Unanswered,
       FailureStopsLocalization, idle, Callee, Triggering
<1> QED
  BY <1>1, <1>2, <1>3, <1>4, <1>5, <1>6, <1>7, <1>8, <1>9, <1>10, <1>11, <1>12,
     OnInitializeStep, CrashStep, RestartStep DEF Next, Work

(* The inductive invariant holds always. *)
THEOREM PoseInitializerInvariance == Spec => []IInv
BY Initially, Step, PTL DEF Spec

(* Types; at most two resets are under way, whatever crashes and restarts. *)
THEOREM PoseInitializerTypesHold == Spec => []PoseInitializerTypeOK
BY PoseInitializerInvariance, PTL DEF IInv

(* An EKF that runs and has nothing more to receive estimates from the     *)
(* pose the last request handed on: no reset of an older one overtakes it. *)
THEOREM AlwaysLocalizesFromHandedPose == Spec => []LocalizesFromHandedPose
<1>1. IInv => LocalizesFromHandedPose
  BY DEF IInv, ResetInv, LocalizesFromHandedPose, Estimating
<1> QED BY <1>1, PoseInitializerInvariance, PTL

(* INITIALIZED: the reset has arrived or is on its way, both nodes work.   *)
THEOREM InitializedAlwaysLocalizes == Spec => []InitializedLocalizes
<1>1. IInv => InitializedLocalizes
  BY DEF IInv, ResetInv, ActiveInv, EkfOn, NdtOn, InitializedLocalizes, Estimating
<1> QED BY <1>1, PoseInitializerInvariance, PTL

(* No failure between the two deactivations leaves one of the nodes on.    *)
THEOREM FailureAlwaysStopsLocalization == Spec => []FailureStopsLocalization
BY PoseInitializerInvariance, PTL DEF IInv

(* Between the deactivation and the reset neither node goes on.            *)
THEOREM AlwaysSilentUntilReset == Spec => []SilentUntilReset
<1>1. IInv => SilentUntilReset
  BY DEF IInv, ActiveInv, EkfOff, NdtOff, SilentUntilReset
<1> QED BY <1>1, PoseInitializerInvariance, PTL

-----------------------------------------------------------------------------
(* What service_trigger_node does while an activation of the EKF is served *)
(* finds it off, and a reset handed on before it: whatever crashed, failed *)
(* or came late, an estimate that goes on is never activated again, which  *)
(* would empty its queues and start its delay table anew.  It is what the  *)
(* ActivateEkf of EkfUpdates takes for granted.                            *)
THEOREM OnlyIdleEkfIsActivated ==
  Spec => [][ServeTrigger /\ Callee = "ekf" /\ Triggers[step].activate
               => ~ekf.active /\ handed \in Poses]_vars
<1>1. ASSUME IInv, ServeTrigger, Callee = "ekf", Triggers[step].activate
      PROVE  ~ekf.active /\ handed \in Poses
  <2>1. step \in {"off_ekf", "off_ndt", "on_ekf", "on_ndt"} /\ call = "sent"
    BY <1>1, TriggerSteps DEF ServeTrigger
  <2>2. step = "on_ekf"
    <3>1. step # "off_ekf" /\ step # "off_ndt"
      BY <1>1, TriggerSteps
    <3>2. step # "on_ndt"
      <4>1. Triggers["on_ndt"].node = "ndt" /\ "ndt" # "ekf"
        BY DEF Triggers
      <4> QED
        BY <1>1, <2>1, <4>1, TriggerSteps DEF Callee
    <3> QED BY <2>1, <3>1, <3>2
  <2>3. ~ekf.active
    BY <1>1, <2>1, <2>2 DEF IInv, ActiveInv, EkfOff, Unanswered
  <2>4. handed \in Poses
    BY <1>1, <2>2 DEF IInv, WorkInv, Later
  <2> QED BY <2>3, <2>4
<1>2. IInv /\ [Next]_vars
        => [ServeTrigger /\ Callee = "ekf" /\ Triggers[step].activate
              => ~ekf.active /\ handed \in Poses]_vars
  BY <1>1
<1> QED
  BY <1>2, PoseInitializerInvariance, PTL DEF Spec

-----------------------------------------------------------------------------
(* Every step of the pose initializer is one of the service it promises,   *)
(* or invisible to its clients.                                            *)
LEMMA StepImplements ==
  ASSUME IInv, [Next]_vars
  PROVE  [Service!Next]_(Service!vars)
<1> USE DEF Service!vars, IInv, idle
<1>0. (idle => work = Service!NoWork) /\ (~idle => work \in Service!Methods)
  BY DEF WorkInv, PoseInitializerTypeOK
<1>1. ASSUME NEW r \in Requests, OnInitialize(r) PROVE Service!Next
  <2>1. CASE \E code \in Service!Refusals : Refuse(code)
    BY <1>0, <1>1, <2>1 DEF OnInitialize, Refuse, Service!Next, Service!Refuse
  <2>2. CASE ~Lacking(r) /\ Begin(r.method, r.pose)
    BY <1>0, <1>1, <2>2 DEF OnInitialize, Lacking, Requests, Begin, Service!Next,
                            Service!Begin, Service!Methods
  <2> QED BY <1>1, <2>1, <2>2 DEF OnInitialize, Service!Refusals
<1>2. CASE OnStartup
  BY <1>0, <1>2 DEF OnStartup, Begin, Service!Next, Service!Begin, Service!Methods
<1>3. ASSUME Fail, ~idle PROVE Service!Next
  BY <1>0, <1>3 DEF Fail, Service!Next, Service!GiveUp
<1>4. CASE NotReady \/ AlignFailed \/ NoGnssPose
  BY <1>3, <1>4, TriggerSteps
  DEF NotReady, ReadyToCall, AlignFailed, NoGnssPose, CallInv
<1>5. CASE PublishReset
  BY <1>0, <1>5 DEF PublishReset, WorkInv, Later, Service!Next, Service!HandOn
<1>6. CASE Finish
  BY <1>0, <1>6 DEF Finish, WorkInv, Later, Service!Next, Service!Succeed
<1>7. CASE WaitForService \/ SendRequest \/ ServeTrigger \/ ServeAlign \/ Receive \/ Guess
           \/ Confirm \/ OnReset
  BY <1>7 DEF WaitForService, SendRequest, ServeTrigger, ServeAlign, Receive, Guess, Confirm,
              OnReset, requestVars
<1>8. ASSUME NEW node \in Nodes, Crash(node) \/ Restart(node) PROVE UNCHANGED Service!vars
  BY <1>8 DEF Crash, Restart, requestVars
<1>9. CASE UNCHANGED vars
  BY <1>9 DEF vars, requestVars
<1> QED BY <1>1, <1>2, <1>4, <1>5, <1>6, <1>7, <1>8, <1>9 DEF Next, Work

(* The pose initializer implements the service its clients know.           *)
THEOREM ServiceRefinement == Spec => ImplementsLocalizationService
<1>1. Init => Service!Init
  BY DEF Init, Service!Init
<1>2. IInv /\ [Next]_vars => [Service!Next]_(Service!vars)
  BY StepImplements
<1> QED
  BY <1>1, <1>2, PoseInitializerInvariance, PTL
  DEF Spec, ImplementsLocalizationService, Service!Spec
=============================================================================
