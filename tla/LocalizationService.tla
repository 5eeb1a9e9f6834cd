-------------------------- MODULE LocalizationService --------------------------
(***************************************************************************)
(* What the pose initializer promises: a request is refused at once, or it *)
(* is worked on and ends in INITIALIZED, with a pose handed on, or in      *)
(* UNINITIALIZED.  An AUTO request is answered with success exactly when   *)
(* it ended in INITIALIZED, a DIRECT one whenever it was not refused.  The *)
(* user defined pose of the start is worked on without a request.          *)
(***************************************************************************)
CONSTANTS Poses, NoPose

VARIABLES state,    \* the initialization state
          handed,   \* the pose handed on by the request in work or the last one
          work,     \* the method in work
          answer    \* to the last request

States == {"UNINITIALIZED", "INITIALIZING", "INITIALIZED"}
Methods == {"auto", "direct", "startup"}
NoWork == "none"
Answers == {"none", "success", "error", "unsafe", "parameter_error"}
Refusals == {"unsafe", "parameter_error"}

vars == <<state, handed, work, answer>>

Init ==
  /\ state = "UNINITIALIZED" \/ state = "INITIALIZING"
  /\ handed = NoPose
  /\ work = NoWork
  /\ answer = "none"

Refuse ==
  /\ work = NoWork
  /\ state' = "UNINITIALIZED"
  /\ answer' \in Refusals
  /\ UNCHANGED <<handed, work>>

Begin ==
  /\ work = NoWork
  /\ state' = "INITIALIZING"
  /\ handed' = NoPose
  /\ work' \in Methods
  /\ UNCHANGED answer

HandOn ==
  /\ work \in Methods /\ handed = NoPose
  /\ handed' \in Poses
  /\ UNCHANGED <<state, work, answer>>

Succeed ==
  /\ work \in Methods /\ handed \in Poses
  /\ state' = "INITIALIZED"
  /\ work' = NoWork
  /\ answer' = (IF work = "startup" THEN answer ELSE "success")
  /\ UNCHANGED handed

(* set_user_defined_initial_pose keeps its failure to itself. *)
FailureAnswer(method, old) ==
  CASE method = "auto" -> "error"
    [] method = "direct" -> "success"
    [] method = "startup" -> old

GiveUp ==
  /\ work \in Methods
  /\ state' = "UNINITIALIZED"
  /\ answer' = FailureAnswer(work, answer)
  /\ work' = NoWork
  /\ UNCHANGED handed

Next == Refuse \/ Begin \/ HandOn \/ Succeed \/ GiveUp

Spec == Init /\ [][Next]_vars
=============================================================================
