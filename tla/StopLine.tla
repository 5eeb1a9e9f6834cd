------------------------------- MODULE StopLine -------------------------------
(***************************************************************************)
(* The stop line modules of the behavior velocity planner, and a vehicle   *)
(* that drives round a circular route along the paths they change.         *)
(*                                                                         *)
(* A cycle of the planner launches the module of a stop line whose lane    *)
(* has come onto the path, deletes the one whose lane has gone, and has    *)
(* each module put a stop into the path.  Positions of the vehicle count   *)
(* on over the laps; a stop line is where the vehicle has to stop for it.  *)
(***************************************************************************)
EXTENDS Integers, FiniteSetsExt

CONSTANTS Lines,        \* the stop lines: where to stop in the first lap
          Lap, Laps,    \* the length of the route; bound on the laps
          LaneBefore, LaneAfter,  \* how far the lane of a stop line reaches
          Horizon, Behind,        \* the path, ahead and behind the vehicle
          HoldMargin,         \* hold_stop_margin_distance
          RequiredDuration,   \* required_stop_duration_sec, in cycles
          StoppedDuration,    \* vehicle_stopped_duration_threshold
          MaxMissed,          \* cycles that are missed in a row
          MaxRestarts

(* A lap is long enough for the module to see its lane off the path, and   *)
(* for the path not to hold a stop line twice.                             *)
ASSUME StopLineAssumption ==
  /\ Lines \subseteq 0..(Lap - 1)
  /\ {Laps, HoldMargin, Horizon} \subseteq Nat \ {0}
  /\ {LaneBefore, LaneAfter, Behind, RequiredDuration, StoppedDuration, MaxMissed,
      MaxRestarts} \subseteq Nat
  /\ Lap \in Nat /\ Lap > LaneBefore + LaneAfter + Horizon + MaxMissed + 1
  /\ Lap > LaneBefore + Horizon + Behind

VARIABLES position,  \* of the vehicle
          still,     \* for how long it has stood, as the velocity buffer shows
          modules,   \* scene_modules_: of each line
          limit,     \* where the path published last ends or stops
          missed,    \* the time since then
          restarts,
          halted     \* history: the lines stood before long enough

vars == <<position, still, modules, limit, missed, restarts, halted>>

End == Lap * Laps
Places(line) == {line + k * Lap : k \in 0..(Laps - 1)}
AllPlaces == UNION {Places(line) : line \in Lines}

LongestStop == Max({RequiredDuration, StoppedDuration}) + 1
LongerBy1(n) == Min({n + 1, LongestStop})

Absent == [state |-> "ABSENT", stopped_for |-> 0]
Launched == [state |-> "APPROACH", stopped_for |-> 0]

isVehicleStopped == still > StoppedDuration

PathEnd == Min({position + Horizon, End})
OnPath(line) ==
  \E s \in Places(line) : s - LaneBefore <= PathEnd /\ s + LaneAfter >= position

(* Fault: modules are launched and never deleted. *)
LaunchedOnly ==
  [line \in Lines |->
     IF OnPath(line) /\ modules[line] = Absent THEN Launched ELSE modules[line]]

(* updateSceneModuleInstances *)
Instances ==
  [line \in Lines |-> CASE ~OnPath(line) -> Absent
                        [] OnPath(line) /\ modules[line] = Absent -> Launched
                        [] OTHER -> modules[line]]

(* compute_ego_and_stop_point: no place or one. *)
StopPoints(line, module) ==
  CASE module.state = "APPROACH" ->
         {s \in Places(line) : position - Behind <= s /\ s <= PathEnd}
    [] module.state = "STOPPED" -> {position}
    [] OTHER -> {}

(* Fault: a vehicle that stands beyond its stop is not held there. *)
StoppedOnSpot(distance) == distance = 0 /\ isVehicleStopped

(* Beyond its stop, too: the distance is negative there. *)
StoppedNear(distance) == distance < HoldMargin /\ isVehicleStopped

Released(module) == [state |-> "START", stopped_for |-> 0]

(* advance_state *)
Advanced(module, distance) ==
  CASE module.state = "APPROACH" /\ StoppedNear(distance) ->
         [state |-> "STOPPED", stopped_for |-> 0]
    [] module.state = "STOPPED" /\ module.stopped_for > RequiredDuration ->
         Released(module)
    [] OTHER -> module

-----------------------------------------------------------------------------
(* The vehicle is engaged anywhere in the first lap, and stands.           *)
Init ==
  /\ position \in 0..(Lap - 1) /\ limit = position
  /\ still = 0 /\ missed = 0 /\ restarts = 0
  /\ modules = [line \in Lines |-> Absent]
  /\ halted = {s \in AllPlaces : s < position}

(* onTrigger: planPathVelocity, with modifyPathVelocity of every module.   *)
(* The stop in the path is the one of the state before.                    *)
Plan ==
  LET stops(line) == StopPoints(line, Instances[line])
  IN  /\ modules' = [line \in Lines |->
                       IF stops(line) = {} THEN Instances[line]
                       ELSE Advanced(Instances[line], Min(stops(line)) - position)]
      /\ limit' = Min({PathEnd} \cup UNION {stops(line) : line \in Lines})
      /\ missed' = 0
      /\ UNCHANGED <<position, still, restarts, halted>>

TimePasses ==
  /\ missed <= MaxMissed /\ missed' = missed + 1
  /\ modules' = [line \in Lines |->
                   IF modules[line].state = "STOPPED"
                   THEN [modules[line] EXCEPT !.stopped_for = LongerBy1(@)]
                   ELSE modules[line]]
  /\ UNCHANGED <<limit, restarts>>

(* The vehicle stops where its path says ... *)
Drive ==
  /\ position < limit
  /\ position' = position + 1 /\ still' = 0
  /\ TimePasses
  /\ UNCHANGED halted

(* ... and may stand anywhere. *)
Stand ==
  /\ still' = LongerBy1(still)
  /\ halted' = halted \cup {s \in AllPlaces :
                              /\ position <= s /\ s < position + HoldMargin
                              /\ still' + MaxMissed >= RequiredDuration}
  /\ TimePasses
  /\ UNCHANGED position

(* The planner starts anew, with no modules and an empty velocity buffer. *)
Restart ==
  /\ restarts < MaxRestarts /\ restarts' = restarts + 1
  /\ modules' = [line \in Lines |-> Absent]
  /\ still' = 0
  /\ UNCHANGED <<position, limit, missed, halted>>

Next == Plan \/ Drive \/ Stand \/ Restart

(* Paths keep coming, time goes on, and the vehicle drives if it may.      *)
Fairness == WF_vars(Plan) /\ SF_vars(Drive \/ Stand) /\ SF_vars(Drive)

Spec == Init /\ [][Next]_vars /\ Fairness

-----------------------------------------------------------------------------
(* A vehicle that obeys its paths passes no stop line, in no lap, without  *)
(* having stood before it for as long as required; it may creep up to the  *)
(* line until the next cycle, which is why the cycles missed count off.    *)
StopsAtEveryLine == \A s \in AllPlaces : s < position => s \in halted

(* The modules let the vehicle go again: it gets round.                    *)
GetsRound == <>(position = End)

=============================================================================
