# Verification of Autoware Core

TLA+ models of the parts of Autoware Core whose behaviour is discrete and
concurrent. TLC checks them on small instances, and TLAPS proves their safety
properties for every instance:

- the routing stack, from a user's goal to the route the planning nodes follow;
- localization: the pose initializer with the nodes it starts and stops, the
  measurement queues and delay compensation of the EKF, the map of the NDT scan
  matcher, the gyro odometer;
- the stop line modules of the behaviour velocity planner;
- the temporal trajectory, a path with a schedule that is cropped, stopped and
  shifted.

## 1. Inventory of the system

Autoware Core is a set of ROS 2 nodes (C++) and libraries. Nodes share nothing
but topics and services. Most of the code is numerical (trajectories, point
clouds, filters, optimisation) and keeps no state worth a state machine. What
does keep state, or invariants over several members:

| Component | State | Operations | Talks to | What is hard |
| --- | --- | --- | --- | --- |
| mission planner (`planning/autoware_mission_planner`) | route state, current route, goal and velocity window of the arrival checker, newest odometry and operation mode, its route handler | clear, set by lanelets, set by waypoints, odometry, map, operation mode, readiness timer | default_adapi, localization, map loader, command gate | requests that fail half way through, a map that changes under a route, arrival |
| route handler (`planning/autoware_route_handler`) | map and graphs, route, lanelets of the route, start and goal lanelets, original poses, ready flag | setMap, setRoute, setRouteLanelets, clearRoute | used by the mission planner and behaviour planners | parts that can come from different routes or maps |
| routing AD API (`api/autoware_default_adapi`, `routing.cpp`) | copies of the planner's state and of the operation mode, a velocity buffer | three kinds of requests, state, route, mode and odometry subscriptions | clients, mission planner, command gate | stale copies, blocking calls, depth 1 topics |
| routing adaptor (`api/autoware_adapi_adaptors`) | the request being put together, a merge counter, a copy of the API's state, a call in flight | goals, waypoints, reroutes, 5 Hz timer | routing AD API | merging, retries, calls that are refused |
| command gate (`control/autoware_command_gate`) | the mode last published | change of the operation mode | default_adapi, mission planner | late requests |
| pose initializer (`localization/autoware_pose_initializer`) | initialization state, the request in work | initialize, user defined pose of the start | EKF, NDT, GNSS | partial failure of a sequence of calls, a topic racing services, nodes that crash while they serve |
| EKF localizer (`localization/autoware_ekf_localizer`) | two activation flags, staging and aged queues, the last predictions and the table of their delays | trigger, pose reset, poses, twists, update timer | pose initializer, NDT, gyro odometer | callbacks in parallel, updates that are late or skipped, flags, queues and table that change in different callbacks |
| NDT scan matcher (`localization/autoware_ndt_scan_matcher`) | activation, two maps, rebuild flag, position of the last update | trigger, alignment, scans, EKF pose, map update timer | pose initializer, map loader | three callback groups in parallel, two locks, loads that fail |
| gyro odometer (`localization/autoware_gyro_odometer`) | two queues, newest stamps | two inputs | EKF | inputs that are late, stop or get out of step |
| path generator (`planning/autoware_path_generator`) | newest map and route | timer | mission planner | following a route that was cleared |
| behaviour velocity planner, stop line module (`planning/behavior_velocity_planner`) | registered modules, APPROACH / STOPPED / START, velocity buffer | planning cycle | path generator, control | a final state, modules that expire, missed cycles |
| other nodes (velocity smoother, motion velocity planner, pure pursuit, perception, sensing, map) | newest inputs, parameters | one output per input or timer | | real arithmetic |
| temporal trajectory (`common/autoware_trajectory`) | path and its window, velocities, time bases and their window, offsets of time and distance | crop by time or distance, stop, stop for a while, offsets | planners | windows and offsets in three members, each in coordinates of its own, over long sequences of operations |
| other libraries (`common/*`) | none, or wrappers of ROS | pure functions | | real arithmetic |

`PROJECT.json` lists every component, with the reason where one is not
modelled, and every hazard at its line.

What makes the routing stack correct:

- planner: a route exists exactly in SET and ARRIVED; a request that fails
  changes nothing; the route handler always works on the active route and the
  present map; ARRIVED is announced only after a stop that is long enough, and
  always after one; after arrival only a clear makes room for another route;
- API: it shows the planner's state and route in the end; a call does what it
  is named for, if the client waits for the messages; it never waits for ever;
  arrival ends the autonomous mode, if the gate can be reached;
- adaptor: the last goal and its waypoints win; no goal is lost.

What makes localization correct:

- pose initializer: an initialized system localizes from the pose of the last
  request and from no other; a request that fails leaves no node at work; old
  estimates are not continued; a request ends;
- EKF: a measurement is compared with the prediction of its time, is used as
  often as its covariance is scaled for, and belongs to the present activation;
- NDT map: the map in use is a whole one and lies where the node believes it
  does; it follows the vehicle;
- gyro odometer: what is fused belongs together in time, once and in order.

What makes the stop line module correct: the vehicle stops before every line in
every lap for as long as required, and gets going again.

What makes the temporal trajectory correct: whatever was done to it before, an
operation changes the user's schedule as its name says; times and arc lengths
convert into each other; where the schedule stands the velocity is zero.

## 2. Modules

| Module | Models | Kind |
| --- | --- | --- |
| `RouteMessages` | the messages of the planner's interface | shared definitions |
| `Topics` | a topic of depth 1 | operators on a queue |
| `RouteService` | what the mission planner promises its clients | abstract specification |
| `RouteHandler` | `RouteHandler`'s route state | operators on a handler record |
| `ArrivalChecker` | the stop test of `ArrivalChecker` | operators on the velocity window |
| `MissionPlanner` | `MissionPlanner` and its node | specification; refines `RouteService` |
| `RoutingApi` | `RoutingNode`, the topics, the command gate | specification over `RouteService` |
| `RoutingAdaptor` | `RoutingAdaptor` as the client of `RoutingApi` | specification over `RoutingApi` |
| `LocalizationService` | what the pose initializer promises its clients | abstract specification |
| `EkfLocalizer` | flags and queues of `EKFLocalizer`, `AgedObjectQueue` | operators on an EKF record |
| `DelayCompensation` | `EKFModule`'s delay table, the states of `TimeDelayKalmanFilter` | operators on a filter record |
| `PoseInitializer` | `PoseInitializer` and its modules with the EKF and the NDT | specification; refines `LocalizationService` |
| `EkfUpdates` | the callbacks of the EKF that pass measurements on | specification |
| `NdtMap` | `MapUpdateModule` and the callbacks around it | specification |
| `GyroOdometer` | `GyroOdometerNode` | specification |
| `StopLine` | the stop line modules, their manager, the vehicle | specification |
| `Schedule` | what a temporal trajectory is to its user | abstract specification |
| `TemporalTrajectory` | `TemporalTrajectory`, `TimeDistanceMapping` and the functions that change them | specification; refines `Schedule` |
| `MissionPlannerProofs`, `RoutingProofs`, `PoseInitializerProofs`, `EkfUpdatesProofs`, `NdtMapProofs`, `GyroOdometerProofs`, `StopLineProofs`, `TemporalTrajectoryProofs` | | theorems |
| `MC...` | constants and history variables of a TLC run | model checking |

```
 RoutingAdaptor --EXTENDS--> RoutingApi --INSTANCE--> RouteService
                                |                         ^
                                v   refines (TLC, TLAPS)  |
                              Topics                      |
        RouteHandler, ArrivalChecker <--EXTENDS-- MissionPlanner

      EkfUpdates --EXTENDS--> DelayCompensation, EkfLocalizer
                                                     ^
 LocalizationService <--refines (TLC, TLAPS)-- PoseInitializer --EXTENDS--> Topics

 Schedule <--refines (TLC, TLAPS)-- TemporalTrajectory
```

`RoutingApi` uses the planner through `RouteService` only. Because
`MissionPlanner` is proved to implement `RouteService`, down to the messages of
every callback and the answer of every request, and callback by callback
(`CallbacksAlwaysServe`: a clear that is served is `ServeClear`, a route is
`ServeSet`, the steps that `Serve` of `RoutingApi` is made of), what holds of `RoutingApi` with
the abstract planner holds with the real one (for safety; the liveness runs use
in addition that the planner serves a request, which it does in one callback).

`PoseInitializer` and `EkfUpdates` share the EKF record. `PoseInitializer` shows
that the trigger never activates an EKF that is active (`SilentUntilReset` up to
the reset, the theorem `OnlyIdleEkfIsActivated` at the trigger itself), which is
what `ActivateEkf` of `EkfUpdates` assumes: an activation while the estimate goes
on would shift its states and its delay table apart. A deactivation may find the
EKF in any state, and `DeactivateEkf` has no guard.

Definitions whose comment starts with "Fault:" are not part of the model. Each
is a plausible slip in the definition it stands next to; exchanging the two
makes TLC violate one of the properties, which shows that the property depends
on the code (`PROJECT.json`, "mutants").

### How state and actions correspond to the code

*MissionPlanner.* All callbacks of the node are in one mutually exclusive
callback group, so a callback is one action. `state`, `ready`,
`current_route`, `odometry` and `operation_mode_state` are the members of that
name; `planner` is the route handler inside `DefaultPlanner`, `goal` and
`twist_buffer` belong to the arrival checker. `published` holds the messages of
the last callback, by topic, and `reply` its response; ROUTING and REROUTING are entered
and left within one callback, so they are seen in `published` only. A route is
one value for its segments, goal and start pose; `NoRoute` is a null pointer
and a route without segments as well. `Uuid`, `LoopedRoutes` and `ValidOn` give
a route the attributes the code looks at. Path search, goal validation and the
length computations of the reroute check are choices between their outcomes;
the outcomes the speed alone decides are kept (`SafetyVerdicts`). A transform
may fail at any request. Lanelet requests name lanelets of the map. Odometry
stamps increase strictly. The branch "not ready" of the set services is kept
although the state check before it makes it unreachable (`RouteMatchesState`).

*RouteHandler.* The lanelets a handler holds are named by the route they come
from and the map they belong to, so stale ones can be told from current ones.
The record's fields are explained at `Handler`. setRoute ignores a looped route
with an error log while the planner keeps it as its current route: this is why
`PlannerFollowsRoute` is about routes without a loop. Waypoint plans are
checked for loops before they are returned, so a looped route can only come from
a lanelet request.

*ArrivalChecker.* The window maps the age of a sample to "stopped"; one unit of
time is enough to tell younger than, equal to and older than the duration.

*RoutingApi.* The service callbacks and subscriptions of `RoutingNode` are in
its default, mutually exclusive callback group and its clients in another
(`group_cli_`). A service callback blocks in `convert_call` until the response
is there, which is modelled by `call`: nothing else of the group runs while it
is not "none" (`idle`), and `Return` needs no turn in the group. The state and
route topics have depth 1 on both sides: one message at the writer, one at the
reader, any of the older ones may be lost, the newest is not (`Sent`, `Taken`).
The operation mode is reduced to its newest value, the stop checker's buffer to
its newest sample, several STOP requests under way to one. AUTONOMOUS and
"Autoware control enabled" are one thing because the command gate sets both
together. `stop_service` is whether the node finds the gate's service
(`Discovery`); in ARRIVED without it `change_stop_mode` logs an error and returns,
and nothing asks for the stop again. Odometry may report anything at any time:
whether the vehicle moves is no state of its own. Refused requests and requests made while the planner's service is not
available change nothing and are not steps. INITIALIZING, which `on_state`
skips, is never published by this mission planner.

*RoutingAdaptor.* The adaptor is the only client and no autonomous mode is
active (the API would refuse its clear while moving). `request` is the clear or
set call under way, with its stage: sent, taken by the API node, done;
`calling_service_` is derived from it. A reroute is a call of its own; a second
one before the first is answered is left out. What the API publishes is
converted (`ExternalState`): ROUTING is UNSET to the adaptor.

*PoseInitializer.* `on_initialize` and `set_user_defined_initial_pose` run in
`group_srv_`, one at a time; `step` is the line the callback is at and `call` the
state of the service call it waits for there: `wait_for_service` returned
(`found`), request sent, answered, failed, or lost with the node that served it.
The client of the triggers waits for its node without a limit and asks once more
whether it is there before it sends; the alignment asks only that. Whether the
vehicle stands, whether GNSS has a pose and whether the alignment converges are
choices. `Confirm` is the optional check against GNSS, which waits and warns
only. The pose reset is a topic of depth 1 from `Topics`. A crash takes the
node's state, the messages on their way to it and the request it serves; an
answer that was given arrives. All modules are enabled and YabLoc, which stands
in the same places as the NDT, is not. Triggers never answer false here: both
nodes answer true always. `disturbed` is a history variable.

*EkfLocalizer, EkfUpdates.* `callback_pose...` and `callback_twist...` have
callback groups of their own; timer, reset and trigger share one. `push_pose`
looks at the flags without the lock of the queue and is therefore two actions
(`OnPose`, `StagePose`); everything else is one. A measurement is its number,
with the activation it was received in as history. Gates on delay and distance
decide about the update of the filter, after the queues, and are left out.

*DelayCompensation.* A state of the filter is represented by the time of the
update that predicted it, so that what a table entry claims can be compared with
what is there. The table starts with 1.0E15 in every entry and the first
update of the process does not accumulate: the prediction of that update is
never known to the table, which is why the property speaks of `Known` slots.
An update later than 10 s counts as 10 s late (`MaxDt`, hence `OnTime`). A clock
that jumps back is not modelled.

*NdtMap.* The timer, the EKF pose and the group of scans, trigger and alignment
run in parallel. `builder_state_` is held from `load` to `store`, `ndt_ptr_` only
by a rebuild in `load` and `remove`; a scan that has to wait for the lock is an
action that is not enabled. The map loader's answer is computed from the cache
that is sent, as the differential map loader does. A failed load stores the
position all the same, which is the code's behaviour and the exemption in
`MapIsWhereItSays`. Scores, convergence and the interpolation of poses
(`SmartPoseBuffer`) decide what is published, not which map is used.

*GyroOdometer.* A sample is its stamp; an input comes in order, the two of them
with different latencies up to `MaxLatency`. `message_timeout_sec` is compared
with the newer of the two newest stamps, as the code does. A transform
that is not available drops the sample before it is queued; differing frames
drop what waits.

*StopLine.* Lines are points on a circular route; a module is launched when the
lane of its line comes onto the path and dropped when it leaves it. `Plan` is
one cycle: the instances first, then every module's stop with the state of
before, then its next state. The vehicle is the environment: it moves one place
at a time or stands, no further than the last path lets it. It may creep from
the place it stood on to the stop between the cycle that sees it stopped and the
next, and the timer of the stop runs on: it stands at the stop for
`required_stop_duration_sec` less the cycles missed. START is final until the
lanelet leaves the path. `StopLineAssumption` says what a route must be for the
code to see a line anew in every lap: a lap is long enough for the lane of a line
to be off the path for a while, however many cycles are missed, and for a path,
with what it keeps behind the vehicle, not to hold a line twice. Without the
second part a module looks for its stop at the line it has passed already
(TLC finds a line that is missed with `Behind` = 12 in a lap of 14). A module in STOPPED always has its `stopped_time`, so the
recovery branch of `advance_state` is left out. The experimental copy of the module is the same machine and is not modelled.

*TemporalTrajectory.* `distance` is the function that interpolates
`distance_bases_` over `time_bases_`, which reach from `first` to `last`;
`start_time` and `end_time` are the window of the mapping in its internal time,
`start` and `end` the window of the spatial trajectory in its uncropped arc
length. `distance_to_time` is a bisection in the code and the time it converges
to in the model (`IsTimeAt`, `IsEndTimeAt`). Times and arc lengths are whole
numbers, and the vehicle needs at least a unit of time for a unit of the path: it
is at every place at a time with a base, so what the interpolation does between
two bases does not matter and rounding does not occur. `set_distance_range` and
`extend_time_at` rebuild the mapping, which resets its window, and set the window
again; the model has the result. Of the velocities only the bases at which they
are zero are kept (`zeros`), at the start those where the vehicle stands. The
functions take a trajectory by value and return the changed one, so a caller's
sequence of calls is a behaviour. `call` is no member: it keeps the last call with
its arguments, so that `Schedule` says of each call what it does, and an alternating
flag, so that a call which changes nothing is still a step that `Schedule` has to
allow. A call that starts or stops out of range throws and is no step; the end of a
crop is clamped (`crop.cpp:32`, `:50`). `AddOffset` builds a new trajectory from the restored points; the
offset in the vehicle's frame is geometry and its change of the arc lengths is
left out, so the step stands for any restoring and building.

## 3. Runs

| Run | Shows | Size |
| --- | --- | --- |
| `mission_planner` | all properties of the planner below | 169 000 states, 80 s |
| `routing_api` | all properties of the API below | 431 000 states, 180 s |
| `routing_adaptor` | `AdaptorTypeOK`, `LastGoalWins`, `ClearLeadsToSet` | 124 000 states, 25 s |
| `pose_initializer` | all properties of the pose initializer below | 213 000 states, 21 s |
| `ekf_updates` | all properties of the EKF below | 2 247 000 states, 53 s |
| `ndt_map` | all properties of the NDT map below | 348 000 states, 64 s |
| `gyro_odometer` | `FusedAreClose`, `FusedInOrder` | 137 000 states, 5 s |
| `stop_line` | `StopsAtEveryLine`, `GetsRound` | 14 000 states, 5 s |
| `temporal_trajectory` | all properties of the temporal trajectory below | 490 000 states, 45 s |
| `reroute_forbidden`, `goal_dropped`, `stops_are_shown` | findings, see section 5 | seconds |

Properties of the planner: `TypeOK`; `RouteMatchesState` (route, arrival goal
and state agree); `PlannerFollowsRoute` (the handler works on the active route
whatever failed); `HandlerCoherent` (a ready handler mixes no maps or routes);
`OriginalPoseTracksUuid`; `FailedRequestKeepsRoute` (a failed request is undone);
`ArrivesOnlyWhenStill` (against a history of how long odometry has reported a
standstill); `ImplementsRouteService` (refinement); `InitializationCompletes`
and `ParkedIsNoticed` (liveness).

Properties of the API: `ShownRouteIsRight` and `CallsMeanWhatTheySay`
are for patient clients, which make no request while a message of the planner
is under way; for others they are false, because set and change are told apart
by a copy of the state. `ApiCatchesUp`: if the planner stays in one state, the
node holds that state again and again (an old value may come in between).
`ApiNeverHangs`: every call returns. `ArrivalStops`: an arrival the node is about
to learn of ends the autonomous mode, whatever is asked of the node meanwhile,
unless the route is cleared before a stop is asked for or the gate's service is
away; in these two cases the code does nothing and does not try again.

Properties of the adaptor: `AdaptorTypeOK` (of the API's variables, too);
`LastGoalWins` (when everything is quiet and nothing
was turned down, the planner's route is the user's last goal with the waypoints
added since) and `ClearLeadsToSet`.

Properties of the pose initializer (its types, and at most two resets under way,
are proved: `PoseInitializerTypeOK`):
`LocalizesFromHandedPose` (an EKF that estimates and has no reset to receive does
so from the pose of the last request, with crashes and late resets);
`InitializedLocalizes` (INITIALIZED means both nodes work);
`FailureStopsLocalization` (a failed request leaves neither at work; one refused
because the vehicle moves says UNINITIALIZED and leaves both as they were);
`SilentUntilReset`; `ImplementsLocalizationService` (refinement; a DIRECT request
answers success even when it failed, and the abstract specification says so);
`InitializationEnds` (a request ends unless the node that serves it is lost: then
`future.get()` waits for ever and no request is taken any more).

Properties of the EKF: `EkfTypeOK` with the bounds of all queues;
`MeasurementMeetsItsPrediction` (of the predictions since the reset, the table
picks the one closest in time, whatever was activated, reset, late);
`UsedInFewUpdates`; `AtMostOneStalePose` (one pose of the time before an
activation may get in, the one `push_pose` was busy with).

Properties of the NDT map: `NdtTypeOK` (with at most one update under way);
`MapIsWhereItSays`; `MatchesWholeMaps`; `MapFollows` (a vehicle far from the last
update gets one, even if the alignment service keeps asking for other places).

Properties of the gyro odometer (`GyroTypeOK` is proved: what waits was not fused,
and one side waits): `FusedAreClose` (three timeouts at most: each input is within one of
the newest of the other only, and samples wait); `FusedInOrder`.

Properties of the stop line: `StopsAtEveryLine` and `GetsRound`.

Properties of the temporal trajectory: `WindowsAgree` (the two windows are the
same piece of the ride, `distance_offset_` is its start, and in it the vehicle
does not go back); `ConversionsAgree` (`distance_to_time` throws for no arc length
of the trajectory, and the times between its two answers are exactly those that
convert back to it); `ImplementsSchedule` (refinement, call by call: the schedule
after `crop_time(t, duration)` is the window asked for as far as the trajectory goes,
after `set_time_offset(offset)` all times are moved by the offset before less the new
one, and so on for every operation and argument; a stop that does nothing, a hold
that is too short or an offset of the other sign is a violation);
`UncroppedKeepsStopsShown`
(a trajectory that starts where it was built keeps zero velocities wherever it
stands, which is what is left of the finding `stops_are_shown`).

### Bounds, and why they are enough

- `mission_planner`: a route A, a later message A2 of the same uuid that is
  valid on one of two maps only, and a looped route; arrival duration 1, window
  2, odometry periods 1 and 2. This gives reroutes with and without a change of
  uuid, routes invalidated by a map, restorations, and windows that are too
  short, exactly long and sparse. The time of the window is the only counter.
- `routing_api` has two routes, so that a wrong route differs from a right one.
  No counter is bounded: the topics are bounded by their depth.
- `routing_adaptor`: one goal and `MaxInputs` = 3 goals, waypoints and reroutes
  in all, which gives four different requests (0 to 3 waypoints). Inputs can
  fall into every phase: the merge window, a clear or set on its way, being
  served, or being answered.
- `pose_initializer`: two poses, so that an abandoned one differs from the
  present one, one of them user defined; requests without bound; two crashes
  (`MaxCrashes`), of one node twice or of both, at any step.
- `ekf_updates`: a pose queue of 2 used twice, a twist queue of 1 used once, so
  that drops, ages and caps occur; three predictions and updates up to
  `MaxDt` = 3 and later within 5 periods (`MaxTime`), four measurements
  (`MaxMeasurements`), two activations (`MaxEras`) with any number of resets and
  deactivations between them. `Never` is larger than any time.
- `ndt_map`: four positions, near enough for an extension, far enough for a
  rebuild, and one outside of the point cloud map, where the area is empty.
- `gyro_odometer`: timeout 2, latency up to 4, 9 units of time: inputs within,
  at and beyond the timeout, in and out of step.
- `stop_line`: two lines that are on the path together and one alone, three laps
  so that a module dropped comes back twice, two cycles missed in a row, two
  restarts of the planner.
- `temporal_trajectory`: rides of 2 units (`Span`) with a stop at the start, at the
  end, both or none; crops and stops of 0, 1 and 2 units (`Durations`);
  time offsets to either side (`Offsets`); time bases up to 3 (`MaxTime`), so that a
  stop can be inserted in the middle, into what a crop has left and into a stop. Any
  number of operations in any order. The last call with its arguments is part of the
  state and multiplies their number by 16; `stops_are_shown` has rides of 3 units,
  and `ScheduleRefinement` covers all.

No symmetry is used. Deadlock is checked in all runs but three: in
`pose_initializer` a node lost while it serves stops the request for good (and
when the crashes are used up, everything), and the clocks of `ekf_updates` and
`gyro_odometer` end.

### Fairness, and why the code justifies it

- Planner: the readiness timer fires at 10 Hz until it is cancelled, and
  localization keeps publishing odometry (weak fairness of both).
- API: the planner answers (one callback without waiting), a response that is
  there is taken (its callback group is idle), the gate obeys: weak fairness.
  `OnState`, `OnRoute` and `OnOperationMode` are blocked while a call is in
  flight, again and again if a client keeps calling; the executor takes what a
  subscription holds before the next service request, so they are not starved:
  strong fairness. Clients, users and the vehicle owe nothing.
- Adaptor: its timer, its messages and its responses arrive (weak); its
  requests compete with each other for the API's callback group (strong).
- Pose initializer: its callback goes on, the nodes answer and take their
  messages, and a node that is lost is started again (weak). Clients owe nothing.
- NDT map: the timer fires and an update goes on; a load may fail (weak).
  `LockForTimer` is strongly fair: `builder_state_` is free again and again, and
  that the timer gets it in the end is an assumption about the mutex, against
  an alignment service that is called again at once.
- Stop line: paths keep coming (weak), and a vehicle that may drive again and
  again does (strong): it waits before a line only as long as it must.

## 4. Proofs

Every safety invariant and every action property that a passing run checks is a
theorem, and so is every refinement; eight modules hold them. `MissionPlannerProofs` proves, for every set of
routes and maps, every arrival duration and window, and every value of `AllowReroute`:

| Theorem | Property |
| --- | --- |
| `TypeCorrect` | `TypeOK` |
| `RouteAlwaysMatchesState` | `RouteMatchesState` |
| `PlannerAlwaysFollowsRoute` | `PlannerFollowsRoute` |
| `HandlerAlwaysCoherent` | `HandlerCoherent` |
| `OriginalPoseAlwaysTracksUuid` | `OriginalPoseTracksUuid` |
| `FailureIsUndone` | `FailedRequestKeepsRoute` |
| `StillWhenItArrives` | `ArrivesOnlyWhenStill` |
| `Refinement` | `ImplementsRouteService` |
| `CallbacksAlwaysServe` | which step of `RouteService` each callback is |

They rest on `RouteAssumption`, `ArrivalAssumption` and `PlannerAssumption`
(what kind of value each constant is; TLC evaluates them in every run) and on
one inductive invariant, `IInv` (theorem `Invariance`): `TypeOK`,
`RouteMatchesState`, `PlannerFollowsRoute` and `HandlerInv(planner)`.

- `PlannerFollowsRoute` is not inductive alone. A waypoint plan that fails has
  put other lanelets into the handler; that `CancelRoute` ends on the active
  route needs that such a plan leaves the handler's route and map alone
  (`TouchKeepsHandler`), and that `SetRoute` of a route without a loop reloads
  everything when the map allows it (`SetRouteKeepsHandler`). That there is a
  route to restore exactly when there should be one is `RouteMatchesState`.
- `HandlerInv` says what every operation of the route handler preserves, for
  any handler and whoever calls it; the lemmas `...KeepsHandler` prove it
  operation by operation. `HandlerCoherent` and `OriginalPoseTracksUuid` follow
  from it. Only `SetRoute` and `SetMap` reload lanelets, and both make the
  handler not ready first, which is the hypothesis of `ReloadKeepsHandler`.
- `FailureIsUndone` needs more than the restored route: the handler must be
  equal to what it was, field by field. `RestoreExact` shows this from `IInv`:
  with a valid route, every field of a handler is determined by its map, its
  route and its original poses, before the request as after it.
- `StillWhenItArrives` is about the history variable of `MCMissionPlanner`, so the
  module extends that one. Its invariant, `StillInv`: as far back as the window
  holds stopped samples only, odometry has reported nothing else. That the samples
  the window has dropped do not matter is the point; they are older than a sample
  that is still in it.
- `Refinement` maps `state` to `phase`, `current_route` to `route` and `reply`
  to what a client learns from it (`Answered`); a step is `Open`, `Arrive`, a
  served request, or `Quiet`. Which one, is said callback by callback in
  `CallbacksServe` (`CallbacksMap`), on which both theorems rest.

The step proof has one case per action.

`RoutingProofs` proves of `RoutingApi`, for every set of routes, with the
planner that `RouteService` promises, from `ApiAssumption` (`NoRoute` is no route):

| Theorem | Property |
| --- | --- |
| `TypeCorrect` | `TypeOK` of `RoutingApi` |
| `ApiShowsTheRoute` | `ShownRouteIsRight` |
| `RequestsDoWhatTheySay` | `CallsMeanWhatTheySay` |

The invariant says what the node will hold when a topic is empty again
(`AtTheEnd`: the newest message under way, or else what it holds now). For the
state that is always the planner's (`StateArrives`). For the route it is so with
patient clients only: while there is a route no UNSET may be under way that would
take it from the API (`RouteArrives`), and a cleared route is not under way itself
and goes with the UNSET that is (`ClearArrives`). Both need that the planner still
is, when it serves a request, in the phase the node asked for it in
(`CallIsCurrent`), except that it may have arrived: nobody but the node makes
requests. A step of the planner is reduced to what it says on the two topics
(`Says`), and what becomes of a topic is in three lemmas: the newest message stays
the last one when messages are sent (`NothingSent`, `SentEndsWithNewest`) and when
one is taken (`TakenLeavesNewest`). With `Refinement`
and `CallbacksAlwaysServe` the theorems hold of the API together with `MissionPlanner`.

The same module proves of `RoutingAdaptor`, for all goals and any number of inputs
(`AdaptorAssumption`):

| Theorem | Property |
| --- | --- |
| `AdaptorTypeCorrect` | `AdaptorTypeOK` |
| `TheLastGoalWins` | `LastGoalWins` |
| `AdaptorIsAClient` | every step is one of `RoutingApi` or leaves it alone |

`AdaptorInv` adds to the invariant of the API, which holds for every client and so
for this one, what is true as long as no request was turned down: the call the
API node is busy with is the adaptor's request (`RequestIsTheCall`), and once the
wait is over (`elapsed_count` is 0) the route the user asked for is the planner's
or is carried by the request (`WantedIsOnItsWay`). The second needs the first, or
an older set could be served after it; a new input ends both at once, because it
starts the wait again.

`PoseInitializerProofs` proves, for every set of poses, with a user defined one
or none, and any number of crashes:

| Theorem | Property |
| --- | --- |
| `PoseInitializerTypesHold` | `PoseInitializerTypeOK` |
| `AlwaysLocalizesFromHandedPose` | `LocalizesFromHandedPose` |
| `InitializedAlwaysLocalizes` | `InitializedLocalizes` |
| `FailureAlwaysStopsLocalization` | `FailureStopsLocalization` |
| `AlwaysSilentUntilReset` | `SilentUntilReset` |
| `OnlyIdleEkfIsActivated` | an activation finds the EKF off and a pose handed on |
| `ServiceRefinement` | `ImplementsLocalizationService` |

from `EkfAssumption` and `PoseAssumption`. The inductive invariant says at every
step of the request what the two nodes are (`ActiveInv`), which node must be
there (`NodeInv`: a call that was sent has someone to answer it), what the
request has (`WorkInv`, `CallInv`), and that the last reset is the last to
arrive (`ResetInv`). `InitializedLocalizes` is not inductive alone: that the
nodes work needs to know at each trigger what the ones before have done, and
that the estimate is set needs that the reset is still under way or was taken.
`FailureStopsLocalization` needs that a request can fail only before the EKF is
activated, unless a node is lost: `NotReady` at a later trigger contradicts
`NodeInv`. The pose reset is a topic, too, with the lemmas of one. In the refinement a request is
refused or begins, hands its pose on, succeeds or gives up; every other step is
invisible.

`EkfUpdatesProofs` proves, for every number of smoothing and delay steps, all queue
sizes, times and numbers of measurements and activations, from `EkfAssumption`,
`DelayAssumption` and `UpdatesAssumption`:

| Theorem | Property |
| --- | --- |
| `EkfTypeCorrect` | `EkfTypeOK` |
| `UsedFewTimes` | `UsedInFewUpdates` |
| `OneStalePose` | `AtMostOneStalePose` |
| `TheMeasurementsPrediction` | `MeasurementMeetsItsPrediction` |

- `QueueInv` is the invariant of the queues. A measurement is in one place at most,
  and its age in the aged queue is the number of updates it was used in
  (`OnePlace`), which is what bounds the number by the age; with a pose of an
  earlier activation queued, none is under way in `push_pose` (`OneStale`). The
  queues are cut, drained and aged, with repetitions within one update:
  `NewestIsTheEnd`, `OlderLeaves` and `DrainedIsFound` say what is left where. The
  aged queue is defined by a recursive function, whose properties follow from the
  least number for which they could be false (`Least`).
- `FilterInv` is the invariant of the delay compensation: the table does not decrease and
  counts no further back than the clock (`TableGrows`), a filter that was
  reset and not predicted yet has the reset in every slot, and the table of a
  running one differs from slot to slot as the times of the predictions do,
  each interval counted up to `MaxDt` (`SlotsMatch`).
  `MeasurementMeetsItsPrediction` needs in addition that with no late update the
  delays are the exact ages (`DelaysAreExact`). That entries not yet known can never be the closest one
  needs `MaxTime` < `Never`: 1.0E15 seconds are not reached.

`NdtMapProofs` proves `NdtTypeOK`, `MapIsWhereItSays` and `MatchesWholeMaps`
(`NdtTypesHold`, `MapAlwaysIsWhereItSays`, `AlwaysMatchesWholeMaps`) for every
set of positions and cells and all distances, from `MapAssumption`. Invariant:
what the map under construction has at each step of an update (`ProgressInv`),
that both maps are the same outside of a change once built (`CopyInv`, without
which an extension that finds nothing to load could leave the first map
elsewhere), and that a map which is not locked is whole (`WholeInv`).

`GyroOdometerProofs` proves `GyroTypeOK`, `FusedAreClose` and `FusedInOrder`
(`GyroTypesHold`, `FusedAlwaysClose`, `FusedAlwaysInOrder`) for every timeout and
latency, from `GyroAssumption`. Invariant: what waits is no older than the
timeout allows against the newest of the other input (`WaitingInv`), and
everything used before is older than all that waits (`UsedInv`).

`TemporalTrajectoryProofs` proves `WindowsAgree`, `ImplementsSchedule` and
`UncroppedKeepsStopsShown` (`WindowsAlwaysAgree`, `ScheduleRefinement`,
`StopsStayShown`), and `ConversionsAgree` (`ConversionsAlwaysAgree`), for every
duration of the ride, of stops and of crops, every time offset, whatever `MaxTime` is, from `TrajectoryAssumption`.
`WindowsAgree` is inductive as it stands: that the vehicle neither goes back nor
jumps (`Forward`) is what makes a bisection arrive exactly at the arc length asked
for (`TimeAtReaches`, `EndTimeAtReaches`), and that in turn gives every crop the
same piece in both windows (`Narrowed`). A stop is one abstract step at the place
`StopAtArrival` gives; a stop for a while is followed back to the time at which
the vehicle was where it is now (`Was`). There is one lemma per operation, each
about the windows, the user's view and the zero velocities at once; of the view it
says which operation of `Schedule` the step is, with the arguments of the call
(`CropTimeStep`: `UserView!CropTime(t, duration)`). Because the call is compared, too,
and differs from the one before, the refinement leaves no choice of the operation, of
its arguments, or of a stutter in its place.
`ConversionsAgree` says that there is a time of arrival at every arc length
(`Arrives`) and a time of departure (`Leaves`): the least time at which the vehicle
is that far, and the greatest; that it is not farther then is `Forward` again.

`StopLineProofs` proves `StopsAtEveryLine` (`NoLineIsMissed`) and the types of
`StopLine` (`StopLineTypesHold`), for all lines, laps, lengths of paths and lanes,
durations, missed cycles and restarts, from `StopLineAssumption`. The property is
about the vehicle, the invariant (`StopInv`) is about the chain to it: no path
leads past a line where the vehicle has not stood (`PathsStop`); every module was
launched for one place of its line which is still in reach, and is in START only
if the vehicle has stood before that place (`ModulesWatch`); while it is STOPPED,
either the path ends at the line and the stop is as old as the path, or the vehicle
may not move and stands as long as the stop lasts, less the cycles missed (`StoppedAt`);
standing long enough counts for every line within `hold_stop_margin_distance` (`StandingCounts`).
That the place of a module is the one on its present path, never that of the lap
before or after (`OneInReach`), is where the length of a lap is needed.

Model-checked only: liveness (`InitializationCompletes`, `ParkedIsNoticed`,
`ApiCatchesUp`, `ApiNeverHangs`, `ArrivalStops`, `ClearLeadsToSet`,
`InitializationEnds`, `MapFollows`, `GetsRound`), which with its fairness and
ENABLED is out of the prover's reach.

## 5. Findings

- `reroute_forbidden`: `set_waypoint_route` does not look at
  `allow_reroute_in_autonomous_mode`; the planner's README says that a reroute
  fails when it is false.
- `goal_dropped`: the adaptor sends its route because the state it was told is
  UNSET; the API's own state is ROUTING (published as UNSET) or already
  SET, and refuses; the adaptor ignores the response and does not try again.
  `LastGoalWins` is the property that holds when nothing is turned down.
- `stops_are_shown`: `set_stopline` and `insert_stop_duration` set the velocity to
  zero at the arc length of the window, while the velocities are looked up at that
  arc length plus the start of the window. After a crop that moved the start, the
  schedule stands where the velocity is not zero and the zero is elsewhere.

Three behaviours of the routing API are contained in `RoutingApi` and have no run
of their own. An ARRIVED that is overwritten by the UNSET of a clear the node is
itself waiting for never stops the autonomous mode, and neither does one that the
node takes while the operation mode service is not ready (`routing.cpp:145`);
`ArrivalStops` exempts both. A vehicle that starts autonomously while a clear is
under way loses its route, because mode and velocity are looked at only when the
clear is accepted.

The documents of the temporal trajectory disagree with its code in two places.
`Schedule` states what the code does.

- `src/common/autoware_trajectory/README.md:339` says of `set_time_offset`: "Shift
  the absolute time bases of a `TemporalTrajectory` by `offset`". The code replaces
  the offset of the last call (`time_distance_mapping.cpp:243`), so that two calls do
  not add up, and a time told is a time base less the offset (lines 218 and 223): a
  positive offset makes the times smaller. `examples/example_temporal_crop.cpp:125`
  uses it that way, to let a window start at 0.
- `include/autoware/trajectory/utils/crop.hpp:37` and `:48` say that `crop_time` and
  `crop_distance` throw `std::out_of_range` when the end of the window is outside of
  the trajectory; `crop.cpp:32` and `:50` clamp it to the end of the trajectory.

## 6. Plan

What is left, most important first.

1. Node restarts in the routing stack: the planner dies while it serves (the API
   waits for ever), the API restarts while the adaptor waits for its answer.
2. Proofs of what a restart in the routing stack leaves true, with item 1; that
   `RoutingApi` with `MissionPlanner` in the planner's place refines `RoutingApi`
   with `RouteService`, as one theorem.
3. The path generator on top of `RouteService`, for the route it follows after a
   clear.
4. A clock that jumps back in `DelayCompensation`.

## 7. Not modelled

- Numerical and geometric code, which is most of the repository: interpolation and
  the searches along trajectories, velocity smoothing, obstacle stop and the other
  motion velocity modules, the control law, filters and optimisation, registration
  and filtering of point clouds, clustering, lanelet geometry. A step of it is a
  function from real-valued inputs to real-valued outputs, and the state between
  two steps is the newest input or a sum; what could be wrong in it are the
  formulas, which a finite model would have to replace by others.
- Of the modelled components: path search and goal validation of the planner, the
  queries of the route handler, the filter of the EKF with its gates, the scan
  matching and its scores, covariances and means. They appear as choices
  between their outcomes where something discrete depends on them.
- Nodes that relay one message or answer one request without state: the
  localization AD API, the initial pose adaptor, map loaders, converters.
- Launch files, parameters, visualisation, diagnostics and logging.
