--------------------------- MODULE TemporalTrajectory ---------------------------
(***************************************************************************)
(* A temporal trajectory: a path with its velocities, cut to a window, and *)
(* the distance along it at each time, cut to another, with an offset of   *)
(* the time and one of the distance in between.                            *)
(*                                                                         *)
(* Times and distances are whole numbers; the vehicle needs a step of time *)
(* for a step of the path at least, so every place is reached at such a    *)
(* time and the interpolation between the bases does not matter.  A call   *)
(* that starts or stops out of range throws and changes nothing: it is     *)
(* left out.  A crop that would end out of range ends with the trajectory. *)
(***************************************************************************)
EXTENDS Integers

CONSTANTS Span,       \* duration of the trajectory that is built
          Durations,  \* arguments of crop_time and insert_stop_duration
          Offsets,    \* arguments of set_time_offset
          MaxTime     \* bound of the time bases

ASSUME TrajectoryAssumption ==
  /\ Span \in Nat /\ MaxTime \in Nat
  /\ Durations \subseteq Nat
  /\ Offsets \subseteq Int

VARIABLES first, last,           \* front and back of time_bases_
          distance,              \* distance_bases_, interpolated
          start_time, end_time,  \* start_time_ and end_time_ of the mapping
          time_offset,           \* time_offset_
          start, end,            \* start_ and end_ of the spatial trajectory
          distance_offset,       \* distance_offset_
          zeros,                 \* where longitudinal_velocity_mps_ is 0
          call                   \* the last call of the user

mapping == <<first, last, distance, start_time, end_time>>
members == <<mapping, time_offset, start, end, distance_offset, zeros>>
vars == <<members, call>>

(* What the user is told. *)
Length == end - start
StartTime == start_time - time_offset
EndTime == end_time - time_offset
TimeToDistance(t) == distance[t + time_offset] - distance_offset

Plan == [t \in StartTime..EndTime |-> TimeToDistance(t)]

UserView == INSTANCE Schedule WITH plan <- Plan, offset <- time_offset

Min2(a, b) == IF a < b THEN a ELSE b
Clamp(x, low, high) == IF x < low THEN low ELSE IF x > high THEN high ELSE x

Window == start_time..end_time
Covered(s) == s \in distance[start_time]..distance[end_time]

(* time_at_distance, when the vehicle comes there and when it leaves.      *)
IsTimeAt(s, t) ==
  /\ Covered(s) /\ distance[t] >= s
  /\ \A u \in Window : u < t => distance[u] < s

IsEndTimeAt(s, t) ==
  /\ Covered(s) /\ distance[t] <= s
  /\ \A u \in Window : u > t => distance[u] > s

(* Where it stands for a while. *)
StandsAt(ride, from, to) == {ride[t] : t \in {u \in from..(to - 1) : ride[u] = ride[u + 1]}}

Init ==
  /\ first = 0 /\ last = Span
  /\ distance \in UserView!Rides
  /\ start_time = 0 /\ end_time = Span /\ time_offset = 0
  /\ start = 0 /\ end = distance[Span] /\ distance_offset = 0
  /\ zeros = StandsAt(distance, 0, Span)
  /\ call = UserView!NoCall

-----------------------------------------------------------------------------
(* crop of the spatial trajectory *)
SpatialCrop(from, length) ==
  /\ start' = Clamp(start + from, start, end)
  /\ end' = Clamp(start' + length, start', end)

CropTime(t, duration) ==
  LET clamped == Min2(duration, EndTime - t)
      from == distance[t + time_offset]
      to == distance[t + clamped + time_offset]
  IN  /\ SpatialCrop(from - distance_offset, to - from)
      /\ start_time' = t + time_offset /\ end_time' = t + clamped + time_offset
      /\ distance_offset' = from
      /\ UNCHANGED <<first, last, distance, time_offset, zeros>>

(* Fault: the offset is that of the last crop only. *)
CropDistanceForgetsOffset(s, length) ==
  LET clamped == Min2(length, Length - s)
  IN  \E from, to \in Window :
        /\ IsTimeAt(s + distance_offset, from)
        /\ IsEndTimeAt(s + clamped + distance_offset, to)
        /\ SpatialCrop(s, clamped)
        /\ start_time' = from /\ end_time' = to
        /\ distance_offset' = s
        /\ UNCHANGED <<first, last, distance, time_offset, zeros>>

CropDistance(s, length) ==
  LET clamped == Min2(length, Length - s)
  IN  \E from, to \in Window :
        /\ IsTimeAt(s + distance_offset, from)
        /\ IsEndTimeAt(s + clamped + distance_offset, to)
        /\ SpatialCrop(s, clamped)
        /\ start_time' = from /\ end_time' = to
        /\ distance_offset' = s + distance_offset
        /\ UNCHANGED <<first, last, distance, time_offset, zeros>>

(* Fault: the arc length is taken for a distance of the uncropped path. *)
SetDistanceRangeCropped(from, to, value) ==
  distance' = [t \in first..last |->
                 IF t \in from..to THEN value - distance_offset ELSE distance[t]]

(* set_distance_range *)
SetDistanceRange(from, to, value) ==
  distance' = [t \in first..last |-> IF t \in from..to THEN value ELSE distance[t]]

(* Fault: the velocity is set before the path is cut. *)
StopBaseUncropped(s) == end - start

(* The base of the velocities that a stop sets to zero: the arc length of  *)
(* the window, although the velocities are those of the uncropped path.    *)
StopBase(s) == s

SetStopline(s) ==
  \E stop \in Window :
    /\ IsTimeAt(s + distance_offset, stop)
    /\ SpatialCrop(0, s)
    /\ zeros' = zeros \cup {StopBase(s)}
    /\ SetDistanceRange(stop, end_time, s + distance_offset)
    /\ UNCHANGED <<first, last, start_time, end_time, time_offset, distance_offset>>

(* Fault: the window ends when it did. *)
ExtendTimeAtInWindow(pivot, delta) ==
  /\ last' = last + delta
  /\ distance' = [t \in first..(last + delta) |->
                    IF t <= pivot THEN distance[t]
                    ELSE IF t <= pivot + delta THEN distance[pivot]
                    ELSE distance[t - delta]]
  /\ UNCHANGED <<first, start_time, end_time>>

(* extend_time_at: the bases after the pivot move. *)
ExtendTimeAt(pivot, delta) ==
  /\ last' = last + delta /\ end_time' = end_time + delta
  /\ distance' = [t \in first..(last + delta) |->
                    IF t <= pivot THEN distance[t]
                    ELSE IF t <= pivot + delta THEN distance[pivot]
                    ELSE distance[t - delta]]
  /\ UNCHANGED <<first, start_time>>

InsertStopDuration(s, duration) ==
  /\ last + duration <= MaxTime
  /\ \E stop \in Window :
       /\ IsTimeAt(s + distance_offset, stop)
       /\ zeros' = zeros \cup {StopBase(s)}
       /\ ExtendTimeAt(stop, duration)
  /\ UNCHANGED <<time_offset, start, end, distance_offset>>

SetTimeOffset(offset) ==
  /\ time_offset' = offset
  /\ UNCHANGED <<mapping, start, end, distance_offset, zeros>>

(* add_offset, and any other use of restore and build: the points of the   *)
(* window become a trajectory of their own.                                *)
AddOffset ==
  /\ StartTime >= -MaxTime /\ EndTime <= MaxTime
  /\ first' = StartTime /\ last' = EndTime
  /\ distance' = Plan
  /\ start_time' = StartTime /\ end_time' = EndTime /\ time_offset' = 0
  /\ start' = 0 /\ end' = Length /\ distance_offset' = 0
  /\ zeros' = {s - start : s \in zeros \cap start..end}

(* The user calls one operation after the other; call keeps the last one.  *)
Next ==
  \/ \E t \in StartTime..EndTime, duration \in Durations :
       CropTime(t, duration) /\ UserView!Call("crop_time", t, duration)
  \/ \E s \in 0..Length, length \in 0..Span :
       CropDistance(s, length) /\ UserView!Call("crop_distance", s, length)
  \/ \E s \in 0..Length :
       SetStopline(s) /\ UserView!Call("set_stopline", s, 0)
  \/ \E s \in 0..Length, duration \in Durations :
       InsertStopDuration(s, duration) /\ UserView!Call("insert_stop_duration", s, duration)
  \/ \E offset \in Offsets :
       SetTimeOffset(offset) /\ UserView!Call("set_time_offset", offset, 0)
  \/ AddOffset /\ UserView!Call("add_offset", 0, 0)

Spec == Init /\ [][Next]_vars
-----------------------------------------------------------------------------
(* The class invariant: the two windows, kept by different members, are    *)
(* the same piece of the ride after any sequence of calls, and in it the   *)
(* vehicle does not go back or jump.                                       *)
WindowsAgree ==
  /\ first \in Int /\ last \in Int /\ start_time \in first..last
  /\ end_time \in start_time..last
  /\ time_offset \in Offsets \cup {0} /\ start \in Int /\ end \in Int
  /\ distance \in [first..last -> Int]
  /\ zeros \subseteq Int
  /\ start = distance_offset
  /\ distance[start_time] = start /\ distance[end_time] = end
  /\ \A t, u \in Window : t <= u => distance[u] - distance[t] \in 0..(u - t)

(* distance_to_time throws for no arc length of the trajectory, and both   *)
(* of its answers lead back to that arc length.                            *)
ConversionsAgree ==
  \A s \in 0..Length :
    \E arrival, departure \in Window :
      /\ IsTimeAt(s + distance_offset, arrival)
      /\ IsEndTimeAt(s + distance_offset, departure)
      /\ \A t \in Window : (t \in arrival..departure <=> TimeToDistance(t - time_offset) = s)

(* Whatever windows and offsets the trajectory has got: every call does to *)
(* the times and places of its user what the schedule says of a call of    *)
(* that name with those arguments.  A crop leaves the window asked for, as *)
(* far as the trajectory goes, a stop stops and holds at the place asked   *)
(* for, set_time_offset takes back the offset before and subtracts the new *)
(* one, and add_offset changes nothing that is told.                       *)
ImplementsSchedule == UserView!Spec

(* "setting the velocity profile to zero around the stop point": where the *)
(* vehicle stands for a while its velocity is zero.                        *)
StopsAreShown == StandsAt(distance, start_time, end_time) \subseteq zeros

(* That much is true of a trajectory that still starts where it was built. *)
UncroppedKeepsStopsShown == [][start = 0 /\ StopsAreShown => StopsAreShown']_vars
=============================================================================
