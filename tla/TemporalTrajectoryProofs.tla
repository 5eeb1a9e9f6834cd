------------------------ MODULE TemporalTrajectoryProofs ------------------------
(***************************************************************************)
(* Theorems about TemporalTrajectory, for every ride, however long, and    *)
(* every sequence of operations with any durations and offsets.            *)
(***************************************************************************)
EXTENDS TemporalTrajectory, WellFoundedInduction, TLAPS

(* What a step does to the stops that are shown. *)
ShownStep == start = 0 /\ StopsAreShown => StopsAreShown'
-----------------------------------------------------------------------------
LEMMA WindowTypes ==
  ASSUME WindowsAgree
  PROVE  /\ first \in Int /\ last \in Int /\ start_time \in Int /\ end_time \in Int
         /\ time_offset \in Int /\ start \in Int /\ end \in Int
         /\ first <= start_time /\ start_time <= end_time /\ end_time <= last
<1>1. /\ first \in Int /\ last \in Int /\ start_time \in first..last
      /\ end_time \in start_time..last
      /\ time_offset \in Offsets \cup {0} /\ start \in Int /\ end \in Int
  BY DEF WindowsAgree
<1>2. time_offset \in Int
  BY <1>1, TrajectoryAssumption
<1> QED BY <1>1, <1>2

(* The view at a time of the window. *)
LEMMA PlanAt ==
  ASSUME WindowsAgree
  PROVE  /\ DOMAIN Plan = StartTime..EndTime
         /\ \A t \in StartTime..EndTime :
              Plan[t] = distance[t + time_offset] - start /\ t + time_offset \in Window
<1>1. /\ start_time \in Int /\ end_time \in Int /\ time_offset \in Int
      /\ distance_offset = start
  BY WindowTypes DEF WindowsAgree
<1> QED BY <1>1 DEF Plan, StartTime, EndTime, TimeToDistance, Window

(* The vehicle neither goes back nor jumps. *)
LEMMA Forward ==
  ASSUME WindowsAgree, NEW t \in Window, NEW u \in Window, t <= u
  PROVE  distance[u] - distance[t] \in 0..(u - t)
BY DEF WindowsAgree

LEMMA DistanceAt ==
  ASSUME WindowsAgree
  PROVE  \A a \in Window : distance[a] \in Int /\ distance[a] \in start..end
<1> SUFFICES ASSUME NEW a \in Window
             PROVE  distance[a] \in Int /\ distance[a] \in start..end
  OBVIOUS
<1>1. /\ start_time \in Window /\ end_time \in Window /\ start_time <= a /\ a <= end_time
      /\ a \in first..last
  BY DEF WindowsAgree, Window
<1>2. distance[a] \in Int
  BY <1>1 DEF WindowsAgree
<1>3. /\ distance[a] - distance[start_time] \in 0..(a - start_time)
      /\ distance[end_time] - distance[a] \in 0..(end_time - a)
  BY <1>1 DEF WindowsAgree
<1>4. a - start_time \in Int /\ end_time - a \in Int
  BY <1>1 DEF WindowsAgree
<1> QED BY <1>2, <1>3, <1>4 DEF WindowsAgree

(* Clamping does nothing to a crop within the window. *)
LEMMA CropWithin ==
  ASSUME start \in Int, end \in Int, NEW from \in Nat, NEW length \in Nat,
         from + length <= end - start, SpatialCrop(from, length)
  PROVE  start' = start + from /\ end' = start + from + length
BY DEF SpatialCrop, Clamp

LEMMA Initially == Init => WindowsAgree /\ UserView!Init
<1> SUFFICES ASSUME Init PROVE WindowsAgree /\ UserView!Init
  OBVIOUS
<1>1. /\ Span \in Nat /\ distance \in [0..Span -> 0..Span] /\ distance[0] = 0
      /\ \A t, u \in 0..Span : t <= u => distance[u] - distance[t] \in 0..(u - t)
  BY TrajectoryAssumption DEF Init, UserView!Rides
<1>2. zeros \subseteq Int
  BY <1>1 DEF Init, StandsAt
<1>3. distance[Span] \in 0..Span /\ distance \in [0..Span -> Int]
  BY <1>1
<1>4. WindowsAgree
  <2>1. /\ first = 0 /\ last = Span /\ start_time = 0 /\ end_time = Span
        /\ time_offset = 0 /\ start = 0 /\ end = distance[Span] /\ distance_offset = 0
        /\ Window = 0..Span
    BY DEF Init, Window
  <2>2. /\ 0 \in 0..Span /\ Span \in 0..Span /\ end \in Int
    BY <1>1, <1>3, <2>1
  <2> QED BY <1>1, <1>2, <1>3, <2>1, <2>2 DEF WindowsAgree
<1>5. Plan = [t \in 0..Span |-> distance[t]]
  BY <1>1 DEF Plan, Init, StartTime, EndTime, TimeToDistance
<1>6. Plan = distance
  BY <1>1, <1>5
<1> QED BY <1>4, <1>6 DEF Init, UserView!Init

(* A crop leaves a part of the window. *)
LEMMA Narrowed ==
  ASSUME WindowsAgree, NEW a \in Window, NEW b \in Window, a <= b,
         UNCHANGED <<first, last, distance, time_offset, zeros>>,
         start_time' = a, end_time' = b,
         start' = distance[a], end' = distance[b], distance_offset' = distance[a]
  PROVE  /\ WindowsAgree'
         /\ Plan' = [t \in (a - time_offset)..(b - time_offset) |->
                       Plan[t] - Plan[a - time_offset]]
         /\ ShownStep
<1>0. /\ a \in Int /\ b \in Int /\ a \in first..last /\ b \in a..last
      /\ start_time <= a /\ b <= end_time /\ start_time \in Int /\ end_time \in Int
      /\ time_offset \in Int
  BY WindowTypes DEF Window
<1>1. WindowsAgree'
  <2>1. Window' = a..b /\ a..b \subseteq Window
    BY <1>0 DEF Window
  <2>2. distance[a] \in Int /\ distance[b] \in Int
    BY DistanceAt
  <2>3. \A t, u \in a..b : t <= u => distance[u] - distance[t] \in 0..(u - t)
    BY <2>1 DEF WindowsAgree
  <2> QED BY <1>0, <2>1, <2>2, <2>3 DEF WindowsAgree
<1>2. Plan' = [t \in (a - time_offset)..(b - time_offset) |->
                 distance[t + time_offset] - distance[a]]
  BY DEF WindowsAgree, Plan, StartTime, EndTime, TimeToDistance
<1>3. ASSUME NEW t \in (a - time_offset)..(b - time_offset)
      PROVE  Plan[t] - Plan[a - time_offset] = distance[t + time_offset] - distance[a]
  <2>1. /\ t \in StartTime..EndTime /\ a - time_offset \in StartTime..EndTime
        /\ (a - time_offset) + time_offset = a
    BY <1>0 DEF StartTime, EndTime
  <2>2. /\ Plan[t] = distance[t + time_offset] - start /\ t + time_offset \in Window
        /\ Plan[a - time_offset] = distance[a] - start
    BY <2>1, PlanAt
  <2>3. distance[t + time_offset] \in Int /\ distance[a] \in Int /\ start \in Int
    BY <2>2, DistanceAt DEF WindowsAgree
  <2> QED BY <2>2, <2>3
<1>4. StandsAt(distance', start_time', end_time')
        \subseteq StandsAt(distance, start_time, end_time)
  BY DEF StandsAt, Window, WindowsAgree
<1> QED BY <1>1, <1>2, <1>3, <1>4 DEF ShownStep, StopsAreShown

(* distance_to_time finds the arc length it is asked for. *)
LEMMA TimeAtReaches ==
  ASSUME WindowsAgree, NEW s \in Int, NEW t \in Window, IsTimeAt(s, t)
  PROVE  distance[t] = s
<1>1. t \in Int /\ start_time <= t /\ t <= end_time
  BY WindowTypes DEF Window
<1>2. distance[t] \in Int /\ distance[t] >= s
  BY DistanceAt DEF IsTimeAt
<1>3. CASE t = start_time
  <2>1. distance[start_time] = start /\ start \in Int /\ end \in Int /\ distance[end_time] = end
    BY DEF WindowsAgree
  <2>2. s >= start
    BY <2>1 DEF IsTimeAt, Covered
  <2> QED BY <1>2, <1>3, <2>1, <2>2
<1>4. CASE t # start_time
  <2>1. t - 1 \in Window /\ t - 1 < t /\ t - (t - 1) = 1
    BY <1>1, <1>4, WindowTypes DEF Window
  <2>2. distance[t - 1] < s /\ distance[t - 1] \in Int
    BY <2>1, DistanceAt DEF IsTimeAt
  <2>3. distance[t] - distance[t - 1] \in 0..1
    <3>1. t - 1 \in Window /\ t \in Window /\ t - 1 <= t
      BY <1>1, <2>1
    <3>2. distance[t] - distance[t - 1] \in 0..(t - (t - 1))
      BY <3>1, Forward
    <3> QED BY <2>1, <3>2
  <2> QED BY <1>2, <2>2, <2>3
<1> QED BY <1>3, <1>4

LEMMA EndTimeAtReaches ==
  ASSUME WindowsAgree, NEW s \in Int, NEW t \in Window, IsEndTimeAt(s, t)
  PROVE  distance[t] = s
<1>1. t \in Int /\ start_time <= t /\ t <= end_time
  BY WindowTypes DEF Window
<1>2. distance[t] \in Int /\ distance[t] <= s
  BY DistanceAt DEF IsEndTimeAt
<1>3. CASE t = end_time
  <2>1. distance[start_time] = start /\ start \in Int /\ end \in Int /\ distance[end_time] = end
    BY DEF WindowsAgree
  <2>2. s <= end
    BY <2>1 DEF IsEndTimeAt, Covered
  <2> QED BY <1>2, <1>3, <2>1, <2>2
<1>4. CASE t # end_time
  <2>1. t + 1 \in Window /\ t + 1 > t /\ (t + 1) - t = 1
    BY <1>1, <1>4, WindowTypes DEF Window
  <2>2. distance[t + 1] > s /\ distance[t + 1] \in Int
    BY <2>1, DistanceAt DEF IsEndTimeAt
  <2>3. distance[t + 1] - distance[t] \in 0..1
    <3>1. t \in Window /\ t + 1 \in Window /\ t <= t + 1
      BY <1>1, <2>1
    <3>2. distance[t + 1] - distance[t] \in 0..((t + 1) - t)
      BY <3>1, Forward
    <3> QED BY <2>1, <3>2
  <2> QED BY <1>2, <2>2, <2>3
<1> QED BY <1>3, <1>4
-----------------------------------------------------------------------------
LEMMA CropTimeStep ==
  ASSUME WindowsAgree, NEW t \in StartTime..EndTime, NEW duration \in Durations,
         CropTime(t, duration), UserView!Call("crop_time", t, duration)
  PROVE  WindowsAgree' /\ UserView!CropTime(t, duration) /\ UserView!Next /\ ShownStep
<1> DEFINE clamped == Min2(duration, EndTime - t)
           a == t + time_offset
           b == t + clamped + time_offset
<1>1. /\ clamped \in Nat /\ t + clamped \in StartTime..EndTime /\ t \in Int
      /\ a \in Window /\ b \in Window /\ a <= b /\ time_offset \in Int
      /\ a - time_offset = t /\ b - time_offset = t + clamped /\ t <= t + clamped
  BY WindowTypes, TrajectoryAssumption DEF StartTime, EndTime, Window, Min2
<1>2. /\ distance[a] \in start..end /\ distance[b] \in start..end
      /\ start \in Int /\ end \in Int /\ distance_offset = start
  BY <1>1, DistanceAt DEF WindowsAgree
<1>3. distance[b] - distance[a] \in 0..(b - a) /\ b - a \in Int
  <2>1. b - a \in Int
    BY <1>1
  <2> HIDE DEF a, b
  <2> QED BY <1>1, <2>1, Forward
<1>4. SpatialCrop(distance[a] - start, distance[b] - distance[a])
  BY <1>2 DEF CropTime
<1>5. /\ distance[a] - start \in Nat /\ distance[b] - distance[a] \in Nat
      /\ (distance[a] - start) + (distance[b] - distance[a]) <= end - start
      /\ start + (distance[a] - start) = distance[a]
      /\ start + (distance[a] - start) + (distance[b] - distance[a]) = distance[b]
  BY <1>2, <1>3
<1> HIDE DEF clamped, a, b
<1>6. start' = distance[a] /\ end' = distance[b]
  BY <1>2, <1>4, <1>5, CropWithin
<1>7. /\ UNCHANGED <<first, last, distance, time_offset, zeros>>
      /\ start_time' = a /\ end_time' = b /\ distance_offset' = distance[a]
  BY DEF CropTime, a, b, clamped
<1>8. /\ WindowsAgree' /\ ShownStep
      /\ Plan' = [u \in t..(t + clamped) |-> Plan[u] - Plan[t]]
  BY <1>1, <1>6, <1>7, Narrowed
<1>9. t \in UserView!Times /\ UserView!Times = StartTime..EndTime
  BY PlanAt DEF UserView!Times
<1>10. {v \in UserView!Times : t <= v /\ v <= t + duration} = t..(t + clamped)
  BY <1>1, <1>9, WindowTypes, TrajectoryAssumption DEF clamped, Min2, StartTime, EndTime
<1>11. UserView!CropTime(t, duration)
  BY <1>7, <1>8, <1>10 DEF UserView!CropTime
<1> QED BY <1>8, <1>9, <1>11 DEF UserView!Next

LEMMA CropDistanceStep ==
  ASSUME WindowsAgree, NEW s \in 0..Length, NEW length \in 0..Span,
         CropDistance(s, length), UserView!Call("crop_distance", s, length)
  PROVE  WindowsAgree' /\ UserView!CropDistance(s, length) /\ UserView!Next /\ ShownStep
<1> DEFINE clamped == Min2(length, Length - s)
<1>1. /\ start \in Int /\ end \in Int /\ distance_offset = start /\ time_offset \in Int
      /\ start <= end
  <2>1. start \in Int /\ end \in Int /\ distance_offset = start /\ time_offset \in Int
    BY WindowTypes DEF WindowsAgree
  <2>2. start_time \in Window /\ distance[start_time] = start
    BY WindowTypes DEF Window, WindowsAgree
  <2> QED BY <2>1, <2>2, DistanceAt
<1>2. /\ s \in Nat /\ clamped \in Nat /\ s + clamped <= end - start
      /\ s + start \in Int /\ s + clamped + start \in Int
  BY <1>1, TrajectoryAssumption DEF Length, Min2
<1>3. PICK from \in Window, to \in Window :
        /\ IsTimeAt(s + start, from) /\ IsEndTimeAt(s + clamped + start, to)
        /\ SpatialCrop(s, clamped)
        /\ start_time' = from /\ end_time' = to /\ distance_offset' = s + start
        /\ UNCHANGED <<first, last, distance, time_offset, zeros>>
  BY <1>1 DEF CropDistance
<1> HIDE DEF clamped
<1>4. distance[from] = s + start /\ distance[to] = s + clamped + start
  BY <1>2, <1>3, TimeAtReaches, EndTimeAtReaches
<1>5. from \in Int /\ to \in Int
  BY WindowTypes DEF Window
<1>6. from <= to
  <2>1. to < from => distance[to] < s + start
    BY <1>3 DEF IsTimeAt
  <2>2. s + start <= s + clamped + start
    BY <1>1, <1>2
  <2>3. ~(distance[to] < s + start)
    BY <1>2, <1>4, <2>2
  <2> QED BY <1>5, <2>1, <2>3
<1>7. start' = distance[from] /\ end' = distance[to]
  BY <1>1, <1>2, <1>3, <1>4, CropWithin
<1>8. /\ WindowsAgree' /\ ShownStep
      /\ Plan' = [t \in (from - time_offset)..(to - time_offset) |->
                    Plan[t] - Plan[from - time_offset]]
  BY <1>3, <1>4, <1>6, <1>7, Narrowed
<1>9. /\ from - time_offset \in UserView!Times /\ Plan[from - time_offset] = s
      /\ to - time_offset \in UserView!Times /\ Plan[to - time_offset] = s + clamped
  <2>1. /\ from - time_offset \in StartTime..EndTime
        /\ to - time_offset \in StartTime..EndTime
        /\ (from - time_offset) + time_offset = from
        /\ (to - time_offset) + time_offset = to
    BY <1>5, WindowTypes DEF Window, StartTime, EndTime
  <2>2. /\ Plan[from - time_offset] = distance[from] - start
        /\ Plan[to - time_offset] = distance[to] - start
    BY <2>1, PlanAt
  <2> QED BY <1>1, <1>2, <1>4, <2>1, <2>2, PlanAt DEF UserView!Times
<1>10. {u \in UserView!Times : Plan[u] \in s..(s + clamped)}
         = (from - time_offset)..(to - time_offset)
  <2>0. ASSUME NEW v \in Window
        PROVE  from <= v /\ v <= to =>
                 distance[from] <= distance[v] /\ distance[v] <= distance[to]
    <3>1. distance[from] \in Int /\ distance[to] \in Int /\ distance[v] \in Int
      BY DistanceAt
    <3>2. from <= v => distance[v] - distance[from] \in 0..(v - from)
      BY Forward
    <3>3. v <= to => distance[to] - distance[v] \in 0..(to - v)
      BY Forward
    <3> QED BY <3>1, <3>2, <3>3
  <2>1. ASSUME NEW u \in StartTime..EndTime
        PROVE  Plan[u] \in s..(s + clamped)
                 <=> u \in (from - time_offset)..(to - time_offset)
    <3>1. /\ u + time_offset \in Window /\ Plan[u] = distance[u + time_offset] - start
          /\ u \in Int /\ distance[u + time_offset] \in Int
      BY PlanAt, DistanceAt, WindowTypes DEF StartTime, EndTime
    <3>2. u + time_offset < from => distance[u + time_offset] < s + start
      BY <1>3, <3>1 DEF IsTimeAt
    <3>3. u + time_offset > to => distance[u + time_offset] > s + clamped + start
      BY <1>3, <3>1 DEF IsEndTimeAt
    <3>4. from <= u + time_offset /\ u + time_offset <= to =>
            /\ distance[from] <= distance[u + time_offset]
            /\ distance[u + time_offset] <= distance[to]
      BY <2>0, <3>1
    <3> QED BY <1>1, <1>2, <1>4, <1>5, <3>1, <3>2, <3>3, <3>4
  <2>2. (from - time_offset)..(to - time_offset) \subseteq StartTime..EndTime
    BY <1>5, WindowTypes DEF Window, StartTime, EndTime
  <2> QED BY <2>1, <2>2, PlanAt DEF UserView!Times
(* The places beyond the end are none. *)
<1>11. {u \in UserView!Times : Plan[u] \in s..(s + clamped)}
         = {u \in UserView!Times : Plan[u] \in s..(s + length)}
  <2>1. ASSUME NEW u \in StartTime..EndTime
        PROVE  Plan[u] \in s..(s + clamped) <=> Plan[u] \in s..(s + length)
    <3>1. /\ Plan[u] = distance[u + time_offset] - start
          /\ distance[u + time_offset] \in start..end
          /\ distance[u + time_offset] \in Int
      BY PlanAt, DistanceAt
    <3>2. Plan[u] \in Int /\ Plan[u] <= end - start
      BY <1>1, <3>1
    <3> QED BY <1>1, <1>2, <3>2, TrajectoryAssumption DEF clamped, Min2, Length
  <2> QED BY <2>1, PlanAt DEF UserView!Times
<1>12. UserView!CropDistance(s, length)
  BY <1>3, <1>8, <1>9, <1>10, <1>11 DEF UserView!CropDistance
<1>13. s \in UserView!Places
  BY <1>9 DEF UserView!Places
<1> QED BY <1>8, <1>12, <1>13 DEF UserView!Next

(* What a stop does: the vehicle is there when it comes there first. *)
LEMMA StopAtArrival ==
  ASSUME WindowsAgree, NEW s \in 0..Length, NEW stop \in Window,
         IsTimeAt(s + distance_offset, stop)
  PROVE  /\ start \in Int /\ end \in Int /\ distance_offset = start /\ time_offset \in Int
         /\ s \in Int /\ 0 <= s /\ s <= end - start /\ s + start \in Int
         /\ stop \in Int /\ start_time <= stop /\ stop <= end_time
         /\ distance[stop] = s + start
         /\ \A t \in Window : t < stop => distance[t] < s + start
         /\ \A t \in Window : stop <= t => s + start <= distance[t]
         /\ stop - time_offset \in UserView!Times /\ Plan[stop - time_offset] = s
<1>1. /\ start \in Int /\ end \in Int /\ distance_offset = start /\ time_offset \in Int
      /\ stop \in Int /\ start_time <= stop /\ stop <= end_time
      /\ start_time \in Int /\ end_time \in Int
  BY WindowTypes DEF Window, WindowsAgree
<1>2. s \in Int /\ 0 <= s /\ s <= end - start /\ s + start \in Int
  BY <1>1 DEF Length
<1>3. distance[stop] = s + start
  BY <1>1, <1>2, TimeAtReaches
<1>4. \A t \in Window : t < stop => distance[t] < s + start
  BY <1>1 DEF IsTimeAt
<1>5. ASSUME NEW t \in Window, stop <= t
      PROVE  s + start <= distance[t]
  <2>1. distance[t] - distance[stop] \in 0..(t - stop) /\ distance[t] \in Int
    BY <1>5, Forward, DistanceAt
  <2> QED BY <1>2, <1>3, <2>1
<1>6. /\ stop - time_offset \in StartTime..EndTime
      /\ (stop - time_offset) + time_offset = stop
  BY <1>1 DEF StartTime, EndTime
<1>7. Plan[stop - time_offset] = s
  BY <1>1, <1>2, <1>3, <1>6, PlanAt
<1> QED BY <1>1, <1>2, <1>3, <1>4, <1>5, <1>6, <1>7, PlanAt DEF UserView!Times

LEMMA SetStoplineStep ==
  ASSUME WindowsAgree, NEW s \in 0..Length,
         SetStopline(s), UserView!Call("set_stopline", s, 0)
  PROVE  WindowsAgree' /\ UserView!StopAt(s) /\ UserView!Next /\ ShownStep
<1>1. PICK stop \in Window :
        /\ IsTimeAt(s + distance_offset, stop)
        /\ SpatialCrop(0, s)
        /\ zeros' = zeros \cup {s}
        /\ SetDistanceRange(stop, end_time, s + distance_offset)
        /\ UNCHANGED <<first, last, start_time, end_time, time_offset, distance_offset>>
  BY DEF SetStopline, StopBase
<1>2. /\ start \in Int /\ end \in Int /\ distance_offset = start /\ time_offset \in Int
      /\ s \in Int /\ 0 <= s /\ s <= end - start /\ s + start \in Int
      /\ stop \in Int /\ start_time <= stop /\ stop <= end_time
      /\ distance[stop] = s + start
      /\ \A t \in Window : t < stop => distance[t] < s + start
      /\ \A t \in Window : stop <= t => s + start <= distance[t]
      /\ stop - time_offset \in UserView!Times /\ Plan[stop - time_offset] = s
  BY <1>1, StopAtArrival
<1>3. start' = start /\ end' = s + start
  <2>1. 0 \in Nat /\ s \in Nat /\ 0 + s <= end - start
    BY <1>2
  <2>2. start' = start + 0 /\ end' = start + 0 + s
    BY <1>1, <1>2, <2>1, CropWithin
  <2> QED BY <1>2, <2>2
<1>4. /\ first \in Int /\ last \in Int /\ start_time \in Int /\ end_time \in Int
      /\ first <= start_time /\ start_time <= end_time /\ end_time <= last
      /\ Window' = Window /\ Window = start_time..end_time
  BY <1>1, WindowTypes DEF Window
<1>5. distance' = [t \in first..last |->
                     IF t \in stop..end_time THEN s + start ELSE distance[t]]
  BY <1>1, <1>2 DEF SetDistanceRange
<1>6. ASSUME NEW t \in Window
      PROVE  /\ distance'[t] = IF t < stop THEN distance[t] ELSE s + start
             /\ t \in Int /\ distance[t] \in Int
  <2>1. t \in Int /\ t \in first..last /\ (t \in stop..end_time <=> ~(t < stop))
    BY <1>2, <1>4
  <2> QED BY <1>5, <2>1, DistanceAt
<1>7. WindowsAgree'
  <2>1. distance' \in [first..last -> Int] /\ zeros' \subseteq Int
    BY <1>1, <1>2, <1>5 DEF WindowsAgree
  <2>2. distance'[start_time] = start /\ distance'[end_time] = s + start
    <3>1. start_time \in Window /\ end_time \in Window /\ distance[start_time] = start
      BY <1>4 DEF WindowsAgree
    <3>2. ~(start_time < stop) => start_time = stop
      BY <1>2, <1>4
    <3>3. ~(end_time < stop)
      BY <1>2, <1>4
    <3> QED BY <1>2, <1>6, <3>1, <3>2, <3>3
  <2>3. ASSUME NEW t \in Window, NEW u \in Window, t <= u
        PROVE  distance'[u] - distance'[t] \in 0..(u - t)
    <3>1. t \in Int /\ u \in Int /\ distance[t] \in Int
      BY <1>6
    <3>2. CASE u < stop
      <4>1. t < stop
        BY <1>2, <2>3, <3>1, <3>2
      <4>2. distance'[u] = distance[u] /\ distance'[t] = distance[t]
        BY <1>6, <3>2, <4>1
      <4> QED BY <2>3, <4>2, Forward
    <3>3. CASE ~(u < stop) /\ t < stop
      <4>1. distance'[u] = s + start /\ distance'[t] = distance[t]
        BY <1>6, <3>3
      <4>2. distance[stop] - distance[t] \in 0..(stop - t)
        BY <1>2, <3>1, <3>3, Forward
      <4>3. stop - t <= u - t
        BY <1>2, <3>1, <3>3
      <4> QED BY <1>2, <3>1, <4>1, <4>2, <4>3
    <3>4. CASE ~(t < stop)
      <4>1. ~(u < stop) /\ 0 <= u - t
        BY <1>2, <2>3, <3>1, <3>4
      <4>2. distance'[u] = s + start /\ distance'[t] = s + start
        BY <1>6, <3>4, <4>1
      <4> QED BY <1>2, <3>1, <4>1, <4>2
    <3> QED BY <3>2, <3>3, <3>4
  <2>4. /\ start_time \in first..last /\ end_time \in start_time..last
        /\ time_offset \in Offsets \cup {0}
    BY DEF WindowsAgree
  <2> QED BY <1>1, <1>2, <1>3, <1>4, <2>1, <2>2, <2>3, <2>4 DEF WindowsAgree
<1>8. Plan' = [t \in StartTime..EndTime |-> IF Plan[t] < s THEN Plan[t] ELSE s]
  <2>1. Plan' = [t \in StartTime..EndTime |-> distance'[t + time_offset] - start]
    BY <1>1, <1>2 DEF Plan, StartTime, EndTime, TimeToDistance
  <2>2. ASSUME NEW t \in StartTime..EndTime
        PROVE  distance'[t + time_offset] - start
                 = IF Plan[t] < s THEN Plan[t] ELSE s
    <3> DEFINE u == t + time_offset
    <3>1. u \in Window /\ Plan[t] = distance[u] - start
      BY PlanAt
    <3> HIDE DEF u
    <3>2. /\ distance'[u] = IF u < stop THEN distance[u] ELSE s + start
          /\ u \in Int /\ distance[u] \in Int
      BY <1>6, <3>1
    <3>3. /\ u < stop => distance[u] < s + start
          /\ ~(u < stop) => s + start <= distance[u]
      BY <1>2, <3>1, <3>2
    <3>4. distance'[u] - start = IF Plan[t] < s THEN Plan[t] ELSE s
      BY <1>2, <3>1, <3>2, <3>3
    <3> QED BY <3>4 DEF u
  <2> QED BY <2>1, <2>2
<1>9. UserView!StopAt(s) /\ UserView!Next
  <2>1. UserView!StopAt(s)
    BY <1>1, <1>8, PlanAt DEF UserView!StopAt, UserView!Times
  <2>2. s \in UserView!Places
    BY <1>2 DEF UserView!Places
  <2> QED BY <2>1, <2>2 DEF UserView!Next
<1>10. ShownStep
  <2> SUFFICES ASSUME start = 0, StopsAreShown,
                      NEW t \in start_time..(end_time - 1), distance'[t] = distance'[t + 1]
               PROVE  distance'[t] \in zeros'
    BY <1>1 DEF ShownStep, StopsAreShown, StandsAt
  <2>1. t \in Window /\ t + 1 \in Window /\ t \in Int
    BY <1>4
  <2>2. CASE t + 1 < stop
    <3>1. t < stop
      BY <1>2, <2>1, <2>2
    <3>2. distance'[t] = distance[t] /\ distance[t] = distance[t + 1]
      BY <1>6, <2>1, <2>2, <3>1
    <3>3. distance[t] \in zeros
      BY <3>2 DEF StopsAreShown, StandsAt
    <3> QED BY <1>1, <3>2, <3>3
  <2>3. CASE ~(t + 1 < stop)
    <3>1. distance'[t + 1] = s + start
      BY <1>6, <2>1, <2>3
    <3> QED BY <1>1, <1>2, <3>1
  <2> QED BY <2>2, <2>3
<1> QED BY <1>7, <1>9, <1>10

LEMMA InsertStopDurationStep ==
  ASSUME WindowsAgree, NEW s \in 0..Length, NEW duration \in Durations,
         InsertStopDuration(s, duration), UserView!Call("insert_stop_duration", s, duration)
  PROVE  WindowsAgree' /\ UserView!Hold(s, duration) /\ UserView!Next /\ ShownStep
<1>1. PICK stop \in Window :
        /\ IsTimeAt(s + distance_offset, stop)
        /\ zeros' = zeros \cup {s}
        /\ ExtendTimeAt(stop, duration)
  BY DEF InsertStopDuration, StopBase
<1>2. /\ start \in Int /\ end \in Int /\ distance_offset = start /\ time_offset \in Int
      /\ s \in Int /\ 0 <= s /\ s <= end - start /\ s + start \in Int
      /\ stop \in Int /\ start_time <= stop /\ stop <= end_time
      /\ distance[stop] = s + start
      /\ \A t \in Window : t < stop => distance[t] < s + start
      /\ \A t \in Window : stop <= t => s + start <= distance[t]
      /\ stop - time_offset \in UserView!Times /\ Plan[stop - time_offset] = s
  BY <1>1, StopAtArrival
<1>3. /\ first \in Int /\ last \in Int /\ start_time \in Int /\ end_time \in Int
      /\ first <= start_time /\ start_time <= end_time /\ end_time <= last
      /\ Window = start_time..end_time /\ duration \in Int /\ 0 <= duration
  BY WindowTypes, TrajectoryAssumption DEF Window
<1>4. /\ UNCHANGED <<first, start_time, time_offset, start, end, distance_offset>>
      /\ last' = last + duration /\ end_time' = end_time + duration
  BY <1>1 DEF InsertStopDuration, ExtendTimeAt
<1>5. Window' = start_time..(end_time + duration)
  BY <1>4 DEF Window
(* The time at which the vehicle was where it is now. *)
<1> DEFINE Was(t) == IF t <= stop THEN t
                     ELSE IF t <= stop + duration THEN stop ELSE t - duration
<1>6. ASSUME NEW t \in first..(last + duration)
      PROVE  /\ Was(t) \in first..last
             /\ distance'[t] = distance[Was(t)]
  BY <1>1, <1>2, <1>3 DEF ExtendTimeAt
<1>7. ASSUME NEW t \in Window'
      PROVE  /\ t \in Int /\ t \in first..(last + duration)
             /\ Was(t) \in Window /\ distance'[t] = distance[Was(t)]
             /\ distance[Was(t)] \in Int
  <2>1. t \in Int /\ t \in first..(last + duration)
    BY <1>3, <1>5
  <2>2. Was(t) \in Window
    BY <1>2, <1>3, <1>5, <2>1
  <2> HIDE DEF Was
  <2> QED BY <1>6, <2>1, <2>2, DistanceAt
<1>8. distance' \in [first..(last + duration) -> Int]
  <2>1. distance' = [t \in first..(last + duration) |-> distance'[t]]
    BY <1>1 DEF ExtendTimeAt
  <2>2. ASSUME NEW t \in first..(last + duration) PROVE distance'[t] \in Int
    <3>1. distance \in [first..last -> Int]
      BY DEF WindowsAgree
    <3>2. Was(t) \in first..last /\ distance'[t] = distance[Was(t)]
      BY <1>6
    <3> HIDE DEF Was
    <3> QED BY <3>1, <3>2
  <2> QED BY <2>1, <2>2
<1>9. WindowsAgree'
  <2>1. zeros' \subseteq Int
    BY <1>1, <1>2 DEF WindowsAgree
  <2>2. distance'[start_time] = start /\ distance'[end_time + duration] = end
    <3>1. start_time \in Window' /\ end_time + duration \in Window'
      BY <1>3, <1>5
    <3>2. Was(start_time) = start_time
      BY <1>2
    <3>3. Was(end_time + duration) = end_time
      BY <1>2, <1>3
    <3>4. distance[start_time] = start /\ distance[end_time] = end
      BY DEF WindowsAgree
    <3> HIDE DEF Was
    <3> QED BY <1>7, <3>1, <3>2, <3>3, <3>4
  <2>3. ASSUME NEW t \in Window', NEW u \in Window', t <= u
        PROVE  distance'[u] - distance'[t] \in 0..(u - t)
    <3>1. /\ t \in Int /\ u \in Int /\ Was(t) \in Window /\ Was(u) \in Window
          /\ distance'[t] = distance[Was(t)] /\ distance'[u] = distance[Was(u)]
          /\ distance[Was(t)] \in Int /\ distance[Was(u)] \in Int
      BY <1>7
    <3>2. Was(t) \in Int /\ Was(u) \in Int
      BY <1>2, <1>3, <3>1
    <3>3. Was(t) <= Was(u) /\ Was(u) - Was(t) <= u - t
      BY <1>2, <1>3, <2>3, <3>1
    <3> HIDE DEF Was
    <3>4. distance[Was(u)] - distance[Was(t)] \in 0..(Was(u) - Was(t))
      BY <3>1, <3>3, Forward
    <3> QED BY <3>1, <3>2, <3>3, <3>4
  <2>4. /\ start_time \in first..(last + duration)
        /\ end_time + duration \in start_time..(last + duration)
    BY <1>3
  <2>5. time_offset \in Offsets \cup {0} /\ start = distance_offset
    BY DEF WindowsAgree
  <2>6. last + duration \in Int
    BY <1>3
  <2> HIDE DEF Was
  <2> QED BY <1>2, <1>3, <1>4, <1>8, <2>1, <2>2, <2>3, <2>4, <2>5, <2>6 DEF WindowsAgree
<1> DEFINE arrival == stop - time_offset
<1>10. /\ arrival \in Int /\ StartTime \in Int /\ EndTime \in Int
       /\ StartTime <= arrival /\ arrival <= EndTime
       /\ StartTime' = StartTime /\ EndTime' = EndTime + duration
       /\ StartTime = start_time - time_offset /\ EndTime = end_time - time_offset
  BY <1>2, <1>3, <1>4 DEF StartTime, EndTime
<1>11. UserView!Hold(s, duration) /\ UserView!Next
  <2>1. Plan' = [t \in StartTime..(EndTime + duration) |->
                   IF t <= arrival THEN Plan[t]
                   ELSE IF t <= arrival + duration THEN Plan[arrival]
                   ELSE Plan[t - duration]]
    <3>1. Plan' = [t \in StartTime..(EndTime + duration) |->
                     distance'[t + time_offset] - start]
      BY <1>2, <1>4, <1>10 DEF Plan, TimeToDistance
    <3>2. ASSUME NEW t \in StartTime..(EndTime + duration)
          PROVE  distance'[t + time_offset] - start
                   = IF t <= arrival THEN Plan[t]
                     ELSE IF t <= arrival + duration THEN Plan[arrival]
                     ELSE Plan[t - duration]
      <4>1. t \in Int /\ t + time_offset \in Window'
        BY <1>2, <1>3, <1>5, <1>10
      <4>2. distance'[t + time_offset] = distance[Was(t + time_offset)]
        BY <1>7, <4>1
      <4>3. CASE t <= arrival
        <5>1. t + time_offset <= stop /\ t \in StartTime..EndTime
          BY <1>2, <1>10, <4>1, <4>3
        <5>2. Plan[t] = distance[t + time_offset] - start
          BY <5>1, PlanAt
        <5> QED BY <4>2, <4>3, <5>1, <5>2
      <4>4. CASE ~(t <= arrival) /\ t <= arrival + duration
        <5>1. ~(t + time_offset <= stop) /\ t + time_offset <= stop + duration
          BY <1>2, <1>3, <1>10, <4>1, <4>4
        <5>2. Plan[arrival] = distance[stop] - start
          BY <1>2
        <5> QED BY <4>2, <4>4, <5>1, <5>2
      <4>5. CASE ~(t <= arrival) /\ ~(t <= arrival + duration)
        <5>1. /\ ~(t + time_offset <= stop) /\ ~(t + time_offset <= stop + duration)
              /\ t - duration \in StartTime..EndTime
              /\ t + time_offset - duration = (t - duration) + time_offset
          BY <1>2, <1>3, <1>10, <4>1, <4>5
        <5>2. Plan[t - duration] = distance[(t - duration) + time_offset] - start
          BY <5>1, PlanAt
        <5>3. Was(t + time_offset) = (t - duration) + time_offset
          BY <1>2, <1>3, <4>1, <5>1
        <5> HIDE DEF Was, arrival
        <5>4. distance'[t + time_offset] - start = Plan[t - duration]
          BY <4>2, <5>2, <5>3
        <5> QED BY <4>5, <5>4
      <4> QED BY <4>3, <4>4, <4>5
    <3> HIDE DEF Was, arrival
    <3> QED BY <3>1, <3>2
  <2> DEFINE delayed == {t + duration : t \in {u \in UserView!Times : u > arrival}}
             Held == {u \in UserView!Times : u <= arrival}
                       \cup arrival..(arrival + duration) \cup delayed
  <2>2. UserView!Times = StartTime..EndTime
    BY PlanAt DEF UserView!Times
  <2> HIDE DEF Was, arrival
  <2>3. Held = StartTime..(EndTime + duration)
    <3>1. ASSUME NEW t \in StartTime..(EndTime + duration) PROVE t \in Held
      <4>1. CASE t > arrival + duration
        <5>1. /\ t - duration \in UserView!Times /\ t - duration > arrival
              /\ t = (t - duration) + duration
          BY <1>3, <1>10, <2>2, <4>1
        <5> QED BY <5>1
      <4>2. CASE ~(t > arrival + duration)
        BY <1>3, <1>10, <2>2, <4>2
      <4> QED BY <4>1, <4>2
    <3>2. delayed \subseteq StartTime..(EndTime + duration)
      BY <1>3, <1>10, <2>2
    <3>3. ASSUME NEW t \in Held PROVE t \in StartTime..(EndTime + duration)
      <4>1. CASE t \in UserView!Times \/ t \in arrival..(arrival + duration)
        BY <1>3, <1>10, <2>2, <4>1
      <4> HIDE DEF delayed
      <4> QED BY <3>2, <4>1
    <3> HIDE DEF Held
    <3> QED BY <3>1, <3>3
  <2>4. \A t \in UserView!Times : t < arrival => Plan[t] < s
    <3> SUFFICES ASSUME NEW t \in StartTime..EndTime, t < arrival
                 PROVE  Plan[t] < s
      BY <2>2
    <3>1. /\ Plan[t] = distance[t + time_offset] - start /\ t + time_offset \in Window
          /\ t \in Int
      BY <1>10, PlanAt
    <3>2. t + time_offset < stop /\ distance[t + time_offset] \in Int
      BY <1>2, <3>1, DistanceAt DEF arrival
    <3> QED BY <1>2, <3>1, <3>2
  <2>5. arrival \in UserView!Times /\ Plan[arrival] = s
    BY <1>2 DEF arrival
  <2>6. UserView!Hold(s, duration)
    BY <1>4, <2>1, <2>3, <2>4, <2>5 DEF UserView!Hold
  <2>7. s \in UserView!Places
    BY <2>5 DEF UserView!Places
  <2> QED BY <2>6, <2>7 DEF UserView!Next
<1>12. ShownStep
  <2> SUFFICES ASSUME start = 0, StopsAreShown,
                      NEW t \in start_time'..(end_time' - 1), distance'[t] = distance'[t + 1]
               PROVE  distance'[t] \in zeros'
    <3> HIDE DEF Was, arrival
    <3> QED BY DEF ShownStep, StopsAreShown, StandsAt
  <2>0. t \in start_time..(end_time + duration - 1)
    <3>1. start_time' = start_time /\ end_time' = end_time + duration
      BY <1>4
    <3> HIDE DEF Was, arrival
    <3> QED BY <1>3, <3>1
  <2>1. /\ t \in Int /\ t \in Window' /\ t + 1 \in Window'
    BY <1>3, <1>5, <2>0
  <2>2. distance'[t] = distance[Was(t)] /\ distance'[t + 1] = distance[Was(t + 1)]
    BY <1>7, <2>1
  <2>3. CASE Was(t) = stop
    <3> HIDE DEF Was
    <3> QED BY <1>1, <1>2, <2>2, <2>3
  <2>4. CASE Was(t) # stop
    <3>1. Was(t) \in start_time..(end_time - 1) /\ Was(t + 1) = Was(t) + 1
      BY <1>2, <1>3, <2>0, <2>1, <2>4
    <3> HIDE DEF Was
    <3>2. distance[Was(t)] \in zeros
      BY <2>2, <3>1 DEF StopsAreShown, StandsAt
    <3> QED BY <1>1, <2>2, <3>2
  <2> QED BY <2>3, <2>4
<1> QED BY <1>9, <1>11, <1>12

LEMMA SetTimeOffsetStep ==
  ASSUME WindowsAgree, NEW offset \in Offsets,
         SetTimeOffset(offset), UserView!Call("set_time_offset", offset, 0)
  PROVE  WindowsAgree' /\ UserView!SetOffset(offset) /\ UserView!Next /\ ShownStep
<1>1. /\ time_offset' = offset
      /\ UNCHANGED <<first, last, distance, start_time, end_time, start, end,
                     distance_offset, zeros>>
  BY DEF SetTimeOffset, mapping
<1>2. WindowsAgree' /\ ShownStep
  BY <1>1 DEF WindowsAgree, Window, ShownStep, StopsAreShown
<1>3. /\ offset \in Int /\ time_offset \in Int /\ start_time \in Int /\ end_time \in Int
      /\ time_offset \in Offsets \cup {0}
  BY WindowTypes, TrajectoryAssumption DEF WindowsAgree
<1>4. {u + time_offset - offset : u \in UserView!Times}
        = (start_time - offset)..(end_time - offset)
  <2>1. UserView!Times = (start_time - time_offset)..(end_time - time_offset)
    BY PlanAt DEF UserView!Times, StartTime, EndTime
  <2>2. ASSUME NEW t \in (start_time - offset)..(end_time - offset)
        PROVE  t \in {u + time_offset - offset : u \in UserView!Times}
    <3>1. /\ t - time_offset + offset \in UserView!Times
          /\ t = (t - time_offset + offset) + time_offset - offset
      BY <1>3, <2>1
    <3> QED BY <3>1
  <2>3. ASSUME NEW u \in UserView!Times
        PROVE  u + time_offset - offset \in (start_time - offset)..(end_time - offset)
    BY <1>3, <2>1
  <2> QED BY <2>2, <2>3
<1>5. Plan' = [t \in (start_time - offset)..(end_time - offset) |->
                 distance[t + offset] - distance_offset]
  BY <1>1 DEF Plan, StartTime, EndTime, TimeToDistance
<1>6. ASSUME NEW t \in (start_time - offset)..(end_time - offset)
      PROVE  Plan[t - time_offset + offset] = distance[t + offset] - distance_offset
  BY <1>3 DEF Plan, StartTime, EndTime, TimeToDistance
<1>7. UserView!SetOffset(offset)
  BY <1>1, <1>4, <1>5, <1>6 DEF UserView!SetOffset
<1> QED BY <1>2, <1>7 DEF UserView!Next

LEMMA AddOffsetStep ==
  ASSUME WindowsAgree, AddOffset, UserView!Call("add_offset", 0, 0)
  PROVE  WindowsAgree' /\ UserView!Rebuild /\ UserView!Next /\ ShownStep
<1>1. /\ first' = StartTime /\ last' = EndTime /\ distance' = Plan
      /\ start_time' = StartTime /\ end_time' = EndTime /\ time_offset' = 0
      /\ start' = 0 /\ end' = end - start /\ distance_offset' = 0
      /\ zeros' = {s - start : s \in zeros \cap start..end}
  BY DEF AddOffset, Length
<1>2. /\ start \in Int /\ end \in Int /\ time_offset \in Int
      /\ start_time \in Int /\ end_time \in Int /\ start_time <= end_time
      /\ StartTime = start_time - time_offset /\ EndTime = end_time - time_offset
      /\ zeros \subseteq Int
  BY WindowTypes DEF StartTime, EndTime, WindowsAgree
<1>3. ASSUME NEW t \in StartTime..EndTime
      PROVE  /\ t \in Int /\ t + time_offset \in Window
             /\ distance[t + time_offset] \in Int /\ distance[t + time_offset] \in start..end
             /\ Plan[t] = distance[t + time_offset] - start /\ Plan[t] \in Int
  <2>1. /\ t + time_offset \in Window
        /\ Plan[t] = distance[t + time_offset] - start
    BY PlanAt
  <2>2. distance[t + time_offset] \in Int /\ distance[t + time_offset] \in start..end
    BY <2>1, DistanceAt
  <2>3. t \in Int
    BY <1>2
  <2> QED BY <1>2, <2>1, <2>2, <2>3
<1>4. Plan = [t \in StartTime..EndTime |-> Plan[t]]
  BY DEF Plan
<1>5. Plan' = Plan
  <2>1. Plan' = [t \in StartTime..EndTime |-> Plan[t + 0] - 0]
    <3>1. StartTime' = StartTime /\ EndTime' = EndTime
      BY <1>1, <1>2 DEF StartTime, EndTime
    <3> QED BY <1>1, <3>1 DEF Plan, TimeToDistance
  <2>2. \A t \in StartTime..EndTime : Plan[t + 0] - 0 = Plan[t]
    BY <1>3
  <2> QED BY <1>4, <2>1, <2>2
<1>6. WindowsAgree'
  <2>1. Window' = StartTime..EndTime
    BY <1>1 DEF Window
  <2>2. Plan \in [StartTime..EndTime -> Int]
    BY <1>3, <1>4
  <2>3. zeros' \subseteq Int
    BY <1>1, <1>2
  <2>4. Plan[StartTime] = 0 /\ Plan[EndTime] = end - start
    <3>1. /\ StartTime \in StartTime..EndTime /\ EndTime \in StartTime..EndTime
          /\ StartTime + time_offset = start_time /\ EndTime + time_offset = end_time
      BY <1>2
    <3>2. distance[start_time] = start /\ distance[end_time] = end
      BY DEF WindowsAgree
    <3>3. /\ Plan[StartTime] = distance[StartTime + time_offset] - start
          /\ Plan[EndTime] = distance[EndTime + time_offset] - start
      BY <1>3, <3>1
    <3> QED BY <1>2, <3>1, <3>2, <3>3
  <2>5. ASSUME NEW t \in StartTime..EndTime, NEW u \in StartTime..EndTime, t <= u
        PROVE  Plan[u] - Plan[t] \in 0..(u - t)
    <3> DEFINE a == t + time_offset
               b == u + time_offset
    <3>1. /\ a \in Window /\ b \in Window /\ distance[a] \in Int /\ distance[b] \in Int
          /\ Plan[t] = distance[a] - start /\ Plan[u] = distance[b] - start
      BY <1>3
    <3>2. a <= b /\ b - a = u - t
      BY <1>2, <1>3, <2>5
    <3> HIDE DEF a, b
    <3>3. distance[b] - distance[a] \in 0..(b - a)
      BY <3>1, <3>2, Forward
    <3>4. Plan[u] - Plan[t] = distance[b] - distance[a]
      BY <1>2, <3>1
    <3> QED BY <3>2, <3>3, <3>4
  <2>6. /\ StartTime \in Int /\ EndTime \in Int /\ end - start \in Int
        /\ StartTime \in StartTime..EndTime /\ EndTime \in StartTime..EndTime
    BY <1>2
  <2> QED BY <1>1, <2>1, <2>2, <2>3, <2>4, <2>5, <2>6 DEF WindowsAgree
<1>7. ShownStep
  <2> SUFFICES ASSUME start = 0, StopsAreShown,
                      NEW t \in StartTime..(EndTime - 1), Plan[t] = Plan[t + 1]
               PROVE  Plan[t] \in zeros'
    BY <1>1 DEF ShownStep, StopsAreShown, StandsAt
  <2>1. /\ t \in StartTime..EndTime /\ t + 1 \in StartTime..EndTime /\ t \in Int
        /\ t + time_offset \in start_time..(end_time - 1)
        /\ (t + 1) + time_offset = (t + time_offset) + 1
    BY <1>2
  <2>2. /\ Plan[t] = distance[t + time_offset] - start
        /\ distance[t + time_offset] \in Int /\ distance[t + time_offset] \in start..end
        /\ Plan[t + 1] = distance[(t + time_offset) + 1] - start
        /\ distance[(t + time_offset) + 1] \in Int
    BY <1>3, <2>1
  <2>3. distance[t + time_offset] = distance[(t + time_offset) + 1]
    <3> DEFINE x == distance[t + time_offset]
               y == distance[(t + time_offset) + 1]
    <3>1. x \in Int /\ y \in Int /\ x - start = y - start
      BY <2>2
    <3> HIDE DEF x, y
    <3>2. x = y
      BY <1>2, <3>1
    <3> QED BY <3>2 DEF x, y
  <2>4. distance[t + time_offset] \in zeros
    BY <2>1, <2>3 DEF StopsAreShown, StandsAt
  <2> QED BY <1>1, <2>2, <2>4
<1>8. UserView!Rebuild
  BY <1>1, <1>5 DEF UserView!Rebuild
<1> QED BY <1>6, <1>7, <1>8 DEF UserView!Next
-----------------------------------------------------------------------------
LEMMA NextStep ==
  ASSUME WindowsAgree, [Next]_vars
  PROVE  WindowsAgree' /\ [UserView!Next]_<<Plan, time_offset, call>> /\ ShownStep
<1>1. ASSUME NEW t \in StartTime..EndTime, NEW duration \in Durations,
             CropTime(t, duration), UserView!Call("crop_time", t, duration)
      PROVE  WindowsAgree' /\ UserView!Next /\ ShownStep
  BY <1>1, CropTimeStep
<1>2. ASSUME NEW s \in 0..Length, NEW length \in 0..Span,
             CropDistance(s, length), UserView!Call("crop_distance", s, length)
      PROVE  WindowsAgree' /\ UserView!Next /\ ShownStep
  BY <1>2, CropDistanceStep
<1>3. ASSUME NEW s \in 0..Length, SetStopline(s), UserView!Call("set_stopline", s, 0)
      PROVE  WindowsAgree' /\ UserView!Next /\ ShownStep
  BY <1>3, SetStoplineStep
<1>4. ASSUME NEW s \in 0..Length, NEW duration \in Durations,
             InsertStopDuration(s, duration),
             UserView!Call("insert_stop_duration", s, duration)
      PROVE  WindowsAgree' /\ UserView!Next /\ ShownStep
  BY <1>4, InsertStopDurationStep
<1>5. ASSUME NEW offset \in Offsets,
             SetTimeOffset(offset), UserView!Call("set_time_offset", offset, 0)
      PROVE  WindowsAgree' /\ UserView!Next /\ ShownStep
  BY <1>5, SetTimeOffsetStep
<1>6. ASSUME AddOffset, UserView!Call("add_offset", 0, 0)
      PROVE  WindowsAgree' /\ UserView!Next /\ ShownStep
  BY <1>6, AddOffsetStep
<1>7. CASE UNCHANGED vars
  BY <1>7 DEF vars, members, mapping, WindowsAgree, Window, ShownStep, StopsAreShown,
              Plan, StartTime, EndTime, TimeToDistance
<1> QED BY <1>1, <1>2, <1>3, <1>4, <1>5, <1>6, <1>7 DEF Next

(* The members that hold the two windows and the offsets agree after any   *)
(* sequence of crops, stops and offsets, for any ride and any durations.   *)
THEOREM WindowsAlwaysAgree == Spec => []WindowsAgree
<1>1. Init => WindowsAgree
  BY Initially
<1>2. WindowsAgree /\ [Next]_vars => WindowsAgree'
  BY NextStep
<1> QED BY <1>1, <1>2, PTL DEF Spec

(* Every call of the trajectory does to what the user sees exactly what    *)
(* the schedule says of the call of that name with those arguments: no     *)
(* call is a stutter, and none is taken for another.                       *)
THEOREM ScheduleRefinement == Spec => ImplementsSchedule
<1>1. Init => UserView!Init
  BY Initially
<1>2. WindowsAgree /\ [Next]_vars => [UserView!Next]_<<Plan, time_offset, call>>
  BY NextStep
<1>3. Spec => []WindowsAgree
  BY WindowsAlwaysAgree
<1> QED BY <1>1, <1>2, <1>3, PTL DEF Spec, ImplementsSchedule, UserView!Spec

(* A trajectory that was never cut at its start keeps zero velocities      *)
(* where the vehicle stands, whatever is done to it.                       *)
THEOREM StopsStayShown == Spec => UncroppedKeepsStopsShown
<1>1. WindowsAgree /\ [Next]_vars => [ShownStep]_vars
  BY NextStep
<1>2. Spec => []WindowsAgree
  BY WindowsAlwaysAgree
<1> QED BY <1>1, <1>2, PTL DEF Spec, UncroppedKeepsStopsShown, ShownStep
-----------------------------------------------------------------------------
Below == {pair \in Nat \X Nat : pair[1] < pair[2]}

(* A set of natural numbers has a least element. *)
LEMMA Least ==
  ASSUME NEW T, T \subseteq Nat, T # {}
  PROVE  \E x \in T : \A y \in T : x <= y
<1>1. IsWellFoundedOn(Below, Nat)
  BY NatLessThanWellFounded DEF OpToRel, Below
<1>2. PICK x \in T : \A y \in T : ~(<<y, x>> \in Below)
  BY <1>1, WFMin, Zenon
<1>3. \A y \in T : ~(y < x)
  BY <1>2 DEF Below
<1> QED
  BY <1>3

(* The vehicle comes to every place of its window ...                      *)
LEMMA Arrives ==
  ASSUME WindowsAgree, NEW place \in start..end
  PROVE  \E t \in Window : IsTimeAt(place, t) /\ distance[t] = place
<1>0. /\ start_time \in Int /\ end_time \in Int /\ start_time <= end_time
      /\ start \in Int /\ end \in Int /\ place \in Int /\ start <= place /\ place <= end
      /\ distance[start_time] = start /\ distance[end_time] = end
      /\ \A t \in Window : distance[t] \in Int
  BY WindowTypes, DistanceAt DEF WindowsAgree
<1> DEFINE T == {n \in Nat : start_time + n \in Window /\ place <= distance[start_time + n]}
<1>1. end_time - start_time \in T
  <2>1. end_time - start_time \in Nat /\ start_time + (end_time - start_time) = end_time
        /\ end_time \in Window
    BY <1>0 DEF Window
  <2> QED
    BY <1>0, <2>1
<1>2. PICK n \in T : \A m \in T : n <= m
  <2>1. T \subseteq Nat /\ T # {}
    BY <1>1
  <2> HIDE DEF T
  <2> QED
    BY <2>1, Least
<1> DEFINE t == start_time + n
<1>3. n \in Nat /\ t \in Window /\ place <= distance[t] /\ distance[t] \in Int /\ t \in Int
  BY <1>0, <1>2 DEF Window
<1>4. ASSUME NEW u \in Window, u < t PROVE distance[u] < place
  <2>1. u - start_time \in Nat /\ start_time + (u - start_time) = u /\ ~(n <= u - start_time)
    BY <1>0, <1>3, <1>4 DEF Window
  <2>2. u - start_time \notin T
    BY <1>2, <2>1
  <2>3. ~(place <= distance[u])
    BY <2>1, <2>2
  <2> QED
    BY <1>0, <2>3
<1> HIDE DEF t
<1>5. distance[t] <= place
  <2>1. CASE t = start_time
    BY <1>0, <2>1
  <2>2. CASE t # start_time
    <3> DEFINE u == t - 1
    <3>1. u \in Window /\ u < t /\ u <= t /\ t - u = 1
      BY <1>0, <1>3, <2>2 DEF Window
    <3> HIDE DEF u
    <3>2. distance[u] < place /\ distance[t] - distance[u] \in 0..(t - u)
      BY <1>3, <1>4, <3>1, Forward
    <3> QED
      BY <1>0, <1>3, <3>1, <3>2
  <2> QED
    BY <2>1, <2>2
<1>6. Covered(place)
  BY <1>0 DEF Covered
<1> QED
  BY <1>0, <1>3, <1>4, <1>5, <1>6 DEF IsTimeAt

(* ... and leaves it, or stands there at the end. *)
LEMMA Leaves ==
  ASSUME WindowsAgree, NEW place \in start..end
  PROVE  \E t \in Window : IsEndTimeAt(place, t) /\ distance[t] = place
<1>0. /\ start_time \in Int /\ end_time \in Int /\ start_time <= end_time
      /\ start \in Int /\ end \in Int /\ place \in Int /\ start <= place /\ place <= end
      /\ distance[start_time] = start /\ distance[end_time] = end
      /\ \A t \in Window : distance[t] \in Int
  BY WindowTypes, DistanceAt DEF WindowsAgree
<1> DEFINE T == {n \in Nat : end_time - n \in Window /\ distance[end_time - n] <= place}
<1>1. end_time - start_time \in T
  <2>1. end_time - start_time \in Nat /\ end_time - (end_time - start_time) = start_time
        /\ start_time \in Window
    BY <1>0 DEF Window
  <2> QED
    BY <1>0, <2>1
<1>2. PICK n \in T : \A m \in T : n <= m
  <2>1. T \subseteq Nat /\ T # {}
    BY <1>1
  <2> HIDE DEF T
  <2> QED
    BY <2>1, Least
<1> DEFINE t == end_time - n
<1>3. n \in Nat /\ t \in Window /\ distance[t] <= place /\ distance[t] \in Int /\ t \in Int
  BY <1>0, <1>2 DEF Window
<1>4. ASSUME NEW u \in Window, u > t PROVE distance[u] > place
  <2>1. end_time - u \in Nat /\ end_time - (end_time - u) = u /\ ~(n <= end_time - u)
    BY <1>0, <1>3, <1>4 DEF Window
  <2>2. end_time - u \notin T
    BY <1>2, <2>1
  <2>3. ~(distance[u] <= place)
    BY <2>1, <2>2
  <2> QED
    BY <1>0, <2>3
<1> HIDE DEF t
<1>5. place <= distance[t]
  <2>1. CASE t = end_time
    BY <1>0, <2>1
  <2>2. CASE t # end_time
    <3> DEFINE u == t + 1
    <3>1. u \in Window /\ u > t /\ t <= u /\ u - t = 1
      BY <1>0, <1>3, <2>2 DEF Window
    <3> HIDE DEF u
    <3>2. distance[u] > place /\ distance[u] - distance[t] \in 0..(u - t)
      BY <1>3, <1>4, <3>1, Forward
    <3> QED
      BY <1>0, <1>3, <3>1, <3>2
  <2> QED
    BY <2>1, <2>2
<1>6. Covered(place)
  BY <1>0 DEF Covered
<1> QED
  BY <1>0, <1>3, <1>4, <1>5, <1>6 DEF IsEndTimeAt

(* distance_to_time answers for every arc length of the trajectory, and    *)
(* time_to_distance leads back from both its answers and from the times    *)
(* between them, and from no other.                                        *)
THEOREM ConversionsAlwaysAgree == Spec => []ConversionsAgree
<1>1. WindowsAgree => ConversionsAgree
  <2> SUFFICES ASSUME WindowsAgree, NEW s \in 0..Length
               PROVE  \E arrival, departure \in Window :
                        /\ IsTimeAt(s + distance_offset, arrival)
                        /\ IsEndTimeAt(s + distance_offset, departure)
                        /\ \A t \in Window :
                             (t \in arrival..departure <=> TimeToDistance(t - time_offset) = s)
    BY DEF ConversionsAgree
  <2> DEFINE place == s + distance_offset
  <2>0. /\ distance_offset = start /\ start \in Int /\ end \in Int /\ s \in Int
        /\ time_offset \in Int /\ Window \subseteq Int /\ place \in start..end
        /\ \A t \in Window : distance[t] \in Int
    BY WindowTypes, DistanceAt DEF WindowsAgree, Length, Window
  <2> HIDE DEF place
  <2>1. PICK arrival \in Window : IsTimeAt(place, arrival) /\ distance[arrival] = place
    BY <2>0, Arrives
  <2>2. PICK departure \in Window : IsEndTimeAt(place, departure) /\ distance[departure] = place
    BY <2>0, Leaves
  <2>3. ASSUME NEW t \in Window
        PROVE  t \in arrival..departure <=> TimeToDistance(t - time_offset) = s
    <3>1. TimeToDistance(t - time_offset) = s <=> distance[t] = place
      <4>1. (t - time_offset) + time_offset = t
        BY <2>0
      <4>2. distance[t] \in Int
        BY <2>0
      <4> QED
        BY <2>0, <4>1, <4>2 DEF TimeToDistance, place
    <3>2. ASSUME t \in arrival..departure PROVE distance[t] = place
      <4>1. arrival <= t /\ t <= departure /\ t \in Int /\ arrival \in Int /\ departure \in Int
        BY <2>0, <3>2
      <4>2. /\ distance[t] - distance[arrival] \in 0..(t - arrival)
            /\ distance[departure] - distance[t] \in 0..(departure - t)
        BY <4>1, Forward
      <4>3. distance[t] \in Int /\ place \in Int
        BY <2>0
      <4> QED
        BY <2>1, <2>2, <4>1, <4>2, <4>3
    <3>3. ASSUME distance[t] = place PROVE t \in arrival..departure
      <4>1. ~(t < arrival) /\ ~(t > departure)
        <5>1. ~(place < place) /\ ~(place > place)
          BY <2>0
        <5> QED
          BY <2>1, <2>2, <3>3, <5>1 DEF IsTimeAt, IsEndTimeAt
      <4> QED
        BY <2>0, <4>1
    <3> QED
      BY <3>1, <3>2, <3>3
  <2> QED
    BY <2>1, <2>2, <2>3 DEF place
<1>2. Spec => []WindowsAgree
  BY WindowsAlwaysAgree
<1> QED
  BY <1>1, <1>2, PTL
=============================================================================
