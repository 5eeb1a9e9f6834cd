----------------------------- MODULE StopLineProofs -----------------------------
(***************************************************************************)
(* The vehicle stops at every stop line: for any stop lines, lengths of    *)
(* the route and the path, durations, missed cycles and restarts.          *)
(***************************************************************************)
EXTENDS StopLine, WellFoundedInduction, TLAPS

Below == {pair \in Nat \X Nat : pair[1] < pair[2]}

(* A set of natural numbers has a least element. *)
LEMMA Least ==
  ASSUME NEW T, T \subseteq Nat, T # {}
  PROVE  \E x \in T : \A y \in T : x <= y
<1>1. IsWellFoundedOn(Below, Nat)
  BY NatLessThanWellFounded DEF OpToRel, Below
<1>2. PICK x \in T : \A y \in T : ~(<<y, x>> \in Below)
  BY <1>1, WFMin, Zenon
<1>3. \A y \in T : ~(y < x)
  BY <1>2 DEF Below
<1> QED
  BY <1>3

(* A set of numbers with a lower bound has a minimum. *)
LEMMA MinIsLeast ==
  ASSUME NEW low \in Int, NEW S, S \subseteq Int, S # {}, \A x \in S : low <= x
  PROVE  Min(S) \in S /\ \A x \in S : Min(S) <= x
<1> DEFINE T == {n \in Nat : low + n \in S}
<1>1. T # {}
  <2>1. PICK x \in S : TRUE
    OBVIOUS
  <2>2. x - low \in Nat /\ low + (x - low) = x
    BY <2>1
  <2> QED
    BY <2>1, <2>2
<1>2. PICK n \in T : \A k \in T : n <= k
  <2>1. T \subseteq Nat
    OBVIOUS
  <2> HIDE DEF T
  <2> QED
    BY <1>1, <2>1, Least
<1>3. ASSUME NEW x \in S PROVE low + n <= x
  <2>1. x - low \in Nat /\ low + (x - low) = x
    OBVIOUS
  <2>2. n <= x - low /\ n \in Nat
    BY <1>2, <2>1
  <2> QED
    BY <2>1, <2>2
<1>4. \E m \in S : \A x \in S : m <= x
  BY <1>2, <1>3
<1> QED
  BY <1>4 DEF Min

LEMMA Bounds ==
  /\ Laps \in Nat /\ Lap \in Nat /\ HoldMargin \in Nat /\ Horizon \in Nat
  /\ LaneBefore \in Nat /\ LaneAfter \in Nat /\ Behind \in Nat
  /\ RequiredDuration \in Nat /\ StoppedDuration \in Nat /\ MaxMissed \in Nat
  /\ Lap > LaneBefore + LaneAfter + Horizon + MaxMissed + 1
  /\ Lap > LaneBefore + Horizon + Behind
  /\ Lines \subseteq Nat
<1>1. Lines \subseteq 0..(Lap - 1)
  BY StopLineAssumption
<1> QED
  BY <1>1, StopLineAssumption

LEMMA Longer ==
  /\ LongestStop \in Nat
  /\ \A n \in 0..LongestStop :
       /\ LongerBy1(n) \in 0..LongestStop
       /\ LongerBy1(n) = n + 1 \/ (n = LongestStop /\ LongerBy1(n) = LongestStop)
<1> DEFINE S == {RequiredDuration, StoppedDuration}
<1>1. \E x \in S : \A y \in S : x >= y
  <2>1. RequiredDuration >= StoppedDuration \/ StoppedDuration >= RequiredDuration
    BY Bounds
  <2> QED
    BY <2>1, Bounds
<1>2. Max(S) \in S
  BY <1>1 DEF Max
<1>3. LongestStop \in Nat
  BY <1>2, Bounds DEF LongestStop
<1>4. ASSUME NEW n \in 0..LongestStop
      PROVE  /\ LongerBy1(n) \in 0..LongestStop
             /\ LongerBy1(n) = n + 1 \/ (n = LongestStop /\ LongerBy1(n) = LongestStop)
  <2> DEFINE N == {n + 1, LongestStop}
  <2>1. 0 \in Int /\ N \subseteq Int /\ N # {} /\ \A x \in N : 0 <= x
    BY <1>3
  <2>2. Min(N) \in N /\ \A x \in N : Min(N) <= x
    <3> HIDE DEF N
    <3> QED
      BY <2>1, MinIsLeast, Zenon
  <2>3. LongerBy1(n) = Min(N)
    BY DEF LongerBy1
  <2> HIDE DEF LongestStop
  <2> QED
    BY <1>3, <2>2, <2>3
<1> QED
  BY <1>3, <1>4

(* The places of a stop line are laps apart. *)
LEMMA LapsApart ==
  ASSUME NEW j \in Nat, NEW k \in Nat, j < k
  PROVE  j * Lap + Lap <= k * Lap
<1> DEFINE d == k - j - 1
<1>1. d \in Nat /\ k = j + 1 + d
  OBVIOUS
<1> HIDE DEF d
<1>2. d * Lap \in Nat /\ j * Lap \in Nat
  BY <1>1, Bounds
<1>3. (j + 1 + d) * Lap = j * Lap + Lap + d * Lap
  BY <1>1, Bounds
<1> QED
  BY <1>1, <1>2, <1>3, Bounds

LEMMA PlacesApart ==
  ASSUME NEW line \in Lines
  PROVE  /\ Places(line) \subseteq Nat
         /\ \A r, s \in Places(line) : r - s < Lap /\ s - r < Lap => r = s
<1>1. \A k \in Nat : k * Lap \in Nat
  BY Bounds
<1>2. line \in Nat
  BY Bounds
<1>3. Places(line) \subseteq Nat
  BY <1>1, <1>2, Bounds DEF Places
<1>4. ASSUME NEW r \in Places(line), NEW s \in Places(line), r - s < Lap, s - r < Lap
      PROVE  r = s
  <2>1. PICK j \in 0..(Laps - 1) : r = line + j * Lap
    BY DEF Places
  <2>2. PICK k \in 0..(Laps - 1) : s = line + k * Lap
    BY DEF Places
  <2>3. j \in Nat /\ k \in Nat /\ j * Lap \in Nat /\ k * Lap \in Nat
    BY <1>1
  <2>4. CASE j < k
    <3>1. j * Lap + Lap <= k * Lap
      BY <2>3, <2>4, LapsApart
    <3> QED
      BY <1>2, <1>4, <2>1, <2>2, <2>3, <3>1, Bounds
  <2>5. CASE k < j
    <3>1. k * Lap + Lap <= j * Lap
      BY <2>3, <2>5, LapsApart
    <3> QED
      BY <1>2, <1>4, <2>1, <2>2, <2>3, <3>1, Bounds
  <2>6. CASE j = k
    BY <2>1, <2>2, <2>6
  <2> QED
    BY <2>3, <2>4, <2>5, <2>6
<1> QED
  BY <1>3, <1>4
-----------------------------------------------------------------------------
(* The module of a line was launched for one of its places, and is deleted *)
(* before the lane of the next one comes onto the path.                    *)
InReach(s) ==
  /\ position <= s + LaneAfter + missed
  /\ s <= position + Horizon + LaneBefore

(* A module that is stopped for a place: until the next plan the vehicle   *)
(* may creep up to that place, from then on it stands.                     *)
StoppedAt(s, stopped_for) ==
  /\ s < position + HoldMargin
  /\ MaxMissed >= RequiredDuration => s \in halted
  /\ \/ limit <= s /\ stopped_for <= missed
     \/ limit <= position /\ stopped_for <= still + MaxMissed + 1

WatchedBy(module, s) ==
  /\ InReach(s)
  /\ module.state \in {"APPROACH", "STOPPED", "START"}
  /\ module.state = "STOPPED" => StoppedAt(s, module.stopped_for)
  /\ module.state = "START" => s \in halted

ModuleRecords ==
  [state : {"ABSENT", "APPROACH", "STOPPED", "START"}, stopped_for : 0..LongestStop]

StopTypes ==
  /\ position \in Nat /\ limit \in Int
  /\ missed \in 0..(MaxMissed + 1) /\ still \in 0..LongestStop
  /\ modules \in [Lines -> ModuleRecords]

ModulesWatch ==
  \A line \in Lines :
    modules[line] = Absent \/ \E s \in Places(line) : WatchedBy(modules[line], s)

(* Standing counts for the lines just ahead. *)
StandingCounts ==
  still > 0 /\ still + MaxMissed >= RequiredDuration =>
    \A s \in AllPlaces : position <= s /\ s < position + HoldMargin => s \in halted

(* No path leads past a line before which the vehicle has not stood.       *)
PathsStop == \A s \in AllPlaces : s < limit \/ s < position => s \in halted

StopInv == StopTypes /\ ModulesWatch /\ StandingCounts /\ PathsStop
-----------------------------------------------------------------------------
LEMMA PathEndBounds ==
  ASSUME position \in Nat
  PROVE  PathEnd \in Nat /\ PathEnd <= position + Horizon
<1> DEFINE S == {position + Horizon, End}
<1>1. 0 \in Int /\ S \subseteq Int /\ S # {} /\ (\A x \in S : 0 <= x) /\ S \subseteq Nat
  <2>1. End \in Nat
    BY Bounds DEF End
  <2> QED
    BY <2>1, Bounds
<1>2. Min(S) \in S /\ \A x \in S : Min(S) <= x
  <2> HIDE DEF S
  <2> QED
    BY <1>1, MinIsLeast, Zenon
<1>3. PathEnd = Min(S)
  BY DEF PathEnd
<1>4. position + Horizon \in S
  OBVIOUS
<1> HIDE DEF S
<1> QED
  BY <1>1, <1>2, <1>3, <1>4

(* Where a module may put a stop: not too far behind the vehicle. *)
LEMMA StopsAhead ==
  ASSUME position \in Nat, NEW line \in Lines, NEW module
  PROVE  /\ StopPoints(line, module) \subseteq Int
         /\ \A s \in StopPoints(line, module) : 0 - Behind <= s /\ position - Behind <= s
<1>1. \A s \in StopPoints(line, module) :
        s = position \/ (s \in Places(line) /\ position - Behind <= s)
  BY DEF StopPoints
<1>2. Places(line) \subseteq Nat
  BY PlacesApart
<1> QED
  BY <1>1, <1>2, Bounds

(* The path ends before the first stop. *)
LEMMA LimitBounds ==
  ASSUME position \in Nat, Plan
  PROVE  /\ limit' \in Int /\ limit' <= PathEnd
         /\ \A line \in Lines : \A s \in StopPoints(line, Instances[line]) : limit' <= s
<1> DEFINE S == {PathEnd} \cup UNION {StopPoints(line, Instances[line]) : line \in Lines}
           low == 0 - Behind
<1>1. low \in Int /\ S \subseteq Int /\ S # {} /\ \A x \in S : low <= x
  <2>1. PathEnd \in Int /\ low <= PathEnd /\ low \in Int
    BY PathEndBounds, Bounds
  <2>2. \A line \in Lines : \A s \in StopPoints(line, Instances[line]) : s \in Int /\ low <= s
    BY StopsAhead
  <2> HIDE DEF low
  <2> QED
    BY <2>1, <2>2
<1>2. Min(S) \in S /\ \A x \in S : Min(S) <= x
  <2> HIDE DEF S, low
  <2> QED
    BY <1>1, MinIsLeast, Zenon
<1>3. limit' = Min(S)
  BY DEF Plan
<1>4. PathEnd \in S /\ \A line \in Lines : \A s \in StopPoints(line, Instances[line]) : s \in S
  OBVIOUS
<1> HIDE DEF S, low
<1> QED
  BY <1>1, <1>2, <1>3, <1>4

(* A stop line has one place in reach at most. *)
LEMMA OneInReach ==
  ASSUME StopTypes, NEW line \in Lines, NEW r \in Places(line), NEW s \in Places(line),
         InReach(r), position <= s + LaneAfter + MaxMissed + 1,
         s <= position + Horizon + LaneBefore
  PROVE  r = s
<1>1. r \in Nat /\ s \in Nat
  BY PlacesApart
<1>2. r - s < Lap /\ s - r < Lap
  BY <1>1, Bounds DEF StopTypes, InReach
<1> QED
  BY <1>2, PlacesApart

(* What the modules are when a plan begins. *)
LEMMA InstancesWatch ==
  ASSUME StopInv, NEW line \in Lines
  PROVE  \/ Instances[line] = Absent /\ ~OnPath(line)
         \/ \E s \in Places(line) :
              /\ WatchedBy(Instances[line], s)
              /\ position <= s + LaneAfter /\ s <= position + Horizon + LaneBefore
<1>0. StopTypes /\ ModulesWatch /\ position \in Nat
  BY DEF StopInv, StopTypes
<1>1. CASE ~OnPath(line)
  BY <1>1 DEF Instances
<1>2. CASE OnPath(line)
  <2>1. PICK s \in Places(line) : s - LaneBefore <= PathEnd /\ s + LaneAfter >= position
    BY <1>2 DEF OnPath
  <2>2. s \in Nat /\ PathEnd \in Nat /\ PathEnd <= position + Horizon
    BY <1>0, PlacesApart, PathEndBounds
  <2>3. /\ position <= s + LaneAfter /\ s <= position + Horizon + LaneBefore
        /\ position <= s + LaneAfter + MaxMissed + 1
        /\ position <= s + LaneAfter + missed
    BY <1>0, <2>1, <2>2, Bounds DEF StopTypes
  <2>4. CASE modules[line] = Absent
    <3>1. Instances[line] = Launched
      BY <1>2, <2>4 DEF Instances
    <3>2. WatchedBy(Launched, s)
      BY <2>3 DEF WatchedBy, Launched, InReach
    <3> QED
      BY <2>3, <3>1, <3>2
  <2>5. CASE modules[line] # Absent
    <3>1. Instances[line] = modules[line]
      BY <1>2, <2>5 DEF Instances
    <3>2. PICK r \in Places(line) : WatchedBy(modules[line], r)
      BY <1>0, <2>5 DEF ModulesWatch
    <3>3. r = s
      BY <1>0, <2>3, <3>2, OneInReach DEF WatchedBy
    <3> QED
      BY <2>3, <3>1, <3>2, <3>3
  <2> QED
    BY <2>4, <2>5
<1> QED
  BY <1>1, <1>2

LEMMA InstanceTypes ==
  ASSUME StopTypes, NEW line \in Lines
  PROVE  Instances[line] \in ModuleRecords
<1>1. Absent \in ModuleRecords /\ Launched \in ModuleRecords /\ modules[line] \in ModuleRecords
  BY Longer DEF Absent, Launched, ModuleRecords, StopTypes
<1> QED
  BY <1>1 DEF Instances

(* The vehicle has stood before a place near enough. *)
LEMMA StoodBefore ==
  ASSUME StopInv, NEW line \in Lines, NEW s \in Places(line), s < position + HoldMargin,
         still > 0, still + MaxMissed >= RequiredDuration
  PROVE  s \in halted
<1>1. s \in AllPlaces /\ s \in Nat /\ position \in Nat
  BY PlacesApart DEF AllPlaces, StopInv, StopTypes
<1>2. CASE s < position
  BY <1>1, <1>2 DEF StopInv, PathsStop
<1>3. CASE position <= s
  BY <1>1, <1>3 DEF StopInv, StandingCounts
<1> QED
  BY <1>1, <1>2, <1>3

(* What a plan makes of the module of a line. *)
PlannedModule(line) ==
  IF StopPoints(line, Instances[line]) = {} THEN Instances[line]
  ELSE Advanced(Instances[line], Min(StopPoints(line, Instances[line])) - position)

LEMMA PlanWatches ==
  ASSUME StopInv, Plan, NEW line \in Lines
  PROVE  /\ PlannedModule(line) \in ModuleRecords
         /\ \/ PlannedModule(line) = Absent
            \/ \E s \in Places(line), m \in ModuleRecords :
                 m = PlannedModule(line) /\ WatchedBy(m, s)'
         /\ \A s \in Places(line) : position <= s /\ s < limit' => s \in halted
<1>m. PICK module \in ModuleRecords : module = Instances[line]
  BY InstanceTypes DEF StopInv
<1> DEFINE stops == StopPoints(line, module)
<1>0. /\ StopTypes /\ position \in Nat
      /\ missed' = 0 /\ UNCHANGED <<position, still, halted>>
      /\ limit' \in Int /\ limit' <= position + Horizon
      /\ \A x \in stops : limit' <= x
  <2>1. StopTypes /\ position \in Nat
    BY DEF StopInv, StopTypes
  <2>2. missed' = 0 /\ UNCHANGED <<position, still, halted>>
    BY DEF Plan
  <2>3. limit' \in Int /\ limit' <= PathEnd /\ \A x \in stops : limit' <= x
    BY <1>m, <2>1, LimitBounds
  <2>4. PathEnd \in Nat /\ PathEnd <= position + Horizon
    BY <2>1, PathEndBounds
  <2> QED
    BY <2>1, <2>2, <2>3, <2>4, Bounds
<1>1. CASE module = Absent /\ ~OnPath(line)
  <2>1. stops = {}
    BY <1>1 DEF StopPoints, Absent
  <2>2. PlannedModule(line) = Absent
    BY <1>m, <1>1, <2>1 DEF PlannedModule
  <2>3. ASSUME NEW s \in Places(line), position <= s, s < limit' PROVE FALSE
    <3>1. s \in Nat /\ PathEnd \in Nat /\ limit' <= PathEnd
      BY <1>0, PlacesApart, PathEndBounds, LimitBounds
    <3>2. s - LaneBefore <= PathEnd /\ s + LaneAfter >= position
      BY <1>0, <2>3, <3>1, Bounds
    <3> QED
      BY <1>1, <3>2 DEF OnPath
  <2> QED
    BY <1>0, <1>1, <2>2, <2>3
<1>2. CASE \E s \in Places(line) :
             /\ WatchedBy(module, s)
             /\ position <= s + LaneAfter /\ s <= position + Horizon + LaneBefore
  <2>1. PICK s \in Places(line) :
          /\ WatchedBy(module, s)
          /\ position <= s + LaneAfter /\ s <= position + Horizon + LaneBefore
    BY <1>2
  <2>2. /\ s \in Nat /\ InReach(s)'
        /\ module.state \in {"APPROACH", "STOPPED", "START"}
        /\ module.stopped_for \in 0..LongestStop
    <3>1. s \in Nat
      BY PlacesApart
    <3>2. InReach(s)'
      BY <1>0, <2>1, <3>1, Bounds DEF InReach
    <3> QED
      BY <2>1, <3>1, <3>2 DEF WatchedBy, ModuleRecords
  (* No other place of the line is near. *)
  <2>3. \A r \in Places(line) :
          position - Behind <= r /\ r <= position + Horizon => r = s
    <3> SUFFICES ASSUME NEW r \in Places(line), position - Behind <= r, r <= position + Horizon
                 PROVE  r = s
      OBVIOUS
    <3>1. r \in Nat
      BY PlacesApart
    <3>2. r - s < Lap /\ s - r < Lap
      BY <1>0, <2>1, <2>2, <3>1, Bounds
    <3> QED
      BY <3>2, PlacesApart
  <2>4. \A r \in Places(line) :
          position <= r /\ r < limit' => position - Behind <= r /\ r <= position + Horizon /\ r = s
    <3> SUFFICES ASSUME NEW r \in Places(line), position <= r, r < limit'
                 PROVE  position - Behind <= r /\ r <= position + Horizon /\ r = s
      OBVIOUS
    <3>1. r \in Nat
      BY PlacesApart
    <3>2. position - Behind <= r /\ r <= position + Horizon
      BY <1>0, <3>1, Bounds
    <3> QED
      BY <2>3, <3>2
  <2> HIDE DEF stops
  <2>5. CASE module.state = "APPROACH"
    <3>1. stops = {r \in Places(line) : position - Behind <= r /\ r <= PathEnd}
      BY <2>5 DEF StopPoints, stops
    <3>2. \A r \in stops : r = s
      <4>1. PathEnd \in Nat /\ PathEnd <= position + Horizon
        BY <1>0, PathEndBounds
      <4>2. \A r \in stops : r <= position + Horizon
        <5> SUFFICES ASSUME NEW r \in stops PROVE r <= position + Horizon
          OBVIOUS
        <5>1. r \in Nat /\ r <= PathEnd
          BY <3>1, PlacesApart
        <5> QED
          BY <1>0, <4>1, <5>1, Bounds
      <4> QED
        BY <2>3, <3>1, <4>2
    <3>3. ASSUME NEW r \in Places(line), position <= r, r < limit' PROVE FALSE
      <4>1. /\ r \in Nat /\ position - Behind <= r /\ PathEnd \in Nat /\ limit' <= PathEnd
            /\ limit' \in Int
        BY <1>0, <2>4, <3>3, PlacesApart, PathEndBounds, LimitBounds
      <4>2. r <= PathEnd
        BY <3>3, <4>1
      <4>3. r \in stops
        BY <3>1, <4>1, <4>2
      <4>4. limit' <= r
        BY <1>0, <4>3
      <4> QED
        BY <3>3, <4>1, <4>4
    <3>4. CASE stops = {} \/ ~StoppedNear(Min(stops) - position)
      <4>1. PlannedModule(line) = module
        BY <1>m, <2>5, <3>4 DEF PlannedModule, Advanced, stops
      <4>2. WatchedBy(module, s)'
        BY <2>2, <2>5 DEF WatchedBy
      <4> QED
        BY <1>0, <3>3, <4>1, <4>2
    <3>5. CASE stops # {} /\ StoppedNear(Min(stops) - position)
      <4> DEFINE new == [state |-> "STOPPED", stopped_for |-> 0]
      <4>1. PlannedModule(line) = new
        BY <1>m, <2>5, <3>5 DEF PlannedModule, Advanced, stops
      <4>2. Min(stops) = s /\ s \in stops
        <5>1. stops = {s}
          BY <3>2, <3>5
        <5>2. \E x \in stops : \A y \in stops : x <= y
          BY <2>2, <5>1
        <5> QED
          BY <5>1, <5>2 DEF Min
      <4>3. /\ s < position + HoldMargin /\ still > StoppedDuration
        BY <1>0, <2>2, <3>5, <4>2, Bounds DEF StoppedNear, isVehicleStopped
      <4>4. ASSUME MaxMissed >= RequiredDuration PROVE s \in halted
        <5>1. still > 0 /\ still + MaxMissed >= RequiredDuration
          BY <1>0, <4>3, <4>4, Bounds, Longer DEF StopTypes
        <5> QED
          BY <4>3, <5>1, StoodBefore
      <4>5. limit' <= s /\ 0 <= missed'
        BY <1>0, <4>2
      <4>6. StoppedAt(s, 0)'
        BY <1>0, <4>3, <4>4, <4>5 DEF StoppedAt
      <4>7. new \in ModuleRecords /\ WatchedBy(new, s)'
        BY <2>2, <4>6, Longer DEF ModuleRecords, WatchedBy
      <4> QED
        BY <3>3, <4>1, <4>7
    <3> QED
      BY <3>4, <3>5
  <2>6. CASE module.state = "STOPPED"
    <3>1. stops = {position}
      BY <2>6 DEF StopPoints, stops
    <3>2. limit' <= position
      BY <1>0, <3>1
    <3>3. ASSUME NEW r \in Places(line), position <= r, r < limit' PROVE FALSE
      <4>1. r \in Nat
        BY PlacesApart
      <4> QED
        BY <1>0, <3>2, <3>3, <4>1
    <3>4. StoppedAt(s, module.stopped_for)
      BY <2>1, <2>6 DEF WatchedBy
    <3>5. module.stopped_for <= still + MaxMissed + 1 \/ module.stopped_for <= missed
      BY <3>4 DEF StoppedAt
    <3>6. CASE module.stopped_for > RequiredDuration
      <4>1. PlannedModule(line) = Released(module)
        BY <1>m, <2>6, <3>1, <3>6 DEF PlannedModule, Advanced, stops
      <4>2. s \in halted
        <5>1. s < position + HoldMargin /\ (MaxMissed >= RequiredDuration => s \in halted)
          BY <3>4 DEF StoppedAt
        <5>2. MaxMissed >= RequiredDuration \/ (still > 0 /\ still + MaxMissed >= RequiredDuration)
          BY <1>0, <2>2, <3>5, <3>6, Bounds, Longer DEF StopTypes
        <5> QED
          BY <5>1, <5>2, StoodBefore
      <4>3. Released(module) \in ModuleRecords /\ WatchedBy(Released(module), s)'
        BY <1>0, <2>2, <4>2, Longer DEF Released, ModuleRecords, WatchedBy
      <4> QED
        BY <3>3, <4>1, <4>3
    <3>7. CASE ~(module.stopped_for > RequiredDuration)
      <4>1. PlannedModule(line) = module
        BY <1>m, <2>6, <3>1, <3>7 DEF PlannedModule, Advanced, stops
      <4>2. module.stopped_for <= still + MaxMissed + 1
        BY <1>0, <2>2, <3>5, Bounds, Longer DEF StopTypes
      <4>3. StoppedAt(s, module.stopped_for)'
        BY <1>0, <3>2, <3>4, <4>2 DEF StoppedAt
      <4>4. WatchedBy(module, s)'
        BY <2>2, <2>6, <4>3 DEF WatchedBy
      <4> QED
        BY <1>0, <3>3, <4>1, <4>4
    <3> QED
      BY <3>6, <3>7
  <2>7. CASE module.state = "START"
    <3>1. stops = {} /\ s \in halted
      BY <2>1, <2>7 DEF StopPoints, WatchedBy, stops
    <3>2. PlannedModule(line) = module
      BY <1>m, <3>1 DEF PlannedModule, stops
    <3>3. WatchedBy(module, s)'
      BY <1>0, <2>2, <2>7, <3>1 DEF WatchedBy
    <3>4. \A r \in Places(line) : position <= r /\ r < limit' => r \in halted
      BY <2>4, <3>1
    <3> QED
      BY <1>0, <3>2, <3>3, <3>4
  <2> QED
    BY <2>2, <2>5, <2>6, <2>7
<1>3. \/ module = Absent /\ ~OnPath(line)
      \/ \E s \in Places(line) :
           /\ WatchedBy(module, s)
           /\ position <= s + LaneAfter /\ s <= position + Horizon + LaneBefore
  BY <1>m, InstancesWatch
<1> QED
  BY <1>1, <1>2, <1>3

LEMMA InitStops == Init => StopInv
<1> SUFFICES ASSUME Init PROVE StopInv
  OBVIOUS
<1>1. StopTypes
  <2>1. Absent \in ModuleRecords /\ LongestStop \in Nat
    BY Longer DEF Absent, ModuleRecords
  <2> QED
    BY <2>1, Bounds DEF Init, StopTypes
<1>2. ModulesWatch
  BY DEF Init, ModulesWatch
<1>3. StandingCounts
  BY DEF Init, StandingCounts
<1>4. PathsStop
  BY DEF Init, PathsStop
<1> QED
  BY <1>1, <1>2, <1>3, <1>4 DEF StopInv

LEMMA PlanStops == StopInv /\ Plan => StopInv'
<1> SUFFICES ASSUME StopInv, Plan PROVE StopInv'
  OBVIOUS
<1>0. /\ StopTypes /\ StandingCounts /\ PathsStop
      /\ missed' = 0 /\ UNCHANGED <<position, still, halted>>
      /\ modules' = [line \in Lines |-> PlannedModule(line)]
  BY DEF StopInv, Plan, PlannedModule
<1>1. StopTypes'
  <2>1. limit' \in Int
    BY <1>0, LimitBounds DEF StopTypes
  <2>2. modules' \in [Lines -> ModuleRecords]
    BY <1>0, PlanWatches
  <2> QED
    BY <1>0, <2>1, <2>2, Bounds DEF StopTypes
<1>2. ModulesWatch'
  <2> SUFFICES ASSUME NEW line \in Lines
               PROVE  (modules[line] = Absent \/ \E s \in Places(line) : WatchedBy(modules[line], s))'
    BY DEF ModulesWatch
  <2>1. modules'[line] = PlannedModule(line)
    BY <1>0
  <2>2. CASE PlannedModule(line) = Absent
    BY <2>1, <2>2 DEF Absent
  <2>3. CASE PlannedModule(line) # Absent
    <3>1. PICK s \in Places(line), m \in ModuleRecords :
            m = PlannedModule(line) /\ WatchedBy(m, s)'
      BY <2>3, PlanWatches
    <3>2. WatchedBy(modules[line], s)'
      BY <2>1, <3>1 DEF WatchedBy
    <3> QED
      BY <3>2 DEF Places
  <2> QED
    BY <2>2, <2>3
<1>3. StandingCounts'
  BY <1>0 DEF StandingCounts, AllPlaces, Places
<1>4. PathsStop'
  <2> SUFFICES ASSUME NEW s \in AllPlaces, s < limit' \/ s < position
               PROVE  s \in halted
    BY <1>0 DEF PathsStop, AllPlaces, Places
  <2>1. PICK line \in Lines : s \in Places(line)
    BY DEF AllPlaces
  <2>2. s \in Nat /\ position \in Nat
    BY <1>0, <2>1, PlacesApart DEF StopTypes
  <2>3. CASE s < position
    BY <1>0, <2>3 DEF PathsStop
  <2>4. CASE position <= s
    BY <2>1, <2>2, <2>4, PlanWatches
  <2> QED
    BY <2>2, <2>3, <2>4
<1> QED
  BY <1>1, <1>2, <1>3, <1>4 DEF StopInv

(* Time passes for the modules. *)
LEMMA TimeTypes ==
  ASSUME StopTypes, TimePasses
  PROVE  /\ missed' = missed + 1 /\ missed' \in 0..(MaxMissed + 1) /\ limit' = limit
         /\ modules' \in [Lines -> ModuleRecords]
         /\ \A line \in Lines :
              /\ modules'[line].state = modules[line].state
              /\ modules[line] = Absent => modules'[line] = Absent
              /\ modules[line].state = "STOPPED" =>
                   modules'[line].stopped_for = LongerBy1(modules[line].stopped_for)
<1>1. missed' = missed + 1 /\ missed' \in 0..(MaxMissed + 1) /\ limit' = limit
  BY Bounds DEF TimePasses, StopTypes
<1>2. ASSUME NEW line \in Lines
      PROVE  /\ modules'[line] \in ModuleRecords
             /\ modules'[line].state = modules[line].state
             /\ modules[line] = Absent => modules'[line] = Absent
             /\ modules[line].state = "STOPPED" =>
                  modules'[line].stopped_for = LongerBy1(modules[line].stopped_for)
  <2> DEFINE module == modules[line]
  <2>1. module \in ModuleRecords
    BY DEF StopTypes
  <2>2. modules'[line] = IF module.state = "STOPPED"
                         THEN [module EXCEPT !.stopped_for = LongerBy1(@)] ELSE module
    BY DEF TimePasses
  <2>3. module.stopped_for \in 0..LongestStop
    BY <2>1 DEF ModuleRecords
  <2>4. LongerBy1(module.stopped_for) \in 0..LongestStop
    BY <2>3, Longer
  <2> HIDE DEF module
  <2>5. CASE module.state = "STOPPED"
    <3>1. /\ modules'[line].state = "STOPPED"
          /\ modules'[line].stopped_for = LongerBy1(module.stopped_for)
          /\ modules'[line] \in ModuleRecords
      BY <2>1, <2>2, <2>4, <2>5 DEF ModuleRecords
    <3> QED
      BY <2>5, <3>1 DEF module, Absent
  <2>6. CASE module.state # "STOPPED"
    BY <2>1, <2>2, <2>6 DEF module
  <2> QED
    BY <2>5, <2>6
<1>3. modules' \in [Lines -> ModuleRecords]
  <2>1. modules' = [line \in Lines |-> modules'[line]]
    BY DEF TimePasses
  <2> QED
    BY <1>2, <2>1
<1> QED
  BY <1>1, <1>2, <1>3

(* A stopped module: while the vehicle creeps, its path ends at the line, *)
(* and the module has been stopped since the plan before; while it stands, *)
(* it stands as long as the module is stopped.                             *)
LEMMA TimeStops ==
  ASSUME StopTypes, Drive \/ Stand, NEW s \in Nat, NEW n \in 0..LongestStop,
         StoppedAt(s, n)
  PROVE  StoppedAt(s, LongerBy1(n))'
<1>0. /\ position \in Nat /\ limit \in Int /\ missed \in Nat /\ still \in 0..LongestStop
      /\ missed' = missed + 1 /\ limit' = limit
      /\ LongerBy1(n) \in 0..LongestStop /\ LongerBy1(n) <= n + 1
  BY TimeTypes, Longer DEF StopTypes, Drive, Stand
<1> DEFINE k == LongerBy1(n)
<1>1. k' = k
  BY DEF LongerBy1, LongestStop
<1>2. /\ s < position + HoldMargin /\ (MaxMissed >= RequiredDuration => s \in halted)
      /\ \/ limit <= s /\ n <= missed
         \/ limit <= position /\ n <= still + MaxMissed + 1
  BY DEF StoppedAt
<1>3. CASE Drive
  <2>1. position < limit /\ position' = position + 1 /\ halted' = halted
    BY <1>3 DEF Drive
  <2>2. limit <= s /\ k <= missed + 1
    BY <1>0, <1>2, <2>1
  <2>3. s < position' + HoldMargin
    BY <1>0, <1>2, <2>1, Bounds
  <2> HIDE DEF k
  <2>4. StoppedAt(s, k)'
    BY <1>0, <1>1, <1>2, <2>1, <2>2, <2>3 DEF StoppedAt
  <2> QED
    BY <2>4 DEF k
<1>4. CASE Stand
  <2>1. /\ position' = position /\ halted \subseteq halted' /\ still' = LongerBy1(still)
    BY <1>4 DEF Stand
  <2>2. CASE limit <= s /\ n <= missed
    <3>1. k <= missed + 1
      BY <1>0, <2>2
    <3> HIDE DEF k
    <3>2. StoppedAt(s, k)'
      BY <1>0, <1>1, <1>2, <2>1, <2>2, <3>1 DEF StoppedAt
    <3> QED
      BY <3>2 DEF k
  <2>3. CASE limit <= position /\ n <= still + MaxMissed + 1
    <3>1. still' = still + 1 \/ (still' = LongestStop /\ LongestStop \in Nat)
      BY <1>0, <2>1, Longer
    <3>2. k <= still' + MaxMissed + 1
      BY <1>0, <2>3, <3>1, Bounds
    <3> HIDE DEF k
    <3>3. StoppedAt(s, k)'
      BY <1>0, <1>1, <1>2, <2>1, <2>3, <3>2 DEF StoppedAt
    <3> QED
      BY <3>3 DEF k
  <2> QED
    BY <1>2, <2>2, <2>3
<1> QED
  BY <1>3, <1>4

LEMMA TimeWatches ==
  ASSUME StopInv, Drive \/ Stand
  PROVE  ModulesWatch'
<1>0. StopTypes /\ ModulesWatch /\ TimePasses
  BY DEF StopInv, Drive, Stand
<1> SUFFICES ASSUME NEW line \in Lines
             PROVE  (modules[line] = Absent \/ \E s \in Places(line) : WatchedBy(modules[line], s))'
  BY DEF ModulesWatch
<1>1. CASE modules[line] = Absent
  <2>1. modules'[line] = Absent
    BY <1>0, <1>1, TimeTypes
  <2> QED
    BY <2>1 DEF Absent
<1>2. CASE modules[line] # Absent
  <2>1. PICK s \in Places(line) : WatchedBy(modules[line], s)
    BY <1>0, <1>2 DEF ModulesWatch
  <2>2. s \in Nat
    BY PlacesApart
  <2>3. InReach(s)'
    <3>1. /\ position' = position \/ position' = position + 1
          /\ missed' = missed + 1
      BY <1>0, TimeTypes DEF Drive, Stand
    <3>2. InReach(s)
      BY <2>1 DEF WatchedBy
    <3> QED
      BY <1>0, <2>2, <3>1, <3>2, Bounds DEF InReach, StopTypes
  <2>4. halted \subseteq halted'
    BY DEF Drive, Stand
  <2>5. modules'[line].state = modules[line].state
    BY <1>0, TimeTypes
  <2>6. ASSUME modules[line].state = "STOPPED"
        PROVE  StoppedAt(s, modules[line].stopped_for)'
    <3>1. PICK n \in 0..LongestStop : n = modules[line].stopped_for
      BY <1>0 DEF StopTypes, ModuleRecords
    <3>2. StoppedAt(s, n)
      BY <2>1, <2>6, <3>1 DEF WatchedBy
    <3>3. StoppedAt(s, LongerBy1(n))'
      BY <1>0, <2>2, <3>2, TimeStops
    <3>4. modules'[line].stopped_for = LongerBy1(n)
      BY <1>0, <2>6, <3>1, TimeTypes
    <3>5. LongerBy1(n)' = LongerBy1(n)
      BY DEF LongerBy1, LongestStop
    <3> QED
      BY <3>3, <3>4, <3>5 DEF StoppedAt
  <2>7. WatchedBy(modules[line], s)'
    BY <2>1, <2>3, <2>4, <2>5, <2>6 DEF WatchedBy
  <2> QED
    BY <2>7 DEF Places
<1> QED
  BY <1>1, <1>2

LEMMA DriveStops == StopInv /\ Drive => StopInv'
<1> SUFFICES ASSUME StopInv, Drive PROVE StopInv'
  OBVIOUS
<1>0. /\ StopTypes /\ PathsStop /\ TimePasses
      /\ position < limit /\ position' = position + 1 /\ still' = 0 /\ halted' = halted
  BY DEF StopInv, Drive
<1>1. StopTypes'
  BY <1>0, TimeTypes, Longer DEF StopTypes
<1>2. ModulesWatch'
  BY TimeWatches
<1>3. StandingCounts'
  BY <1>0 DEF StandingCounts
<1>4. PathsStop'
  <2> SUFFICES ASSUME NEW s \in AllPlaces, s < limit \/ s < position + 1
               PROVE  s \in halted
    BY <1>0, TimeTypes DEF PathsStop, AllPlaces, Places
  <2>1. s \in Nat
    BY PlacesApart DEF AllPlaces
  <2>2. s < limit
    BY <1>0, <2>1 DEF StopTypes
  <2> QED
    BY <1>0, <2>2 DEF PathsStop
<1> QED
  BY <1>1, <1>2, <1>3, <1>4 DEF StopInv

LEMMA StandStops == StopInv /\ Stand => StopInv'
<1> SUFFICES ASSUME StopInv, Stand PROVE StopInv'
  OBVIOUS
<1>0. /\ StopTypes /\ PathsStop /\ TimePasses
      /\ position' = position /\ halted \subseteq halted' /\ still' = LongerBy1(still)
      /\ limit' = limit
  BY DEF StopInv, Stand, TimePasses
<1>1. StopTypes'
  BY <1>0, TimeTypes, Longer DEF StopTypes
<1>2. ModulesWatch'
  BY TimeWatches
<1>3. StandingCounts'
  BY <1>0 DEF Stand, StandingCounts, AllPlaces, Places
<1>4. PathsStop'
  BY <1>0 DEF PathsStop, AllPlaces, Places
<1> QED
  BY <1>1, <1>2, <1>3, <1>4 DEF StopInv

LEMMA RestartStops == StopInv /\ Restart => StopInv'
<1> SUFFICES ASSUME StopInv, Restart PROVE StopInv'
  OBVIOUS
<1>0. /\ StopTypes /\ PathsStop
      /\ modules' = [line \in Lines |-> Absent] /\ still' = 0
      /\ UNCHANGED <<position, limit, missed, halted>>
  BY DEF StopInv, Restart
<1>1. StopTypes'
  <2>1. Absent \in ModuleRecords /\ LongestStop \in Nat
    BY Longer DEF Absent, ModuleRecords
  <2> QED
    BY <1>0, <2>1 DEF StopTypes
<1>2. ModulesWatch'
  BY <1>0 DEF ModulesWatch, Absent
<1>3. StandingCounts'
  BY <1>0 DEF StandingCounts
<1>4. PathsStop'
  BY <1>0 DEF PathsStop, AllPlaces, Places
<1> QED
  BY <1>1, <1>2, <1>3, <1>4 DEF StopInv

LEMMA StopInvariance == Spec => []StopInv
<1>1. StopInv /\ [Next]_vars => StopInv'
  <2> SUFFICES ASSUME StopInv, [Next]_vars PROVE StopInv'
    OBVIOUS
  <2>1. CASE Plan
    BY <2>1, PlanStops
  <2>2. CASE Drive
    BY <2>2, DriveStops
  <2>3. CASE Stand
    BY <2>3, StandStops
  <2>4. CASE Restart
    BY <2>4, RestartStops
  <2>5. CASE UNCHANGED vars
    <3> USE <2>5 DEF vars
    <3>1. StopTypes'
      BY DEF StopInv, StopTypes
    <3>2. ModulesWatch'
      BY DEF StopInv, ModulesWatch, WatchedBy, StoppedAt, InReach, Absent, Places
    <3>3. StandingCounts'
      BY DEF StopInv, StandingCounts, AllPlaces, Places
    <3>4. PathsStop'
      BY DEF StopInv, PathsStop, AllPlaces, Places
    <3> QED
      BY <3>1, <3>2, <3>3, <3>4 DEF StopInv
  <2> QED
    BY <2>1, <2>2, <2>3, <2>4, <2>5 DEF Next
<1> QED
  BY <1>1, InitStops, PTL DEF Spec

(* The variables keep their types: the module of a line never counts its   *)
(* stop beyond the longest one there is (modifyPathVelocity).              *)
THEOREM StopLineTypesHold == Spec => []StopTypes
<1>1. StopInv => StopTypes
  BY DEF StopInv
<1> QED
  BY <1>1, StopInvariance, PTL

(* Whatever the planner misses, whenever it is restarted and wherever the  *)
(* vehicle stands, no stop line is passed before the vehicle has stood     *)
(* there: the stop in the path, the state of the module and the time count *)
(* of modifyPathVelocity.                                                  *)
THEOREM NoLineIsMissed == Spec => []StopsAtEveryLine
<1>1. StopInv => StopsAtEveryLine
  BY DEF StopInv, PathsStop, StopsAtEveryLine
<1> QED
  BY <1>1, StopInvariance, PTL

=============================================================================
