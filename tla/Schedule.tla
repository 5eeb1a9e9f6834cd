-------------------------------- MODULE Schedule --------------------------------
(***************************************************************************)
(* What a TemporalTrajectory is to its user: where along the path the      *)
(* vehicle is at which time, measured from where it starts, and what each  *)
(* call of the user makes of it.  A call is part of the specification,     *)
(* with its arguments: what implements it has to do what it was asked to.  *)
(***************************************************************************)
EXTENDS Integers

CONSTANTS Span,       \* how long a trajectory lasts when it is built
          Durations,  \* of windows and stops
          Offsets     \* of the time

VARIABLES plan,    \* the place at each time
          offset,  \* of the time, that the user set last
          call     \* the last call

(* The vehicle goes forward, one step of the path in a step of time.       *)
Rides ==
  {ride \in [0..Span -> 0..Span] :
     /\ ride[0] = 0
     /\ \A t, u \in 0..Span : t <= u => ride[u] - ride[t] \in 0..(u - t)}

Times == DOMAIN plan
Places == {plan[t] : t \in Times}

NoCall == [op |-> "build", at |-> 0, by |-> 0, odd |-> FALSE]

Init == plan \in Rides /\ offset = 0 /\ call = NoCall

(* "odd" tells a call from the one before, so that no call is a stutter.   *)
Call(op, at, by) == call' = [op |-> op, at |-> at, by |-> by, odd |-> ~call.odd]

(* What is left of a window is measured from where it starts; it ends with *)
(* the trajectory at the latest.                                           *)
CropTime(t, duration) ==
  /\ Call("crop_time", t, duration)
  /\ plan' = [u \in {v \in Times : t <= v /\ v <= t + duration} |-> plan[u] - plan[t]]
  /\ UNCHANGED offset

(* All the time spent between the two places remains, stops included.      *)
CropDistance(s, length) ==
  /\ Call("crop_distance", s, length)
  /\ plan' = [u \in {v \in Times : plan[v] \in s..(s + length)} |-> plan[u] - s]
  /\ UNCHANGED offset

(* The vehicle comes no further; the time goes on.                         *)
StopAt(s) ==
  /\ Call("set_stopline", s, 0)
  /\ plan' = [t \in Times |-> IF plan[t] < s THEN plan[t] ELSE s]
  /\ UNCHANGED offset

(* From its arrival at the place on, the vehicle is late.                  *)
Hold(s, duration) ==
  /\ Call("insert_stop_duration", s, duration)
  /\ \E arrival \in Times :
       /\ plan[arrival] = s
       /\ \A t \in Times : t < arrival => plan[t] < s
       /\ LET delayed == {t + duration : t \in {u \in Times : u > arrival}}
          IN  plan' = [t \in {u \in Times : u <= arrival}
                               \cup arrival..(arrival + duration) \cup delayed |->
                         IF t <= arrival THEN plan[t]
                         ELSE IF t <= arrival + duration THEN s
                         ELSE plan[t - duration]]
  /\ UNCHANGED offset

(* An offset takes the place of the one before; the times told to the user *)
(* are those of the path less the offset.                                  *)
SetOffset(new) ==
  /\ Call("set_time_offset", new, 0)
  /\ offset' = new
  /\ plan' = [t \in {u + offset - new : u \in Times} |-> plan[t - offset + new]]

(* The trajectory is built again from what it tells: to the user nothing   *)
(* happens, but that the offset is spent.                                  *)
Rebuild ==
  /\ Call("add_offset", 0, 0)
  /\ offset' = 0
  /\ UNCHANGED plan

Next ==
  \/ \E t \in Times, duration \in Durations : CropTime(t, duration)
  \/ \E s \in Places, length \in 0..Span : CropDistance(s, length)
  \/ \E s \in Places : StopAt(s) \/ \E duration \in Durations : Hold(s, duration)
  \/ \E new \in Offsets : SetOffset(new)
  \/ Rebuild

Spec == Init /\ [][Next]_<<plan, offset, call>>
=============================================================================
