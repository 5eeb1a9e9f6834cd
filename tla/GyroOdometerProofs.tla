-------------------------- MODULE GyroOdometerProofs --------------------------
(***************************************************************************)
(* Theorems about GyroOdometer, for every timeout and every latency.       *)
(***************************************************************************)
EXTENDS GyroOdometer, TLAPS

(* A sample waits only while the other input sends nothing: it is as close *)
(* to the newest sample of the other input as when it came.                *)
WaitingInv ==
  \A i, j \in Inputs : i # j =>
    \A s \in queue[i] :
      /\ s <= latest[i] /\ i \in arrived
      /\ latest[i] - latest[j] <= Timeout /\ latest[j] - s <= Timeout

(* What was fused is older than what waits or may still come.              *)
UsedInv ==
  \A i \in Inputs : \A old \in fused[i] :
    old <= latest[i] /\ i \in arrived /\ \A s \in queue[i] : old < s

IInv == GyroTypeOK /\ WaitingInv /\ UsedInv /\ FusedAreClose

InOrder ==
  \A input \in Inputs :
    /\ fused'[input] # {}
    /\ \A old \in fused[input], new \in fused'[input] : old < new
-----------------------------------------------------------------------------
LEMMA Initially == Init => IInv
<1> SUFFICES ASSUME Init PROVE IInv
  OBVIOUS
<1>1. /\ now = 0 /\ arrived = {}
      /\ \A i \in Inputs : queue[i] = {} /\ fused[i] = {} /\ latest[i] = 0
  BY DEF Init, NothingWaits
<1>2. GyroTypeOK
  BY <1>1, GyroAssumption DEF Init, GyroTypeOK, NothingWaits, Inputs
<1>3. WaitingInv /\ UsedInv /\ FusedAreClose
  BY <1>1 DEF WaitingInv, UsedInv, FusedAreClose
<1> QED BY <1>2, <1>3 DEF IInv

LEMMA TickStep == IInv /\ Tick => IInv' /\ fused' = fused
<1> SUFFICES ASSUME IInv, Tick PROVE IInv' /\ fused' = fused
  OBVIOUS
<1>1. now' \in 0..MaxTime /\ 0..now \subseteq 0..now'
  BY GyroAssumption DEF IInv, GyroTypeOK, Tick
<1>2. GyroTypeOK'
  BY <1>1 DEF IInv, GyroTypeOK, Tick
<1>3. WaitingInv' /\ UsedInv' /\ FusedAreClose' /\ fused' = fused
  BY DEF IInv, Tick, WaitingInv, UsedInv, FusedAreClose
<1> QED BY <1>2, <1>3 DEF IInv

(* Whatever a sample leads to: the queues are emptied, the sample waits,   *)
(* or everything is fused.                                                 *)
LEMMA SampleStep ==
  ASSUME IInv, NEW input \in Inputs, NEW stamp \in 0..now, OnSample(input, stamp)
  PROVE  IInv' /\ (fused' = fused \/ InOrder)
<1> DEFINE waiting == [queue EXCEPT ![input] = @ \cup {stamp}]
<1> USE DEF IInv
<1>1. PICK other \in Inputs : other # input /\ Inputs = {input, other}
  BY DEF Inputs
<1>2. /\ now' = now /\ now \in 0..MaxTime /\ arrived' = arrived \cup {input}
      /\ latest' \in [Inputs -> 0..now]
      /\ latest'[input] = stamp /\ latest'[other] = latest[other]
      /\ \A i \in Inputs : latest[i] \in Int /\ latest'[i] \in Int
      /\ input \in arrived => stamp > latest[input]
  BY <1>1, GyroAssumption DEF OnSample, GyroTypeOK
<1>3. /\ waiting \in [Inputs -> SUBSET (0..now)]
      /\ waiting[input] = queue[input] \cup {stamp} /\ waiting[other] = queue[other]
      /\ queue[input] = {} \/ queue[other] = {}
      /\ \A i \in Inputs : queue[i] \subseteq Int /\ waiting[i] \subseteq Int
      /\ \A i \in Inputs : fused[i] \subseteq Int
  BY <1>1, GyroAssumption DEF GyroTypeOK
<1>4. \A i \in Inputs : \A old \in fused[i] :
        old <= latest'[i] /\ i \in arrived' /\ \A s \in waiting[i] : old < s
  BY <1>1, <1>2, <1>3 DEF UsedInv
<1>5. /\ NothingWaits \in [Inputs -> SUBSET (0..now)]
      /\ \A i \in Inputs : NothingWaits[i] = {}
  BY DEF NothingWaits
<1>6. CASE queue' = NothingWaits /\ fused' = fused
  <2>1. GyroTypeOK'
    BY <1>2, <1>5, <1>6 DEF GyroTypeOK
  <2>2. WaitingInv' /\ UsedInv' /\ FusedAreClose'
    BY <1>4, <1>5, <1>6 DEF WaitingInv, UsedInv, FusedAreClose
  <2> QED BY <2>1, <2>2, <1>6
<1>7. ASSUME ~Stale(latest')
      PROVE  /\ stamp - latest[other] <= Timeout /\ latest[other] - stamp <= Timeout
             /\ Timeout \in Int
  BY <1>1, <1>2, <1>7, GyroAssumption DEF Stale
<1>8. CASE /\ ~Stale(latest') /\ arrived' = Inputs
           /\ \E i \in Inputs : waiting[i] = {}
           /\ queue' = waiting /\ fused' = fused
  <2>1. queue[other] = {}
    BY <1>1, <1>3, <1>8
  <2>2. GyroTypeOK'
    <3>1. \A i \in Inputs : queue'[i] \cap fused'[i] = {}
      BY <1>3, <1>4, <1>8
    <3> QED BY <3>1, <1>2, <1>3, <1>8 DEF GyroTypeOK
  <2>3. WaitingInv'
    <3>1. \A s \in queue[input] : s <= latest[input] /\ input \in arrived /\ latest[other] - s <= Timeout
      BY <1>1 DEF WaitingInv
    <3> QED BY <3>1, <2>1, <1>1, <1>2, <1>3, <1>7, <1>8 DEF WaitingInv
  <2>4. UsedInv' /\ FusedAreClose'
    BY <1>4, <1>8 DEF UsedInv, FusedAreClose
  <2> QED BY <2>2, <2>3, <2>4, <1>8
<1>9. CASE /\ ~Stale(latest') /\ arrived' = Inputs
           /\ \A i \in Inputs : waiting[i] # {}
           /\ queue' = NothingWaits /\ fused' = waiting
  <2>1. queue[other] # {} /\ queue[input] = {} /\ waiting[input] = {stamp}
    BY <1>1, <1>3, <1>9
  <2>2. GyroTypeOK'
    BY <1>2, <1>3, <1>5, <1>9 DEF GyroTypeOK
  <2>3. WaitingInv'
    BY <1>5, <1>9 DEF WaitingInv
  <2>4. \A s \in queue[other] :
          /\ s <= latest[other] /\ other \in arrived
          /\ latest[other] - latest[input] <= Timeout /\ latest[input] - s <= Timeout
    BY <1>1 DEF WaitingInv
  <2>5. UsedInv'
    BY <2>1, <2>4, <1>1, <1>2, <1>3, <1>5, <1>9 DEF UsedInv
  <2>6. FusedAreClose'
    <3>1. \A s \in queue[other] : s - stamp <= 3 * Timeout /\ stamp - s <= 3 * Timeout
      BY <2>4, <1>1, <1>2, <1>3, <1>7, <1>9, GyroAssumption
    <3>2. \A s, t \in queue[other] : s - t <= 3 * Timeout
      BY <2>4, <1>1, <1>2, <1>3, <1>7, <1>9, GyroAssumption
    <3>3. stamp - stamp <= 3 * Timeout
      BY <1>2, GyroAssumption
    <3> QED BY <3>1, <3>2, <3>3, <2>1, <1>1, <1>3, <1>9 DEF FusedAreClose
  <2>7. InOrder
    BY <1>3, <1>4, <1>9 DEF InOrder
  <2> QED BY <2>2, <2>3, <2>5, <2>6, <2>7
<1> QED
  BY <1>6, <1>8, <1>9 DEF OnSample, ConcatGyroAndOdometer, Fuse

LEMMA Step == IInv /\ [Next]_vars => IInv' /\ (fused' = fused \/ InOrder)
<1> SUFFICES ASSUME IInv, [Next]_vars PROVE IInv' /\ (fused' = fused \/ InOrder)
  OBVIOUS
<1>1. CASE Tick
  BY <1>1, TickStep
<1>2. ASSUME NEW input \in Inputs, NEW stamp \in 0..now, OnSample(input, stamp)
      PROVE  IInv' /\ (fused' = fused \/ InOrder)
  BY <1>2, SampleStep
<1>3. CASE UNCHANGED vars
  BY <1>3 DEF vars, IInv, GyroTypeOK, WaitingInv, UsedInv, FusedAreClose
<1> QED BY <1>1, <1>2, <1>3 DEF Next

THEOREM GyroInvariance == Spec => []IInv
BY Initially, Step, PTL DEF Spec

(* Types, and: what waits was not fused before, and one side waits.        *)
THEOREM GyroTypesHold == Spec => []GyroTypeOK
BY GyroInvariance, PTL DEF IInv

(* The samples of an output are at most three timeouts apart, although     *)
(* each input is compared with the newest of the other only.               *)
THEOREM FusedAlwaysClose == Spec => []FusedAreClose
BY GyroInvariance, PTL DEF IInv

(* Outputs are made of both inputs and of newer samples than those before. *)
THEOREM FusedAlwaysInOrder == Spec => FusedInOrder
<1>1. IInv /\ [Next]_vars =>
        [fused' # fused =>
           \A input \in Inputs :
             /\ fused'[input] # {}
             /\ \A old \in fused[input], new \in fused'[input] : old < new]_vars
  BY Step DEF InOrder
<1> QED BY <1>1, GyroInvariance, PTL DEF Spec, FusedInOrder
=============================================================================
