--------------------------- MODULE DelayCompensation ---------------------------
(***************************************************************************)
(* The delay compensation of the EKF localizer: the filter keeps its last  *)
(* ExtendStateStep predictions, and a table of how long ago each was made  *)
(* tells which of them a late measurement belongs to.                      *)
(*                                                                         *)
(* The operators take and return a record:                                 *)
(*   slots  what each state of the filter is: the time of the update that  *)
(*          predicted it, FromReset for a copy of the initial pose         *)
(*   table  accumulated_delay_times_                                       *)
(*   last   last_predict_time_sec_, NoTime when unset                      *)
(*   dt     ekf_dt_                                                        *)
(***************************************************************************)
EXTENDS Integers, Sequences

CONSTANTS ExtendStateStep,
          MaxDt,  \* an update that is later counts as this late
          Never   \* the 1.0E15 the table starts with

ASSUME DelayAssumption ==
  /\ ExtendStateStep \in Nat \ {0}
  /\ MaxDt \in Nat /\ Never \in Nat

NoTime == -1
FromReset == -1

Slots == 1..ExtendStateStep

InitialFilter ==
  [slots |-> [i \in Slots |-> FromReset], table |-> [i \in Slots |-> Never],
   last |-> NoTime, dt |-> 0]

(* kalman_filter_.init: the states are the initial pose, all of them.      *)
Reset(filter) == [filter EXCEPT !.slots = [i \in Slots |-> FromReset]]

(* The filter's part of activate(true). *)
ForgetLast(filter) == [filter EXCEPT !.last = NoTime]

(* Fault: the entries are not shifted. *)
AccumulatedInPlace(table, dt) ==
  [i \in Slots |-> IF i = 1 THEN 0 ELSE table[i] + dt]

(* accumulate_delay_time *)
Accumulated(table, dt) ==
  [i \in Slots |-> IF i = 1 THEN 0 ELSE table[i - 1] + dt]

(* Steps 3 and 4 of update_step: the first update after an activation      *)
(* predicts with the dt of before and leaves the table alone.  Time does   *)
(* not go back here.                                                       *)
Predict(filter, now) ==
  LET elapsed == now - filter.last
      dt == IF filter.last = NoTime THEN filter.dt
            ELSE IF elapsed > MaxDt THEN MaxDt ELSE elapsed
  IN  [slots |-> [i \in Slots |-> IF i = 1 THEN now ELSE filter.slots[i - 1]],
       table |-> IF filter.last = NoTime THEN filter.table
                 ELSE Accumulated(filter.table, dt),
       last |-> now, dt |-> dt]

(* Fault: the entry that is not younger is taken, close or not. *)
FindLowerDelayTimeIndex(table, delay) ==
  IF delay > table[ExtendStateStep] THEN ExtendStateStep
  ELSE (CHOOSE i \in Slots : table[i] >= delay /\ \A j \in 1..(i - 1) : table[j] < delay) - 1

(* find_closest_delay_time_index, from 0: ExtendStateStep when the delay   *)
(* is beyond the table.                                                    *)
FindClosestDelayTimeIndex(table, delay) ==
  IF delay > table[ExtendStateStep] THEN ExtendStateStep
  ELSE LET lower == CHOOSE i \in Slots :
                      table[i] >= delay /\ \A j \in 1..(i - 1) : table[j] < delay
       IN  IF lower = 1 THEN 0
           ELSE IF delay - table[lower - 1] < table[lower] - delay THEN lower - 2
           ELSE lower - 1
=============================================================================
