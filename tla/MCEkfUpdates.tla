----------------------------- MODULE MCEkfUpdates -----------------------------
(***************************************************************************)
(* EkfUpdates with queues of two: a pose is used in two updates and a      *)
(* twist in one, and the filter keeps three predictions.                   *)
(***************************************************************************)
EXTENDS EkfUpdates

MCSmoothingSteps == [k \in Kinds |-> IF k = "pose" THEN 2 ELSE 1]
MCMaxQueueSize == [k \in Kinds |-> IF k = "pose" THEN 2 ELSE 1]
=============================================================================
