-------------------------- MODULE MCTemporalTrajectory --------------------------
(***************************************************************************)
(* TemporalTrajectory with a time offset to either side.                   *)
(***************************************************************************)
EXTENDS TemporalTrajectory

MCOffsets == {-1, 1}
=============================================================================
