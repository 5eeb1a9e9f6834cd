--------------------------- MODULE MCPoseInitializer ---------------------------
(***************************************************************************)
(* PoseInitializer with two poses, one of them user defined.  No           *)
(* measurement passes the EKF's queues here (see EkfUpdates).              *)
(***************************************************************************)
EXTENDS PoseInitializer

CONSTANTS p1, p2

MCPoses == {p1, p2}
MCQueues == [k \in Kinds |-> 1]
=============================================================================
