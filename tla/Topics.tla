-------------------------------- MODULE Topics --------------------------------
(***************************************************************************)
(* A reliable topic of depth 1 between one publisher and one subscription. *)
(*                                                                         *)
(* One message waits at the writer and one at the reader, so at most two   *)
(* are under way.  An older one may be overwritten by a newer one; the     *)
(* newest is not lost.                                                     *)
(***************************************************************************)
EXTENDS Integers, Sequences, SequencesExt

(* Fault: the newest message may be the one that is lost. *)
SentMayLoseLast(queue, msgs) ==
  LET all == queue \o msgs
  IN  IF Len(all) < 2 THEN {all}
      ELSE {<<all[i], all[i + 1]>> : i \in 1..(Len(all) - 1)}

(* What can be under way of a topic after publishing msgs: depth 1 keeps   *)
(* one message at the writer and one at the reader, the newest is kept.    *)
Sent(queue, msgs) ==
  LET all == queue \o msgs
  IN  IF Len(all) < 2 THEN {all}
      ELSE {<<all[i], Last(all)>> : i \in 1..(Len(all) - 1)}

(* A message is taken, with it the older ones of its topic are gone.       *)
Taken(queue, i) == SubSeq(queue, i + 1, Len(queue))
=============================================================================
