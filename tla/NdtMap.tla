-------------------------------- MODULE NdtMap --------------------------------
(***************************************************************************)
(* The map of the NDT scan matcher and the callbacks that update and match *)
(* against it.                                                             *)
(*                                                                         *)
(* The map update timer, the EKF pose, and the sensor points with the two  *)
(* services run in callback groups of their own, in parallel.  An update   *)
(* holds builder_state_ from its first step to its last, and ndt_ptr_ only *)
(* while it rebuilds the map that scans are matched against.  Positions    *)
(* and map cells lie on a line.                                            *)
(***************************************************************************)
EXTENDS Integers

CONSTANTS Positions,
          Cells,          \* where the point cloud map has cells
          MapRadius, LidarRadius, UpdateDistance

Nowhere == -1

ASSUME MapAssumption ==
  /\ Positions \subseteq Nat /\ Cells \subseteq Nat
  /\ MapRadius \in Nat /\ LidarRadius \in Nat /\ UpdateDistance \in Nat

VARIABLES ndt,            \* the cells of ndt_ptr_
          secondary,      \* the cells of secondary_ndt_ptr
          need_rebuild,
          last_update,    \* last_update_position_
          latest_ekf,     \* latest_ekf_position_
          is_activated,
          work,           \* the update of each caller: step, position, mode
          lost,           \* history: the last answer of the loader was none
          matched         \* history: the cells of the last match

mapVars == <<ndt, secondary, need_rebuild, last_update, lost>>
nodeVars == <<latest_ekf, is_activated>>
vars == <<mapVars, nodeVars, work, matched>>

(* The timer and the alignment service call for updates. *)
Callers == {"timer", "align"}
Steps == {"idle", "wait", "load", "remove", "swap", "store", "match"}

Distance(p, q) == IF p < q THEN q - p ELSE p - q
Area(p) == {c \in Cells : Distance(c, p) <= MapRadius}

(* What the map loader answers: the cells to add and those to drop.        *)
ToAdd(p, cached) == Area(p) \ cached
ToRemove(p, cached) == cached \ Area(p)

(* should_update_map sets the flag ... *)
FellBehind(p) ==
  last_update = Nowhere \/ Distance(p, last_update) + LidarRadius > MapRadius

(* Fault: the distance that calls for a rebuild calls for updates too. *)
ShouldUpdateLate(p) == FellBehind(p)

(* ... and returns this. *)
ShouldUpdate(p) ==
  last_update = Nowhere \/ Distance(p, last_update) > UpdateDistance

At(w, step) == work[w].step = step
To(w, step) == work' = [work EXCEPT ![w].step = step]

(* builder_state_ and ndt_ptr_ are locked by the update under way.         *)
Updating(w) == work[w].step \in {"load", "remove", "swap", "store"}
BuilderLocked == \E w \in Callers : Updating(w)
NdtLocked == \E w \in Callers : work[w].rebuild /\ work[w].step \in {"load", "remove"}

-----------------------------------------------------------------------------
Init ==
  /\ ndt = {} /\ secondary = {} /\ need_rebuild = TRUE
  /\ last_update = Nowhere /\ latest_ekf = Nowhere
  /\ is_activated = FALSE
  /\ work = [w \in Callers |-> [step |-> "idle", position |-> Nowhere, rebuild |-> FALSE]]
  /\ lost = FALSE
  /\ matched = {}

(* callback_initial_pose *)
OnEkfPose(p) ==
  /\ is_activated
  /\ latest_ekf' = p
  /\ UNCHANGED <<mapVars, is_activated, work, matched>>

(* service_trigger_node, in the group of the scans and the alignment. *)
OnTrigger(activate) ==
  /\ At("align", "idle")
  /\ is_activated' = activate
  /\ UNCHANGED <<mapVars, latest_ekf, work, matched>>

Call(w, p) ==
  /\ At(w, "idle")
  /\ work' = [work EXCEPT ![w] = [step |-> "wait", position |-> p, rebuild |-> FALSE]]
  /\ UNCHANGED <<mapVars, nodeVars, matched>>

(* callback_timer of the node: the position is read before the lock.       *)
OnTimer ==
  /\ is_activated /\ latest_ekf # Nowhere
  /\ Call("timer", latest_ekf)

(* service_ndt_align_main, which takes any position. *)
OnAlign(p) == Call("align", p)

(* update_map_internal, up to the request to the map loader.               *)
BeginUpdate(w, rebuild) ==
  /\ work' = [work EXCEPT ![w].step = "load", ![w].rebuild = rebuild]
  /\ need_rebuild' = rebuild
  /\ ndt' = IF rebuild THEN {} ELSE ndt
  /\ UNCHANGED <<secondary, last_update, lost, nodeVars, matched>>

(* Fault: the service does not wait for an update of the timer. *)
AlignAtOnce ==
  /\ At("align", "wait")
  /\ BeginUpdate("align", need_rebuild)

LockForAlign ==
  /\ At("align", "wait") /\ ~BuilderLocked
  /\ BeginUpdate("align", need_rebuild)

(* callback_timer of the module, with the lock. *)
LockForTimer ==
  LET p == work["timer"].position
      rebuild == need_rebuild \/ FellBehind(p)
  IN  /\ At("timer", "wait") /\ ~BuilderLocked
      /\ \/ ShouldUpdate(p) /\ BeginUpdate("timer", rebuild)
         \/ /\ ~ShouldUpdate(p)
            /\ need_rebuild' = rebuild
            /\ To("timer", "idle")
            /\ UNCHANGED <<ndt, secondary, last_update, lost, nodeVars, matched>>

(* Fault: every update is done on the map that is matched against. *)
TargetOfAll(w) == "ndt"

(* What update_ndt works on. *)
Target(w) == IF work[w].rebuild THEN "ndt" ELSE "secondary"
CellsOf(t) == IF t = "ndt" THEN ndt ELSE secondary

SetTarget(t, cells) ==
  IF t = "ndt" THEN ndt' = cells /\ UNCHANGED secondary
  ELSE secondary' = cells /\ UNCHANGED ndt

(* update_ndt: the loader cannot be reached, or has nothing to change ...  *)
LoadNothing(w) ==
  /\ At(w, "load")
  /\ LET p == work[w].position
         cached == CellsOf(Target(w))
     IN  \/ lost' = TRUE
         \/ lost' = FALSE /\ ToAdd(p, cached) = {} /\ ToRemove(p, cached) = {}
  /\ To(w, "store")
  /\ UNCHANGED <<ndt, secondary, need_rebuild, last_update, nodeVars, matched>>

(* ... or it answers; the new cells are added first ...                    *)
AddCells(w) ==
  LET p == work[w].position
      cached == CellsOf(Target(w))
  IN  /\ At(w, "load")
      /\ ToAdd(p, cached) # {} \/ ToRemove(p, cached) # {}
      /\ SetTarget(Target(w), cached \cup ToAdd(p, cached))
      /\ lost' = FALSE
      /\ To(w, "remove")
      /\ UNCHANGED <<need_rebuild, last_update, nodeVars, matched>>

(* Fault: the cells the area no longer has are kept. *)
RemoveNothing(w) == CellsOf(Target(w))

Remaining(w) ==
  CellsOf(Target(w)) \ ToRemove(work[w].position, CellsOf(Target(w)))

(* ... and the others are removed. *)
RemoveCells(w) ==
  /\ At(w, "remove")
  /\ SetTarget(Target(w), Remaining(w))
  /\ To(w, "swap")
  /\ UNCHANGED <<need_rebuild, last_update, lost, nodeVars, matched>>

(* The rebuilt map is copied, or the extended one published.               *)
Swap(w) ==
  /\ At(w, "swap")
  /\ IF work[w].rebuild
     THEN need_rebuild' = FALSE /\ secondary' = ndt /\ UNCHANGED ndt
     ELSE ndt' = secondary /\ UNCHANGED <<need_rebuild, secondary>>
  /\ To(w, "store")
  /\ UNCHANGED <<last_update, lost, nodeVars, matched>>

(* The position is stored whether the update worked or not. *)
StorePosition(w) ==
  /\ At(w, "store")
  /\ last_update' = work[w].position
  /\ To(w, IF w = "align" THEN "match" ELSE "idle")
  /\ UNCHANGED <<ndt, secondary, need_rebuild, lost, nodeVars, matched>>

MatchAgainstMap == matched' = ndt /\ UNCHANGED <<mapVars, nodeVars>>

(* The alignment, on whatever map there is by then; none is an error.      *)
Align ==
  /\ At("align", "match") /\ ~NdtLocked
  /\ MatchAgainstMap
  /\ To("align", "idle")

(* callback_sensor_points, with points and a pose of its time.             *)
OnSensorPoints ==
  /\ At("align", "idle") /\ ~NdtLocked
  /\ is_activated /\ latest_ekf # Nowhere /\ ndt # {}
  /\ MatchAgainstMap
  /\ UNCHANGED work

UpdateStep(w) ==
  LoadNothing(w) \/ AddCells(w) \/ RemoveCells(w) \/ Swap(w) \/ StorePosition(w)

Next ==
  \/ \E p \in Positions : OnEkfPose(p) \/ OnAlign(p)
  \/ \E activate \in BOOLEAN : OnTrigger(activate)
  \/ OnTimer \/ LockForTimer \/ LockForAlign \/ Align \/ OnSensorPoints
  \/ \E w \in Callers : UpdateStep(w)

(* The timer fires again and again, the loader answers or is known to be   *)
(* away, and the lock the timer waits for is not taken by others for ever. *)
Fairness ==
  /\ WF_vars(OnTimer) /\ SF_vars(LockForTimer)
  /\ \A w \in Callers : WF_vars(UpdateStep(w))

Spec == Init /\ [][Next]_vars /\ Fairness

-----------------------------------------------------------------------------
(* Types; the updates of the timer and the service never overlap.          *)
NdtTypeOK ==
  /\ ndt \subseteq Cells /\ secondary \subseteq Cells
  /\ need_rebuild \in BOOLEAN /\ lost \in BOOLEAN /\ is_activated \in BOOLEAN
  /\ {last_update, latest_ekf} \subseteq Positions \cup {Nowhere}
  /\ work \in [Callers -> [step : Steps, position : Positions \cup {Nowhere},
                           rebuild : BOOLEAN]]
  /\ matched \subseteq Cells
  /\ \A v, w \in Callers : Updating(v) /\ Updating(w) => v = w

(* Between updates the map is the one around last_update_position_, from   *)
(* which out_of_map_range tells whether a scan still lies in it, unless    *)
(* the loader failed the last time: rebuilds that fail, extensions and     *)
(* updates asked for by the service and the timer included.                *)
MapIsWhereItSays ==
  ~BuilderLocked /\ ~lost /\ last_update # Nowhere => ndt = Area(last_update)

(* No scan and no alignment meets a map whose cells are being changed: it  *)
(* is around one position, or it is empty and the match is refused.        *)
MatchesWholeMaps == matched = {} \/ \E p \in Positions : matched = Area(p)

(* A vehicle that localizes at a place far from the last update gets its   *)
(* update, even if the service keeps asking for other places.              *)
MapFollows ==
  \A p \in Positions :
    LET Far == last_update = Nowhere \/ Distance(p, last_update) > UpdateDistance
        Away == is_activated /\ latest_ekf = p /\ Far
    IN  Away ~> ~Away

=============================================================================
