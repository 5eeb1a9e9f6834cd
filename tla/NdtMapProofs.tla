----------------------------- MODULE NdtMapProofs -----------------------------
(***************************************************************************)
(* Theorems about NdtMap: the invariants hold for every set of positions   *)
(* and cells and all distances.                                            *)
(***************************************************************************)
EXTENDS NdtMap, TLAPS

(* Who is at work has a position, and an update the mode of its time.      *)
WorkInv ==
  \A w \in Callers :
    /\ ~At(w, "idle") => work[w].position \in Positions
    /\ Updating(w) /\ ~At(w, "store") => work[w].rebuild = need_rebuild

(* What the map under construction has at each step of an update.          *)
ProgressInv ==
  \A w \in Callers :
    LET p == work[w].position
        cells == CellsOf(Target(w))
    IN  /\ At(w, "load") /\ work[w].rebuild => ndt = {}
        /\ At(w, "remove") => Area(p) \subseteq cells /\ ~lost
        /\ At(w, "swap") => Area(p) = cells /\ ~lost
        /\ At(w, "store") /\ ~lost => ndt = Area(p)

(* Outside of a change the two maps are the same, once built.              *)
CopyInv ==
  ~need_rebuild /\ (\A w \in Callers : ~At(w, "remove") /\ ~At(w, "swap"))
    => secondary = ndt

(* A map that is not locked is a whole one. *)
WholeInv == ~NdtLocked => ndt = {} \/ \E p \in Positions : ndt = Area(p)

IInv ==
  /\ NdtTypeOK /\ WorkInv /\ ProgressInv /\ CopyInv /\ WholeInv
  /\ MapIsWhereItSays /\ MatchesWholeMaps

-----------------------------------------------------------------------------
Jobs == [step : Steps, position : Positions \cup {Nowhere}, rebuild : BOOLEAN]

(* A cell more or less: what the loader is asked for leads to its area.    *)
LEMMA AnswerGivesArea ==
  ASSUME NEW p, NEW cached, Area(p) \subseteq cached
  PROVE  cached \ ToRemove(p, cached) = Area(p)
BY DEF ToRemove

(* The steps that leave the maps and the updates alone. *)
LEMMA QuietStep ==
  ASSUME IInv, UNCHANGED mapVars,
         work' \in [Callers -> Jobs],
         latest_ekf' \in Positions \cup {Nowhere}, is_activated' \in BOOLEAN,
         \A w \in Callers :
           \/ work'[w] = work[w]
           \/ /\ ~Updating(w) /\ ~Updating(w)'
              /\ At(w, "idle")' \/ work'[w].position \in Positions,
         \/ matched' = matched
         \/ matched' = ndt /\ ~NdtLocked
  PROVE  IInv'
<1> USE DEF IInv, Updating, At, mapVars
<1>1. \A w \in Callers : Updating(w)' <=> Updating(w)
  OBVIOUS
<1>2. \A w \in Callers : Updating(w) => work'[w] = work[w]
  OBVIOUS
<1>3. matched' \subseteq Cells /\ MatchesWholeMaps'
  BY DEF NdtTypeOK, MatchesWholeMaps, WholeInv, Area
<1>4. NdtTypeOK'
  BY <1>1, <1>3 DEF NdtTypeOK, Jobs
<1>5. WorkInv'
  BY <1>2 DEF WorkInv
<1>6. ProgressInv'
  BY <1>1, <1>2 DEF ProgressInv, CellsOf, Target, Area
<1>7. CopyInv' /\ WholeInv'
  BY <1>1, <1>2 DEF CopyInv, WholeInv, NdtLocked, Area
<1>8. MapIsWhereItSays'
  BY <1>1 DEF MapIsWhereItSays, BuilderLocked, Area
<1> QED BY <1>3, <1>4, <1>5, <1>6, <1>7, <1>8

(* With no update under way, one begins: a rebuild from nothing, or an     *)
(* extension of the second map.                                            *)
LEMMA BeginStep ==
  ASSUME IInv, NEW w \in Callers, NEW rebuild \in BOOLEAN,
         At(w, "wait"), ~BuilderLocked, need_rebuild => rebuild,
         BeginUpdate(w, rebuild)
  PROVE  IInv'
<1> USE DEF IInv, BeginUpdate, nodeVars
<1>1. \A v \in Callers : ~Updating(v)
  BY DEF BuilderLocked
<1>2. /\ work' \in [Callers -> Jobs]
      /\ work'[w].step = "load" /\ work'[w].position = work[w].position
      /\ work'[w].rebuild = need_rebuild' /\ need_rebuild' = rebuild
      /\ \A v \in Callers \ {w} : work'[v] = work[v]
  BY DEF NdtTypeOK, Jobs, Steps
<1>3. Updating(w)' /\ \A v \in Callers \ {w} : ~Updating(v)'
  BY <1>1, <1>2 DEF Updating
<1>4. NdtTypeOK'
  BY <1>2, <1>3 DEF NdtTypeOK, Jobs
<1>5. WorkInv'
  <2>1. work'[w].position \in Positions
    BY <1>2 DEF WorkInv, At
  <2>2. \A v \in Callers \ {w} : ~At(v, "idle")' => work'[v].position \in Positions
    BY <1>2 DEF WorkInv, At
  <2> QED BY <2>1, <2>2, <1>2, <1>3 DEF WorkInv
<1>6. ProgressInv'
  <2>1. work'[w].rebuild => ndt' = {}
    BY <1>2
  <2> QED BY <2>1, <1>2, <1>3 DEF ProgressInv, At, Updating
<1>7. CopyInv'
  BY <1>1 DEF CopyInv, Updating, At
<1>8. WholeInv' /\ MatchesWholeMaps'
  BY <1>1 DEF WholeInv, NdtLocked, Updating, MatchesWholeMaps, Area
<1>9. MapIsWhereItSays'
  BY <1>3 DEF MapIsWhereItSays, BuilderLocked
<1> QED BY <1>4, <1>5, <1>6, <1>7, <1>8, <1>9

(* The steps of an update: one is at work, the other is not.               *)
LEMMA OneUpdates ==
  ASSUME IInv, NEW w \in Callers, Updating(w)
  PROVE  /\ work[w] \in Jobs /\ work[w].position \in Positions
         /\ BuilderLocked
         /\ \A v \in Callers \ {w} : ~Updating(v)
         /\ ~At(w, "store") => work[w].rebuild = need_rebuild
BY DEF IInv, NdtTypeOK, WorkInv, BuilderLocked, Updating, At, Jobs

LEMMA NextStepOf ==
  ASSUME IInv, NEW w \in Callers, Updating(w), NEW step \in Steps, To(w, step)
  PROVE  /\ work' \in [Callers -> Jobs]
         /\ work'[w] = [work[w] EXCEPT !.step = step]
         /\ \A v \in Callers \ {w} : work'[v] = work[v] /\ ~Updating(v) /\ ~Updating(v)'
BY OneUpdates DEF IInv, NdtTypeOK, To, Updating, Jobs

LEMMA LoadNothingStep ==
  ASSUME IInv, NEW w \in Callers, LoadNothing(w)
  PROVE  IInv'
<1> USE DEF IInv, nodeVars
<1>1. At(w, "load") /\ Updating(w) /\ To(w, "store") /\ "store" \in Steps
  BY DEF LoadNothing, At, Updating, Steps
<1>2. /\ work[w] \in Jobs /\ work[w].position \in Positions
      /\ work[w].rebuild = need_rebuild
      /\ \A v \in Callers \ {w} : ~Updating(v)
  BY <1>1, OneUpdates DEF At
<1>3. /\ work' \in [Callers -> Jobs]
      /\ work'[w] = [work[w] EXCEPT !.step = "store"]
      /\ \A v \in Callers \ {w} : work'[v] = work[v] /\ ~Updating(v)'
  BY <1>1, NextStepOf
<1>4. UNCHANGED <<ndt, secondary, need_rebuild, last_update, latest_ekf, is_activated, matched>>
      /\ lost' \in BOOLEAN
  BY DEF LoadNothing
<1>5. NdtTypeOK'
  BY <1>3, <1>4 DEF NdtTypeOK, Jobs
<1>6. WorkInv'
  BY <1>2, <1>3, <1>4 DEF WorkInv, Updating, At, Jobs
<1>7. ~lost' => ndt' = Area(work'[w].position)
  <2>1. SUFFICES ASSUME ~lost' PROVE ndt = Area(work[w].position)
    BY <1>2, <1>3, <1>4 DEF Area, Jobs
  <2>2. CellsOf(Target(w)) = Area(work[w].position)
    BY <2>1 DEF LoadNothing, ToAdd, ToRemove
  <2>3. CellsOf(Target(w)) = ndt
    BY <1>1, <1>2 DEF CellsOf, Target, CopyInv, At, Updating
  <2> QED BY <2>2, <2>3
<1>8. ProgressInv'
  BY <1>2, <1>3, <1>7 DEF ProgressInv, Updating, At, Jobs
<1>9. CopyInv'
  BY <1>1, <1>2, <1>4 DEF CopyInv, At, Updating
<1>10. WholeInv' /\ MatchesWholeMaps'
  <2>1. ndt = {} \/ \E p \in Positions : ndt = Area(p)
    BY <1>1, <1>2 DEF WholeInv, ProgressInv, NdtLocked, At, Updating
  <2> QED BY <2>1, <1>4 DEF WholeInv, MatchesWholeMaps, Area
<1>11. MapIsWhereItSays'
  BY <1>2, <1>3 DEF MapIsWhereItSays, BuilderLocked, Updating, Jobs
<1> QED BY <1>5, <1>6, <1>8, <1>9, <1>10, <1>11

LEMMA AddCellsStep ==
  ASSUME IInv, NEW w \in Callers, AddCells(w)
  PROVE  IInv'
<1> USE DEF IInv, nodeVars
<1>1. At(w, "load") /\ Updating(w) /\ To(w, "remove") /\ "remove" \in Steps
  BY DEF AddCells, At, Updating, Steps
<1>2. /\ work[w] \in Jobs /\ work[w].position \in Positions
      /\ work[w].rebuild = need_rebuild
      /\ \A v \in Callers \ {w} : ~Updating(v)
  BY <1>1, OneUpdates DEF At
<1>3. /\ work' \in [Callers -> Jobs]
      /\ work'[w] = [work[w] EXCEPT !.step = "remove"]
      /\ \A v \in Callers \ {w} : work'[v] = work[v] /\ ~Updating(v)'
  BY <1>1, NextStepOf
<1>4. UNCHANGED <<need_rebuild, last_update, latest_ekf, is_activated, matched>> /\ lost' = FALSE
  BY DEF AddCells
<1>5. /\ ndt' \subseteq Cells /\ secondary' \subseteq Cells
      /\ Area(work[w].position) \subseteq (IF work[w].rebuild THEN ndt' ELSE secondary')
      /\ ~work[w].rebuild => ndt' = ndt
  BY DEF AddCells, SetTarget, Target, CellsOf, ToAdd, Area, NdtTypeOK
<1>6. NdtTypeOK'
  BY <1>3, <1>4, <1>5 DEF NdtTypeOK, Jobs
<1>7. WorkInv'
  BY <1>2, <1>3, <1>4 DEF WorkInv, Updating, At, Jobs
<1>8. ProgressInv'
  BY <1>2, <1>3, <1>4, <1>5 DEF ProgressInv, Updating, At, Jobs, CellsOf, Target, Area
<1>9. CopyInv'
  BY <1>3 DEF CopyInv, At, Jobs
<1>10. WholeInv' /\ MatchesWholeMaps'
  <2>1. NdtLocked' \/ ~NdtLocked
    BY <1>1, <1>2, <1>3 DEF NdtLocked, At, Updating, Jobs
  <2>2. ~NdtLocked' => ndt' = ndt /\ ~NdtLocked
    BY <2>1, <1>1, <1>3, <1>5 DEF NdtLocked, At, Jobs
  <2> QED BY <2>2, <1>4 DEF WholeInv, MatchesWholeMaps, Area
<1>11. MapIsWhereItSays'
  BY <1>2, <1>3 DEF MapIsWhereItSays, BuilderLocked, Updating, Jobs
<1> QED BY <1>6, <1>7, <1>8, <1>9, <1>10, <1>11

LEMMA RemoveCellsStep ==
  ASSUME IInv, NEW w \in Callers, RemoveCells(w)
  PROVE  IInv'
<1> USE DEF IInv, nodeVars
<1>1. At(w, "remove") /\ Updating(w) /\ To(w, "swap") /\ "swap" \in Steps
  BY DEF RemoveCells, At, Updating, Steps
<1>2. /\ work[w] \in Jobs /\ work[w].position \in Positions
      /\ work[w].rebuild = need_rebuild
      /\ \A v \in Callers \ {w} : ~Updating(v)
  BY <1>1, OneUpdates DEF At
<1>3. /\ work' \in [Callers -> Jobs]
      /\ work'[w] = [work[w] EXCEPT !.step = "swap"]
      /\ \A v \in Callers \ {w} : work'[v] = work[v] /\ ~Updating(v)'
  BY <1>1, NextStepOf
<1>4. UNCHANGED <<need_rebuild, last_update, latest_ekf, is_activated, matched>> 
      /\ lost' \in BOOLEAN /\ ~lost'
  BY <1>1 DEF RemoveCells, ProgressInv, NdtTypeOK
<1>5. /\ ndt' \subseteq Cells /\ secondary' \subseteq Cells
      /\ Area(work[w].position) = (IF work[w].rebuild THEN ndt' ELSE secondary')
      /\ ~work[w].rebuild => ndt' = ndt
  <2>1. Remaining(w) = Area(work[w].position)
    BY <1>1, AnswerGivesArea DEF Remaining, ProgressInv
  <2> QED BY <2>1 DEF RemoveCells, SetTarget, Target, Area, NdtTypeOK
<1>6. NdtTypeOK'
  BY <1>3, <1>4, <1>5 DEF NdtTypeOK, Jobs
<1>7. WorkInv'
  BY <1>2, <1>3, <1>4 DEF WorkInv, Updating, At, Jobs
<1>8. ProgressInv'
  BY <1>2, <1>3, <1>4, <1>5 DEF ProgressInv, Updating, At, Jobs, CellsOf, Target, Area
<1>9. CopyInv'
  BY <1>3 DEF CopyInv, At, Jobs
<1>10. WholeInv' /\ MatchesWholeMaps'
  <2>1. CASE work[w].rebuild
    BY <2>1, <1>2, <1>4, <1>5 DEF WholeInv, MatchesWholeMaps, Area
  <2>2. CASE ~work[w].rebuild
    <3>1. ~NdtLocked
      BY <2>2, <1>2 DEF NdtLocked, Updating
    <3> QED BY <2>2, <3>1, <1>4, <1>5 DEF WholeInv, MatchesWholeMaps, Area
  <2> QED BY <2>1, <2>2
<1>11. MapIsWhereItSays'
  BY <1>2, <1>3 DEF MapIsWhereItSays, BuilderLocked, Updating, Jobs
<1> QED BY <1>6, <1>7, <1>8, <1>9, <1>10, <1>11

LEMMA SwapStep ==
  ASSUME IInv, NEW w \in Callers, Swap(w)
  PROVE  IInv'
<1> USE DEF IInv, nodeVars
<1>1. At(w, "swap") /\ Updating(w) /\ To(w, "store") /\ "store" \in Steps
  BY DEF Swap, At, Updating, Steps
<1>2. /\ work[w] \in Jobs /\ work[w].position \in Positions
      /\ work[w].rebuild = need_rebuild
      /\ \A v \in Callers \ {w} : ~Updating(v)
  BY <1>1, OneUpdates DEF At
<1>3. /\ work' \in [Callers -> Jobs]
      /\ work'[w] = [work[w] EXCEPT !.step = "store"]
      /\ \A v \in Callers \ {w} : work'[v] = work[v] /\ ~Updating(v)'
  BY <1>1, NextStepOf
<1>4. UNCHANGED <<last_update, lost, latest_ekf, is_activated, matched>>
      /\ need_rebuild' = FALSE
  BY <1>2 DEF Swap
<1>5. ndt' = Area(work[w].position) /\ secondary' = ndt' /\ ndt' \subseteq Cells
  BY <1>1 DEF Swap, ProgressInv, Target, CellsOf, NdtTypeOK
<1>6. NdtTypeOK'
  BY <1>3, <1>4, <1>5 DEF NdtTypeOK, Jobs
<1>7. WorkInv'
  BY <1>2, <1>3, <1>4 DEF WorkInv, Updating, At, Jobs
<1>8. ProgressInv'
  BY <1>2, <1>3, <1>4, <1>5 DEF ProgressInv, Updating, At, Jobs, Area
<1>9. CopyInv'
  BY <1>5 DEF CopyInv
<1>10. WholeInv' /\ MatchesWholeMaps'
  BY <1>2, <1>4, <1>5 DEF WholeInv, MatchesWholeMaps, Area
<1>11. MapIsWhereItSays'
  BY <1>2, <1>3 DEF MapIsWhereItSays, BuilderLocked, Updating, Jobs
<1> QED BY <1>6, <1>7, <1>8, <1>9, <1>10, <1>11

LEMMA StorePositionStep ==
  ASSUME IInv, NEW w \in Callers, StorePosition(w)
  PROVE  IInv'
<1> USE DEF IInv, nodeVars
<1> DEFINE next == IF w = "align" THEN "match" ELSE "idle"
<1>1. At(w, "store") /\ Updating(w) /\ To(w, next) /\ next \in Steps
  BY DEF StorePosition, At, Updating, Steps
<1>2. /\ work[w] \in Jobs /\ work[w].position \in Positions
      /\ \A v \in Callers \ {w} : ~Updating(v)
  BY <1>1, OneUpdates DEF At
<1>3. /\ work' \in [Callers -> Jobs]
      /\ work'[w] = [work[w] EXCEPT !.step = next]
      /\ \A v \in Callers \ {w} : work'[v] = work[v] /\ ~Updating(v)'
  BY <1>1, NextStepOf
<1>4. UNCHANGED <<ndt, secondary, need_rebuild, lost, latest_ekf, is_activated, matched>>
      /\ last_update' = work[w].position
  BY DEF StorePosition
<1>5. \A v \in Callers : ~Updating(v)'
  BY <1>3 DEF Updating, Jobs
<1>6. NdtTypeOK'
  BY <1>2, <1>3, <1>4, <1>5 DEF NdtTypeOK, Jobs
<1>7. WorkInv'
  BY <1>2, <1>3, <1>4, <1>5 DEF WorkInv, At, Jobs
<1>8. ProgressInv'
  BY <1>5 DEF ProgressInv, Updating, At
<1>9. CopyInv'
  BY <1>1, <1>2, <1>4 DEF CopyInv, At, Updating
<1>10. WholeInv' /\ MatchesWholeMaps'
  <2>1. ~NdtLocked
    BY <1>1, <1>2 DEF NdtLocked, At, Updating
  <2> QED BY <2>1, <1>4 DEF WholeInv, MatchesWholeMaps, Area
<1>11. MapIsWhereItSays'
  BY <1>1, <1>4 DEF MapIsWhereItSays, ProgressInv, Area
<1> QED BY <1>6, <1>7, <1>8, <1>9, <1>10, <1>11

-----------------------------------------------------------------------------
LEMMA Initially == Init => IInv
<1> SUFFICES ASSUME Init PROVE IInv
  OBVIOUS
<1>1. \A w \in Callers : work[w] = [step |-> "idle", position |-> Nowhere, rebuild |-> FALSE]
  BY DEF Init
<1>2. NdtTypeOK
  BY <1>1 DEF Init, NdtTypeOK, Steps, Updating
<1>3. WorkInv /\ ProgressInv
  BY <1>1 DEF WorkInv, ProgressInv, At, Updating
<1>4. CopyInv /\ WholeInv /\ MapIsWhereItSays /\ MatchesWholeMaps
  BY DEF Init, CopyInv, WholeInv, MapIsWhereItSays, MatchesWholeMaps
<1> QED BY <1>2, <1>3, <1>4 DEF IInv

LEMMA Step == IInv /\ [Next]_vars => IInv'
<1> SUFFICES ASSUME IInv, [Next]_vars PROVE IInv'
  OBVIOUS
<1> USE DEF IInv, nodeVars, At, Updating
<1>1. ASSUME NEW p \in Positions, OnEkfPose(p) PROVE IInv'
  BY <1>1, QuietStep DEF OnEkfPose, NdtTypeOK, Jobs
<1>2. ASSUME NEW w \in Callers, NEW p \in Positions, Call(w, p) PROVE IInv'
  <2>1. /\ work' \in [Callers -> Jobs]
        /\ work'[w] = [step |-> "wait", position |-> p, rebuild |-> FALSE]
        /\ \A v \in Callers \ {w} : work'[v] = work[v]
    BY <1>2 DEF Call, NdtTypeOK, Jobs, Steps
  <2> QED BY <1>2, <2>1, QuietStep DEF Call, NdtTypeOK
<1>3. ASSUME NEW activate \in BOOLEAN, OnTrigger(activate) PROVE IInv'
  BY <1>3, QuietStep DEF OnTrigger, NdtTypeOK, Jobs
<1>4. CASE OnTimer
  BY <1>4, <1>2 DEF OnTimer, NdtTypeOK, Callers
<1>5. CASE LockForTimer
  <2> DEFINE p == work["timer"].position
             rebuild == need_rebuild \/ FellBehind(p)
  <2>1. CASE BeginUpdate("timer", rebuild)
    BY <1>5, <2>1, BeginStep DEF LockForTimer, Callers
  <2>2. CASE ~BeginUpdate("timer", rebuild)
    <3>1. /\ At("timer", "wait") /\ \A v \in Callers : ~Updating(v)
          /\ need_rebuild' = rebuild /\ To("timer", "idle")
          /\ UNCHANGED <<ndt, secondary, last_update, lost, nodeVars, matched>>
      BY <1>5, <2>2 DEF LockForTimer, BuilderLocked
    <3>2. /\ work' \in [Callers -> Jobs] /\ work'["timer"].step = "idle"
          /\ \A v \in Callers \ {"timer"} : work'[v] = work[v]
      BY <3>1 DEF To, NdtTypeOK, Jobs, Steps, Callers
    <3>3. \A v \in Callers : ~Updating(v)'
      BY <3>1, <3>2
    <3>4. NdtTypeOK' /\ WorkInv' /\ ProgressInv'
      BY <3>1, <3>2, <3>3 DEF NdtTypeOK, Jobs, WorkInv, ProgressInv, FellBehind
    <3>5. CopyInv' /\ WholeInv' /\ MapIsWhereItSays' /\ MatchesWholeMaps'
      BY <3>1 DEF CopyInv, WholeInv, NdtLocked, MapIsWhereItSays, BuilderLocked,
                  MatchesWholeMaps, Area
    <3> QED BY <3>4, <3>5
  <2> QED BY <2>1, <2>2
<1>6. CASE LockForAlign
  BY <1>6, BeginStep DEF LockForAlign, NdtTypeOK, Callers
<1>7. CASE Align
  <2>1. work' \in [Callers -> Jobs] /\ \A v \in Callers :
           work'[v] = work[v] \/ (v = "align" /\ work'[v].step = "idle")
    BY <1>7 DEF Align, To, NdtTypeOK, Jobs, Steps, Callers
  <2> QED BY <1>7, <2>1, QuietStep DEF Align, MatchAgainstMap, NdtTypeOK
<1>8. CASE OnSensorPoints
  BY <1>8, QuietStep DEF OnSensorPoints, MatchAgainstMap, NdtTypeOK, Jobs
<1>9. ASSUME NEW w \in Callers, UpdateStep(w) PROVE IInv'
  BY <1>9, LoadNothingStep, AddCellsStep, RemoveCellsStep, SwapStep, StorePositionStep
  DEF UpdateStep
<1>10. CASE UNCHANGED vars
  BY <1>10, QuietStep DEF vars, NdtTypeOK, Jobs
<1> QED
  BY <1>1, <1>2, <1>3, <1>4, <1>5, <1>6, <1>7, <1>8, <1>9, <1>10 DEF Next, OnAlign, Callers

(* The inductive invariant holds always. *)
THEOREM NdtInvariance == Spec => []IInv
BY Initially, Step, PTL DEF Spec

(* Types, and at most one update is under way: builder_state_ is held by   *)
(* one caller from the first step to the last.                             *)
THEOREM NdtTypesHold == Spec => []NdtTypeOK
BY NdtInvariance, PTL DEF IInv

(* Whatever updates were asked for, failed, rebuilt or extended: between   *)
(* updates, and unless the last load failed, the map is the area around    *)
(* last_update_position_.                                                  *)
THEOREM MapAlwaysIsWhereItSays == Spec => []MapIsWhereItSays
BY NdtInvariance, PTL DEF IInv

(* Scan matching and alignment never use a map that is being changed.      *)
THEOREM AlwaysMatchesWholeMaps == Spec => []MatchesWholeMaps
BY NdtInvariance, PTL DEF IInv
=============================================================================
