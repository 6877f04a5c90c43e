------------------------- MODULE VirtualWallProofs -------------------------
(* TLAPS proofs about VirtualWall, for any sets of ids and polygons.        *)
EXTENDS VirtualWall, TLAPS

(* Overlaying a batch and erasing ids are what they say on the keys of a    *)
(* map: a std::map insertion adds the batch's keys, an erase removes them.  *)
LEMMA MapOperations ==
  ASSUME NEW f \in CostMaps
  PROVE  /\ \A g \in CostMaps : /\ Overlay(f, g) \in CostMaps
                                /\ Keys(Overlay(f, g)) = Keys(f) \cup Keys(g)
         /\ \A ids \in SUBSET Ids : /\ Erase(f, ids) \in CostMaps
                                    /\ Keys(Erase(f, ids)) = Keys(f) \ ids
         /\ Combined(f) \in Clouds
         /\ Keys(Combined(f)) \subseteq Keys(f)
BY WallAssumption DEF CostMaps, Clouds, Overlay, Erase, Keys, Combined

-----------------------------------------------------------------------------
(* Every callback of the node keeps its state well typed. *)
THEOREM TypeCorrect == Spec => []TypeOK
<1>1. Init => TypeOK
  BY WallAssumption DEF Init, TypeOK, EmptyMap, CostMaps, Clouds
<1>2. TypeOK /\ [Next]_vars => TypeOK'
  <2> SUFFICES ASSUME TypeOK, [Next]_vars PROVE TypeOK'
    OBVIOUS
  <2>1. ASSUME NEW active \in BOOLEAN, map_Callback(active) PROVE TypeOK'
    BY <2>1 DEF TypeOK, map_Callback
  <2>2. ASSUME NEW batch \in CostMaps, AddWalls(batch) PROVE TypeOK'
    BY <2>2, MapOperations DEF TypeOK, AddWalls, PublishGlobal
  <2>3. ASSUME NEW ids \in SUBSET Ids, RemoveWalls(ids) PROVE TypeOK'
    BY <2>3, MapOperations DEF TypeOK, RemoveWalls, PublishGlobal
  <2>4. ASSUME CALC_TF_Timer PROVE TypeOK'
    BY <2>4, MapOperations DEF TypeOK, CALC_TF_Timer, UpdateLocal, PublishLocal
  <2>5. ASSUME UNCHANGED vars PROVE TypeOK'
    BY <2>5 DEF TypeOK, vars
  <2> QED
    BY <2>1, <2>2, <2>3, <2>4, <2>5 DEF Next, Add_Virtual_Obstacle_Command
<1> QED
  BY <1>1, <1>2, PTL DEF Spec

(* The timer never resurrects a deleted wall.  The invariant is inductive   *)
(* together with what the pending batch may still hold.                     *)
THEOREM NoResurrection == Spec => []LocalWithinGlobal
<1> DEFINE IInv == LocalWithinGlobal /\ PendingWithinGlobal
<1>1. Init => IInv
  BY DEF Init, LocalWithinGlobal, PendingWithinGlobal, EmptyMap, Keys
<1>2. TypeOK /\ IInv /\ [Next]_vars => IInv'
  <2> SUFFICES ASSUME TypeOK, IInv, [Next]_vars PROVE IInv'
    OBVIOUS
  <2> USE DEF TypeOK, LocalWithinGlobal, PendingWithinGlobal
  <2>1. ASSUME NEW active \in BOOLEAN, map_Callback(active) PROVE IInv'
    BY <2>1 DEF map_Callback, Keys
  <2>2. ASSUME NEW batch \in CostMaps, AddWalls(batch) PROVE IInv'
    <3>1. Keys(polygon_global_costmap') = Keys(polygon_global_costmap) \cup Keys(batch)
      BY <2>2, MapOperations DEF AddWalls
    <3>2. Keys(polygon_local_costmap') = Keys(polygon_local_costmap)
      BY <2>2 DEF AddWalls
    <3>3. Keys(pending') = Keys(batch)
      BY <2>2 DEF AddWalls
    <3> QED
      BY <3>1, <3>2, <3>3
  <2>3. ASSUME NEW ids \in SUBSET Ids, RemoveWalls(ids) PROVE IInv'
    <3>1. Keys(polygon_global_costmap') = Keys(polygon_global_costmap) \ ids
      BY <2>3, MapOperations DEF RemoveWalls
    <3>2. Keys(polygon_local_costmap') = Keys(polygon_local_costmap) \ ids
      BY <2>3, MapOperations DEF RemoveWalls
    <3>3. remove' = TRUE
      BY <2>3 DEF RemoveWalls
    <3> QED
      BY <3>1, <3>2, <3>3
  <2>4. ASSUME CALC_TF_Timer PROVE IInv'
    <3>1. Keys(polygon_local_costmap') \subseteq
            Keys(polygon_local_costmap) \cup (IF remove THEN {} ELSE Keys(pending))
      BY <2>4, MapOperations DEF CALC_TF_Timer, UpdateLocal
    <3>2. /\ Keys(polygon_global_costmap') = Keys(polygon_global_costmap)
          /\ Keys(pending') = Keys(pending) /\ remove' = remove
      BY <2>4 DEF CALC_TF_Timer
    <3> QED
      BY <3>1, <3>2
  <2>5. ASSUME UNCHANGED vars PROVE IInv'
    BY <2>5 DEF vars, Keys
  <2> QED
    BY <2>1, <2>2, <2>3, <2>4, <2>5 DEF Next, Add_Virtual_Obstacle_Command
<1>3. IInv => LocalWithinGlobal
  OBVIOUS
<1> QED
  BY <1>1, <1>2, <1>3, TypeCorrect, PTL DEF Spec

(* The timer is disarmed only when both the local map and the last message  *)
(* on Local_virtual_wall are empty, so that a disarmed timer hides no wall. *)
THEOREM Disarming == Spec => []DisarmedOnlyWhenClear
<1>1. Init => DisarmedOnlyWhenClear
  BY DEF Init, DisarmedOnlyWhenClear
<1>2. TypeOK /\ DisarmedOnlyWhenClear /\ [Next]_vars => DisarmedOnlyWhenClear'
  <2> SUFFICES ASSUME TypeOK, DisarmedOnlyWhenClear, [Next]_vars, ~noEmpty'
               PROVE  Keys(polygon_local_costmap') = {} /\ Keys(localCloud') = {}
    BY DEF DisarmedOnlyWhenClear, Keys
  <2> USE DEF TypeOK, DisarmedOnlyWhenClear
  <2>1. ASSUME NEW active \in BOOLEAN, map_Callback(active)
        PROVE  Keys(polygon_local_costmap') = {} /\ Keys(localCloud') = {}
    BY <2>1 DEF map_Callback
  <2>2. ASSUME NEW batch \in CostMaps, AddWalls(batch)
        PROVE  Keys(polygon_local_costmap') = {} /\ Keys(localCloud') = {}
    BY <2>2 DEF AddWalls, PublishGlobal
  <2>3. ASSUME NEW ids \in SUBSET Ids, RemoveWalls(ids)
        PROVE  Keys(polygon_local_costmap') = {} /\ Keys(localCloud') = {}
    <3>1. ~noEmpty
      BY <2>3 DEF RemoveWalls, PublishGlobal
    <3>2. Keys(polygon_local_costmap') = Keys(polygon_local_costmap) \ ids
      BY <2>3, MapOperations DEF RemoveWalls
    <3> QED
      BY <2>3, <3>1, <3>2 DEF RemoveWalls
  <2>4. ASSUME CALC_TF_Timer
        PROVE  Keys(polygon_local_costmap') = {} /\ Keys(localCloud') = {}
    <3>1. polygon_local_costmap' \in CostMaps
      BY <2>4, MapOperations DEF CALC_TF_Timer, UpdateLocal
    <3>2. Keys(polygon_local_costmap') = {}
      BY <2>4 DEF CALC_TF_Timer, PublishLocal
    <3>3. Keys(localCloud') \subseteq Keys(polygon_local_costmap')
      BY <2>4, <3>1, MapOperations DEF CALC_TF_Timer, PublishLocal
    <3> QED
      BY <3>2, <3>3
  <2>5. ASSUME UNCHANGED vars
        PROVE  Keys(polygon_local_costmap') = {} /\ Keys(localCloud') = {}
    BY <2>5 DEF vars
  <2> QED
    BY <2>1, <2>2, <2>3, <2>4, <2>5 DEF Next, Add_Virtual_Obstacle_Command
<1> QED
  BY <1>1, <1>2, TypeCorrect, PTL DEF Spec
=============================================================================
