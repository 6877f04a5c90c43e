---------------------------- MODULE VirtualWall ----------------------------
(***************************************************************************)
(* The virtual_wall node (virtual_wall/src/virtual_wall.cpp).  A service   *)
(* adds and removes rectangular walls.  The walls go at once into the map  *)
(* polygon_global_costmap, which the service handler publishes on          *)
(* Global_virtual_wall; a 1 s timer later copies the LAST added batch into *)
(* polygon_local_costmap and publishes that on Local_virtual_wall.  The    *)
(* node spins on one thread, so a callback is one step.                    *)
(*                                                                         *)
(* A std::map from wall id to point cloud is a function on Ids whose value *)
(* NoWall means "no such key".  The polygons of one request are such a     *)
(* function too (the pairs polygons[i], ids[i] are applied in order, both  *)
(* to the global map and, by the timer, to the local one, so that only the *)
(* last polygon given for an id counts).                                   *)
(***************************************************************************)
EXTENDS FiniteSets

CONSTANTS
  Ids,         \* wall ids used by the clients
  Shapes,      \* polygons, told apart by their points
  Degenerate,  \* the polygons with fewer than four vertices
  NoWall       \* "no entry for this id"

ASSUME WallAssumption ==
  /\ Degenerate \subseteq Shapes
  /\ NoWall \notin Shapes

VARIABLES
  m_bActive_map,           \* a non-empty map has been received
  pending,                 \* _pVirtual_polygon.polygons/iID[0 .. iPolygon_size-1]
  remove,                  \* _pVirtual_polygon.remove: last request was a removal
  noEmpty,                 \* _pVirtual_polygon.noEmpty
  polygon_global_costmap,
  polygon_local_costmap,
  globalCloud,             \* last message on Global_virtual_wall
  localCloud               \* last message on Local_virtual_wall

vars == <<m_bActive_map, pending, remove, noEmpty, polygon_global_costmap,
          polygon_local_costmap, globalCloud, localCloud>>

CostMaps == [Ids -> Shapes \cup {NoWall}]

EmptyMap == [i \in Ids |-> NoWall]

(* A published cloud has points only of walls that can be drawn. *)
Clouds == [Ids -> (Shapes \ Degenerate) \cup {NoWall}]

Keys(f) == {i \in Ids : f[i] # NoWall}

-----------------------------------------------------------------------------
(* f[id] = cloud of polygon, for every polygon of a batch. *)
Overlay(f, batch) == [i \in Ids |-> IF batch[i] # NoWall THEN batch[i] ELSE f[i]]

(* f.erase(id) for every id of the request. *)
Erase(f, ids) == [i \in Ids |-> IF i \in ids THEN NoWall ELSE f[i]]

(* Fault: a degenerate polygon is merged as it is. *)
Faulty_Combined(f) == f

(* The merged point cloud of a map: generateDensePoints fills a rectangle   *)
(* with points but yields no point for fewer than four vertices, and        *)
(* mergePointClouds concatenates what is there.                             *)
Combined(f) == [i \in Ids |-> IF f[i] \in Degenerate THEN NoWall ELSE f[i]]

Init ==
  /\ m_bActive_map = FALSE
  /\ pending = EmptyMap
  /\ remove = FALSE
  /\ noEmpty = TRUE
  /\ polygon_global_costmap = EmptyMap
  /\ polygon_local_costmap = EmptyMap
  /\ globalCloud = EmptyMap
  /\ localCloud = EmptyMap

(* A map message; active says that it has cells. *)
map_Callback(active) ==
  /\ m_bActive_map' = active
  /\ UNCHANGED <<pending, remove, noEmpty, polygon_global_costmap,
                 polygon_local_costmap, globalCloud, localCloud>>

(* Fault: a request that empties the global map disarms the timer. *)
Faulty_PublishGlobal ==
  /\ globalCloud' = Combined(polygon_global_costmap')
  /\ noEmpty' = (Keys(polygon_global_costmap') # {})

(* The tail of the service handler: publish what is left of the global map; *)
(* only a non-empty map re-arms the timer.                                  *)
PublishGlobal ==
  /\ globalCloud' = Combined(polygon_global_costmap')
  /\ noEmpty' = (noEmpty \/ Keys(polygon_global_costmap') # {})

AddWalls(batch) ==
  /\ remove' = FALSE
  /\ pending' = batch
  /\ polygon_global_costmap' = Overlay(polygon_global_costmap, batch)
  /\ PublishGlobal
  /\ UNCHANGED <<m_bActive_map, polygon_local_costmap, localCloud>>

RemoveWalls(ids) ==
  /\ remove' = TRUE
  /\ polygon_global_costmap' = Erase(polygon_global_costmap, ids)
  /\ polygon_local_costmap' = Erase(polygon_local_costmap, ids)
  /\ PublishGlobal
  /\ UNCHANGED <<m_bActive_map, pending, localCloud>>

Add_Virtual_Obstacle_Command ==
  \/ \E batch \in CostMaps : AddWalls(batch)
  \/ \E ids \in SUBSET Ids : RemoveWalls(ids)

(* Fault: the timer applies the last batch also after a removal. *)
Faulty_UpdateLocal ==
  polygon_local_costmap' = Overlay(polygon_local_costmap, pending)

UpdateLocal ==
  polygon_local_costmap' = IF remove THEN polygon_local_costmap
                           ELSE Overlay(polygon_local_costmap, pending)

(* Fault: an empty map disarms the timer without the empty message. *)
Faulty_PublishLocal ==
  /\ localCloud' = IF Keys(polygon_local_costmap') = {} THEN localCloud
                   ELSE Combined(polygon_local_costmap')
  /\ noEmpty' = (Keys(polygon_local_costmap') # {})

PublishLocal ==
  /\ localCloud' = Combined(polygon_local_costmap')
  /\ noEmpty' = (Keys(polygon_local_costmap') # {})

(* The timer when the map->odom transform is there.  When lookupTransform   *)
(* throws, the rest of the body is skipped and nothing changes (a stutter). *)
CALC_TF_Timer ==
  /\ m_bActive_map /\ noEmpty
  /\ UpdateLocal
  /\ PublishLocal
  /\ UNCHANGED <<m_bActive_map, pending, remove, polygon_global_costmap, globalCloud>>

Next ==
  \/ \E active \in BOOLEAN : map_Callback(active)
  \/ Add_Virtual_Obstacle_Command
  \/ CALC_TF_Timer

(* The executor serves the timer again and again, and the localisation      *)
(* publishes map->odom as long as it runs; nothing obliges a client to call.*)
Fairness == WF_vars(CALC_TF_Timer)

Spec == Init /\ [][Next]_vars /\ Fairness

-----------------------------------------------------------------------------
(* Types of the node's state. *)
TypeOK ==
  /\ m_bActive_map \in BOOLEAN
  /\ pending \in CostMaps
  /\ remove \in BOOLEAN
  /\ noEmpty \in BOOLEAN
  /\ polygon_global_costmap \in CostMaps
  /\ polygon_local_costmap \in CostMaps
  /\ globalCloud \in Clouds
  /\ localCloud \in Clouds

(* The timer works from the polygons of the last request, long after the    *)
(* request: it never puts back into the local map a wall that has been      *)
(* deleted meanwhile.                                                       *)
LocalWithinGlobal == Keys(polygon_local_costmap) \subseteq Keys(polygon_global_costmap)

(* What makes it inductive: the batch the timer will apply is still there.  *)
PendingWithinGlobal == ~remove => Keys(pending) \subseteq Keys(polygon_global_costmap)

(* noEmpty = FALSE disarms the timer.  It is disarmed only when there is    *)
(* nothing left to show: no wall in the local map and none in the message   *)
(* that the local costmap has last received.                                *)
DisarmedOnlyWhenClear ==
  ~noEmpty => /\ Keys(polygon_local_costmap) = {}
              /\ Keys(localCloud) = {}

(* A wall deleted through the service does not stay in the message on       *)
(* Local_virtual_wall: once the map stays active, the timer (its only       *)
(* publisher) takes it out, or a client adds it again.                      *)
DeletedWallDisappears ==
  <>[]m_bActive_map =>
    \A i \in Ids : []<>(i \notin Keys(localCloud) \/ i \in Keys(polygon_global_costmap))
=============================================================================
