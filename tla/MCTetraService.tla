--------------------------- MODULE MCTetraService ---------------------------
(* Small instances of TetraService: tag poses for the configurations.       *)
EXTENDS TetraService

Pose(x, d, bearing, pitch) == [x |-> x, d |-> d, bearing |-> bearing, pitch |-> pitch]

(* At the station and aligned, and on the way to it and askew.  A callback  *)
(* that gets only half of the transforms mixes the two: also at the station *)
(* and askew, and on the way and aligned.                                   *)
DockingPoses == {Pose(60, 60, "ahead", 0), Pose(150, 155, "off", 30)}

(* For the goto commands: closer than 50 cm, up to 85 cm, and beyond; the   *)
(* last under a wide angle, where the docking loop's turn is too fast.      *)
GotoPoses == {Pose(40, 40, "ahead", 0), Pose(60, 60, "ahead", 0), Pose(150, 155, "wide", 0)}
=============================================================================
