--------------------------- MODULE MCVirtualWall ---------------------------
(* Small instance of VirtualWall. *)
EXTENDS VirtualWall
=============================================================================
