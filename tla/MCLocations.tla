---------------------------- MODULE MCLocations ----------------------------
(* A small instance of Locations. *)
EXTENDS Locations
=============================================================================
