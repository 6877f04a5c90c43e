---------------------------- MODULE MCTetraDrive ----------------------------
(* Small instances of TetraDrive. *)
EXTENDS TetraDrive

(* Forward faster than one braking step, standstill, and reverse. *)
SomeSpeeds == {-2, 0, 4}
=============================================================================
