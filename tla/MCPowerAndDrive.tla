-------------------------- MODULE MCPowerAndDrive ---------------------------
(* Small instances of PowerAndDrive. *)
EXTENDS PowerAndDrive

SomeSpeeds == {0, 1}
=============================================================================
