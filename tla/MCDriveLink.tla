----------------------------- MODULE MCDriveLink ----------------------------
(* Small instances of DriveLink. *)
EXTENDS DriveLink

SomeAccels == {5, 7}

(* Standing still at the origin, and with the left wheel at 512 mm/s, the   *)
(* high byte of which is STX.                                               *)
Still == [i \in 1..14 |-> 0]
SomeMotions == {Still, [Still EXCEPT ![11] = STX]}

Unpressed == {0}
=============================================================================
