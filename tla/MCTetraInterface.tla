-------------------------- MODULE MCTetraInterface --------------------------
(* Small instances of TetraInterface. *)
EXTENDS TetraInterface

(* What get_response2 returns when compiled without optimisation: a byte. *)
ByteLeftover == {7}
=============================================================================
