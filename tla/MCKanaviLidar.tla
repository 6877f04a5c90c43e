--------------------------- MODULE MCKanaviLidar ---------------------------
(* A small instance of KanaviLidar: all numbers are given in the .cfg.      *)
EXTENDS KanaviLidar
=============================================================================
