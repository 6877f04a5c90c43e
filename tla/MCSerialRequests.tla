-------------------------- MODULE MCSerialRequests --------------------------
(* Small instances of SerialRequests. *)
EXTENDS SerialRequests

SomeNumbers == {-120, 0}
SomeParams == {6, 12}

SomeSpeeds == {-40000, -1, 0, 256}

(* All off, all on, and the settings whose byte is STX or ETX (210, 211). *)
SomeSettings ==
  {[i \in 0..7 |-> 0], [i \in 0..7 |-> 1]}
    \cup {decimal2binary(value) : value \in {1, 128, 210, 211}}

SomeInports == {0, 165}

(* Words on both sides of the byte boundary; 5 and 6 as the loop can take   *)
(* them for inputs and outputs.                                             *)
SomeWord == [k \in 1..32 |-> IF k \in {5, 6} THEN 165 ELSE 2047 * k]
SomeWords == {SomeWord}

(* A late answer to the sonar's request, the same without its end, an       *)
(* acknowledgement, whose flag is taken for a length, and what a read that  *)
(* begins in the middle of an answer takes for one: its length begins with  *)
(* STX.                                                                     *)
Late == Answered(SubSeq(SomeWord, 1, 6))

SomeStrays ==
  {Late, SubSeq(Late, 1, 15), <<STX, FLAG_OK, ETX, 51>>, <<7, STX, STX, 5, 4, 3, 6>>}
=============================================================================
