----------------------------- MODULE PowerWatch -----------------------------
(***************************************************************************)
(* What tetra_interface promises the drive node: the servo is cut off with *)
(* every pass of its loop once more than Patience + 1 passes in a row have *)
(* found the power board silent, and never before.                         *)
(***************************************************************************)
EXTENDS Integers

CONSTANT Patience  \* a natural number, 10 in the code

VARIABLES
  up,     \* the node runs
  silent, \* passes in a row without an answer, at most Patience + 2
  cut     \* the last pass has published servo off

Init == up = TRUE /\ silent = 0 /\ cut = FALSE

Answered ==
  /\ up
  /\ silent' = 0 /\ cut' = FALSE
  /\ UNCHANGED up

Missed ==
  /\ up
  /\ silent' = IF silent < Patience + 2 THEN silent + 1 ELSE silent
  /\ cut' = (silent' = Patience + 2)
  /\ UNCHANGED up

(* The node ends between two passes, or, writing its log, in the pass that *)
(* would cut the servo off.                                                *)
End ==
  /\ up /\ up' = FALSE
  /\ \/ UNCHANGED <<silent, cut>>
     \/ silent > Patience /\ silent' = Patience + 2 /\ cut' = FALSE

Pass == Answered \/ Missed

Next == Pass \/ End

Spec == Init /\ [][Next]_<<up, silent, cut>>
=============================================================================
