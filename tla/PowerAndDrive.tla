--------------------------- MODULE PowerAndDrive ----------------------------
(***************************************************************************)
(* The drive node (TetraDrive) and what it gets of the power board's node  *)
(* (PowerWatch, which TetraInterface implements): the topic servo_on.  The *)
(* interface publishes servo off with every pass that finds the board      *)
(* disconnected, half as often as the drive loop runs; the drive node      *)
(* handles the messages when it next spins.  Others may ask for servo on.  *)
(***************************************************************************)
EXTENDS Integers

CONSTANTS
  Patience, Speeds, Creep, Brake,
  Queue  \* bound of the model: messages on the topic, 10 in the code

ASSUME QueueAssumption == Queue \in Nat \ {0}

VARIABLES
  up, silent, cut,
  linear, control_linear, bPosition_mode_flag, m_bFlag_joy_enable, pressed, faulty,
  m_bflag_bumper, contact, broken, servo, wheel, by,
  inbox  \* servo off messages the drive node has not handled

W == INSTANCE PowerWatch
D == INSTANCE TetraDrive

watch == <<up, silent, cut>>
drive == <<linear, control_linear, bPosition_mode_flag, m_bFlag_joy_enable, pressed, faulty,
           m_bflag_bumper, contact, broken, servo, wheel, by>>
vars == <<watch, drive, inbox>>

Init == W!Init /\ D!Init /\ inbox = 0

(* A full queue drops its oldest message; they are all alike. *)
Publish == inbox' = IF cut' /\ inbox < Queue THEN inbox + 1 ELSE inbox

PowerPass == W!Pass /\ Publish /\ UNCHANGED drive

PowerEnd == W!End /\ UNCHANGED <<drive, inbox>>

(* Fault: a message is ignored when the last servo command was a request's. *)
Faulty_ServoOff ==
  /\ inbox > 0 /\ by # "request" /\ inbox' = inbox - 1
  /\ D!servo_onCallback(2)
  /\ UNCHANGED watch

ServoOff ==
  /\ inbox > 0 /\ inbox' = inbox - 1
  /\ D!servo_onCallback(2)
  /\ UNCHANGED watch

(* Everything else the drive node does.  power_status carries results of    *)
(* good reads only (TetraInterface!TypeOK), never the -10 that its callback *)
(* waits for.                                                               *)
Drive ==
  /\ \/ \E heard, diagnosed \in BOOLEAN : D!MainLoop(heard, diagnosed)
     \/ \E v \in Speeds : D!velCallback(v)
     \/ \E data \in {1, 3} : D!servo_onCallback(data)
     \/ \E back, start \in BOOLEAN, v \in Speeds : D!joyCallback(back, start, v)
     \/ D!Parameter_Write_Command
     \/ \E mode \in 0..1 : D!Movemode_Change_Command(mode)
     \/ D!World
  /\ UNCHANGED <<watch, inbox>>

Next == PowerPass \/ PowerEnd \/ ServoOff \/ Drive

(* The interface's loop goes on: a pass that can publish servo off is       *)
(* made, or an answer comes.  A message that waits is handled.              *)
Fairness == WF_vars(PowerPass /\ cut') /\ WF_vars(ServoOff)

Spec == Init /\ [][Next]_vars /\ Fairness

-----------------------------------------------------------------------------
(* While the board stays disconnected the servo is switched off again and   *)
(* again, whatever the drive loop and the requests do in between.           *)
CutOffArrives == <>[](up /\ cut) => []<>~servo
=============================================================================
