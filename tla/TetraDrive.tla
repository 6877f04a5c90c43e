----------------------------- MODULE TetraDrive -----------------------------
(***************************************************************************)
(* The tetra node (tetra/src/tetra.cpp): one thread that runs the waiting  *)
(* callbacks and then, 60 times a second, its main loop: ramp the linear   *)
(* velocity, send it to the motor controller, read back bumper and error   *)
(* codes, and switch the servo on or off.  A callback is one step and so   *)
(* is a pass of the loop.                                                  *)
(*                                                                         *)
(* Velocities are integers in cm/s.  The angular velocity passes through   *)
(* unramped and is left out, as are odometry, the EMG state (published     *)
(* only; its servo code is commented out) and the handlers that change no  *)
(* state of the node.  The controller is known by the commands it has been *)
(* sent.                                                                   *)
(***************************************************************************)
EXTENDS Integers

CONSTANTS
  Speeds,  \* linear velocities that publishers ask for
  Creep,   \* 1 cm/s in the code: gain of one pass when speeding up
  Brake    \* 5 cm/s: loss of one pass when slowing down

ASSUME DriveAssumption ==
  /\ Speeds \subseteq Int
  /\ Creep \in Nat \ {0}
  /\ Brake \in Nat \ {0}

VARIABLES
  linear,              \* last requested velocity, whoever asked for it
  control_linear,      \* the ramped velocity
  bPosition_mode_flag,
  m_bFlag_joy_enable,
  pressed,             \* m_bumper_data is 2 or 3, as last read
  faulty,              \* an error code is not 48 or a fuse reads 0, as last read
  m_bflag_bumper,      \* the loop has switched the servo on since the last press
  contact,             \* the bumper itself
  broken,              \* the motor driver has an error or a blown fuse
  servo,               \* last servo command the controller was sent
  wheel,               \* last velocity the controller was sent
  by                   \* history: what sent the last servo command

world == <<contact, broken>>
vars == <<linear, control_linear, bPosition_mode_flag, m_bFlag_joy_enable, pressed,
          faulty, m_bflag_bumper, contact, broken, servo, wheel, by>>

Init ==
  /\ linear = 0 /\ control_linear = 0
  /\ bPosition_mode_flag = FALSE
  /\ m_bFlag_joy_enable = FALSE
  /\ pressed = FALSE
  /\ faulty = TRUE           \* error codes and fuses start as 0
  /\ m_bflag_bumper = FALSE
  /\ contact \in BOOLEAN /\ broken \in BOOLEAN
  /\ servo = TRUE            \* main switches it on before the loop
  /\ wheel = 0
  /\ by = "boot"

-----------------------------------------------------------------------------
Lower(a, b)  == IF a < b THEN a ELSE b
Higher(a, b) == IF a > b THEN a ELSE b

(* Fault: one step size both ways, not clamped at the requested velocity. *)
Faulty_Smooth(input, control) ==
  IF input > control THEN control + Brake
  ELSE IF input < control THEN control - Brake
  ELSE input

(* One pass of the smoother.  A positive request is approached by Creep     *)
(* from below and by Brake from above; any other request by Creep from      *)
(* above, with a further Brake while the velocity is still positive, and by *)
(* Brake from below.                                                        *)
Smooth(input, control) ==
  LET slower == Higher(input, control - Creep)
  IN  IF input >= control
      THEN Lower(input, control + (IF input > 0 THEN Creep ELSE Brake))
      ELSE IF input > 0 THEN Higher(input, control - Brake)
      ELSE IF slower > 0 THEN Higher(input, slower - Brake)
      ELSE slower

(* set_servo(on). *)
SetServo(on, source) == servo' = on /\ by' = source

(* Fault: the bumper branch does not wait for the release before it         *)
(* switches the servo on again.                                             *)
Faulty_Servo(recover) ==
  IF pressed' /\ m_bflag_bumper THEN SetServo(FALSE, "bumper")
  ELSE IF ~m_bflag_bumper THEN SetServo(TRUE, "release")
  ELSE IF recover THEN SetServo(TRUE, "recovery")
  ELSE UNCHANGED <<servo, by>>

(* The servo commands of one pass: error recovery first, then the bumper:   *)
(* off at the first pass that sees it pressed, on at the first that does    *)
(* not.                                                                     *)
Servo(recover) ==
  IF pressed' /\ m_bflag_bumper THEN SetServo(FALSE, "bumper")
  ELSE IF ~pressed' /\ ~m_bflag_bumper THEN SetServo(TRUE, "release")
  ELSE IF recover THEN SetServo(TRUE, "recovery")
  ELSE UNCHANGED <<servo, by>>

(* Fault: the release of the bumper is not noticed. *)
Faulty_ReadBack(heard, diagnosed) ==
  /\ pressed' = IF heard THEN pressed \/ contact ELSE pressed
  /\ faulty' = IF diagnosed THEN broken ELSE faulty

(* The answers to the velocity command and to the error query; without an   *)
(* answer the last values stay.                                             *)
ReadBack(heard, diagnosed) ==
  /\ pressed' = IF heard THEN contact ELSE pressed
  /\ faulty' = IF diagnosed THEN broken ELSE faulty

MainLoop(heard, diagnosed) ==
  /\ control_linear' = Smooth(linear, control_linear)
  /\ IF bPosition_mode_flag
     THEN UNCHANGED <<wheel, pressed, faulty>>
     ELSE wheel' = control_linear' /\ ReadBack(heard, diagnosed)
  /\ Servo(~bPosition_mode_flag /\ faulty')
  /\ m_bflag_bumper' = ~pressed'
  /\ UNCHANGED <<linear, bPosition_mode_flag, m_bFlag_joy_enable, world>>

-----------------------------------------------------------------------------
(* cmd_vel_nav2 and cmd_vel_manual: the last message wins. *)
velCallback(v) ==
  /\ linear' = v
  /\ UNCHANGED <<control_linear, bPosition_mode_flag, m_bFlag_joy_enable, pressed,
                 faulty, m_bflag_bumper, world, servo, wheel, by>>

(* Button 8 disables and button 9 enables the joystick; while it is         *)
(* enabled every message sets the velocity.                                 *)
joyCallback(back, start, v) ==
  /\ m_bFlag_joy_enable' = (start \/ (m_bFlag_joy_enable /\ ~back))
  /\ linear' = IF m_bFlag_joy_enable' THEN v ELSE linear
  /\ UNCHANGED <<control_linear, bPosition_mode_flag, pressed, faulty, m_bflag_bumper,
                 world, servo, wheel, by>>

servo_onCallback(data) ==
  /\ SetServo(data # 2, "request")
  /\ bPosition_mode_flag' = IF data = 2 THEN bPosition_mode_flag ELSE data = 3
  /\ UNCHANGED <<linear, control_linear, m_bFlag_joy_enable, pressed, faulty,
                 m_bflag_bumper, world, wheel>>

(* power_status -10: power board error. *)
power_statusCallback ==
  /\ SetServo(FALSE, "request")
  /\ UNCHANGED <<linear, control_linear, bPosition_mode_flag, m_bFlag_joy_enable, pressed,
                 faulty, m_bflag_bumper, world, wheel>>

(* Servo off, write, servo on. *)
Parameter_Write_Command ==
  /\ SetServo(TRUE, "request")
  /\ UNCHANGED <<linear, control_linear, bPosition_mode_flag, m_bFlag_joy_enable, pressed,
                 faulty, m_bflag_bumper, world, wheel>>

(* Servo off, mode, servo on. *)
Movemode_Change_Command(mode) ==
  /\ bPosition_mode_flag' = (mode = 1)
  /\ SetServo(TRUE, "request")
  /\ UNCHANGED <<linear, control_linear, m_bFlag_joy_enable, pressed, faulty,
                 m_bflag_bumper, world, wheel>>

(* The robot touches or leaves an obstacle; a driver error comes or goes. *)
World ==
  /\ contact' \in BOOLEAN /\ broken' \in BOOLEAN
  /\ UNCHANGED <<linear, control_linear, bPosition_mode_flag, m_bFlag_joy_enable, pressed,
                 faulty, m_bflag_bumper, servo, wheel, by>>

Next ==
  \/ \E heard, diagnosed \in BOOLEAN : MainLoop(heard, diagnosed)
  \/ \E v \in Speeds : velCallback(v)
  \/ \E back, start \in BOOLEAN, v \in Speeds : joyCallback(back, start, v)
  \/ \E data \in 1..3 : servo_onCallback(data)
  \/ power_statusCallback
  \/ Parameter_Write_Command
  \/ \E mode \in 0..1 : Movemode_Change_Command(mode)
  \/ World

(* The loop runs 60 times a second, and now and then the controller answers.*)
Fairness == WF_vars(MainLoop(TRUE, TRUE))

Spec == Init /\ [][Next]_vars /\ Fairness

-----------------------------------------------------------------------------
(* No lower than the lowest and no higher than the highest request, rest    *)
(* included.                                                                *)
Requestable == {v \in Int : \E a, b \in Speeds \cup {0} : a <= v /\ v <= b}

(* Types of the node's and the controller's state.  The motors never get a  *)
(* velocity beyond what somebody has asked for.                             *)
TypeOK ==
  /\ linear \in Speeds \cup {0}
  /\ control_linear \in Requestable /\ wheel \in Requestable
  /\ bPosition_mode_flag \in BOOLEAN
  /\ m_bFlag_joy_enable \in BOOLEAN
  /\ pressed \in BOOLEAN /\ faulty \in BOOLEAN /\ m_bflag_bumper \in BOOLEAN
  /\ contact \in BOOLEAN /\ broken \in BOOLEAN
  /\ servo \in BOOLEAN
  /\ by \in {"boot", "bumper", "release", "recovery", "request"}

(* While the bumper is known to be pressed the servo is off, unless         *)
(* something outside the bumper branch has switched it on: the start-up,    *)
(* the error recovery of the same loop, or a command.                       *)
BumperHoldsServoOff ==
  pressed /\ servo => by \in {"boot", "recovery", "request"}

Between(x, a, b) == (a <= x /\ x <= b) \/ (b <= x /\ x <= a)

(* The smoother never runs past the requested velocity and never moves away *)
(* from it, also while it brakes through zero with two steps in one pass.   *)
NoOvershoot ==
  [][control_linear' # control_linear => Between(control_linear', control_linear, linear)]_vars

(* The motors get exactly the requested velocity in the end, when it and    *)
(* the velocity mode last.                                                  *)
SpeedReached ==
  \A v \in Speeds : <>[](linear = v /\ ~bPosition_mode_flag) => <>[](wheel = v)

(* When the obstacle is gone the robot does not stay without servo because  *)
(* of the bumper.                                                           *)
ReleaseRestoresServo ==
  <>[](~contact /\ ~bPosition_mode_flag) => <>[](~servo => by # "bumper")
=============================================================================
