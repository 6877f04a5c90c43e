-------------------------- MODULE TetraDriveProofs --------------------------
(* TLAPS proofs about TetraDrive, for any requests and any ramp steps.      *)
EXTENDS TetraDrive, TLAPS

(* One pass of the smoother ends between where it started and the request:  *)
(* the clamps of tetra.cpp hold for every pair of ramp steps, also where    *)
(* two steps are taken in one pass.                                         *)
LEMMA SmoothBetween ==
  ASSUME NEW input \in Int, NEW control \in Int
  PROVE  /\ Smooth(input, control) \in Int
         /\ Between(Smooth(input, control), control, input)
<1> USE DriveAssumption
<1>1. CASE input = control
  BY <1>1 DEF Smooth, Between, Lower, Higher
<1>2. CASE input > control
  BY <1>2 DEF Smooth, Between, Lower, Higher
<1>3. CASE input < control /\ input > 0
  BY <1>3 DEF Smooth, Between, Lower, Higher
<1>4. CASE input < control /\ input <= 0
  BY <1>4 DEF Smooth, Between, Lower, Higher
<1> QED
  BY <1>1, <1>2, <1>3, <1>4

(* What lies between two requestable velocities is requestable. *)
LEMMA RequestableBetween ==
  ASSUME NEW v \in Int, NEW a \in Requestable, NEW b \in Speeds \cup {0}, Between(v, a, b)
  PROVE  v \in Requestable
BY DriveAssumption DEF Requestable, Between

-----------------------------------------------------------------------------
(* Types of the node's and the controller's state; the motors never get a   *)
(* velocity below the lowest or above the highest request.                  *)
THEOREM TypeCorrect == Spec => []TypeOK
<1>1. Init => TypeOK
  <2>1. 0 \in Requestable
    BY DriveAssumption DEF Requestable
  <2> QED
    BY <2>1 DEF Init, TypeOK
<1>2. TypeOK /\ [Next]_vars => TypeOK'
  <2> SUFFICES ASSUME TypeOK, [Next]_vars PROVE TypeOK'
    OBVIOUS
  <2> USE DEF TypeOK, SetServo, world
  <2>1. ASSUME NEW heard \in BOOLEAN, NEW diagnosed \in BOOLEAN,
               MainLoop(heard, diagnosed)
        PROVE  TypeOK'
    <3>1. control_linear' \in Requestable
      <4>1. linear \in Int /\ control_linear \in Int
        BY DriveAssumption DEF Requestable
      <4>2. control_linear' = Smooth(linear, control_linear)
        BY <2>1 DEF MainLoop
      <4>3. /\ control_linear' \in Int
            /\ Between(control_linear', control_linear, linear)
        BY <4>1, <4>2, SmoothBetween
      <4> QED
        BY <4>3, RequestableBetween
    <3>2. pressed' \in BOOLEAN /\ faulty' \in BOOLEAN
      BY <2>1 DEF MainLoop, ReadBack
    <3> QED
      BY <2>1, <3>1, <3>2 DEF MainLoop, ReadBack, Servo
  <2>2. ASSUME NEW v \in Speeds, velCallback(v) PROVE TypeOK'
    BY <2>2 DEF velCallback
  <2>3. ASSUME NEW back \in BOOLEAN, NEW start \in BOOLEAN, NEW v \in Speeds,
               joyCallback(back, start, v)
        PROVE  TypeOK'
    BY <2>3 DEF joyCallback
  <2>4. ASSUME NEW data \in 1..3, servo_onCallback(data) PROVE TypeOK'
    BY <2>4 DEF servo_onCallback
  <2>5. ASSUME power_statusCallback PROVE TypeOK'
    BY <2>5 DEF power_statusCallback
  <2>6. ASSUME Parameter_Write_Command PROVE TypeOK'
    BY <2>6 DEF Parameter_Write_Command
  <2>7. ASSUME NEW mode \in 0..1, Movemode_Change_Command(mode) PROVE TypeOK'
    BY <2>7 DEF Movemode_Change_Command
  <2>8. ASSUME World PROVE TypeOK'
    BY <2>8 DEF World
  <2>9. ASSUME UNCHANGED vars PROVE TypeOK'
    BY <2>9 DEF vars
  <2> QED
    BY <2>1, <2>2, <2>3, <2>4, <2>5, <2>6, <2>7, <2>8, <2>9 DEF Next
<1> QED
  BY <1>1, <1>2, PTL DEF Spec

(* The smoother never passes the request and never moves away from it.      *)
THEOREM Smoothing == Spec => NoOvershoot
<1>1. TypeOK /\ [Next]_vars =>
        [control_linear' # control_linear =>
           Between(control_linear', control_linear, linear)]_vars
  <2> SUFFICES ASSUME TypeOK, Next, control_linear' # control_linear
               PROVE  Between(control_linear', control_linear, linear)
    OBVIOUS
  <2>1. PICK heard \in BOOLEAN, diagnosed \in BOOLEAN : MainLoop(heard, diagnosed)
    BY DEF Next, velCallback, joyCallback, servo_onCallback, power_statusCallback,
           Parameter_Write_Command, Movemode_Change_Command, World
  <2> QED
    BY <2>1, SmoothBetween, DriveAssumption DEF MainLoop, TypeOK, Requestable
<1> QED
  BY <1>1, TypeCorrect, PTL DEF Spec, NoOvershoot

-----------------------------------------------------------------------------
(* The loop's flag remembers the last reading of the bumper, once the loop  *)
(* has run; before that, the servo command in force is from start-up or     *)
(* from a service.                                                          *)
BumperFlagAgrees == m_bflag_bumper = ~pressed \/ by \in {"boot", "request"}

(* While the bumper is known to be pressed only start-up, error recovery    *)
(* and commands switch the servo on.  That the bumper branch does not is    *)
(* inductive together with the flag it keeps between two passes.            *)
THEOREM BumperHolds == Spec => []BumperHoldsServoOff
<1> DEFINE IInv == BumperFlagAgrees /\ BumperHoldsServoOff
<1>1. Init => IInv
  BY DEF Init, BumperFlagAgrees, BumperHoldsServoOff
<1>2. TypeOK /\ IInv /\ [Next]_vars => IInv'
  <2> SUFFICES ASSUME TypeOK, IInv, [Next]_vars PROVE IInv'
    OBVIOUS
  <2> USE DEF TypeOK, BumperFlagAgrees, BumperHoldsServoOff, SetServo
  <2>1. ASSUME NEW heard \in BOOLEAN, NEW diagnosed \in BOOLEAN,
               MainLoop(heard, diagnosed)
        PROVE  IInv'
    <3>1. BumperFlagAgrees'
      BY <2>1 DEF MainLoop
    <3>2. CASE pressed' /\ m_bflag_bumper
      BY <2>1, <3>1, <3>2 DEF MainLoop, Servo
    <3>3. CASE pressed' /\ ~m_bflag_bumper
      <4>1. \/ servo' = TRUE /\ by' = "recovery"
            \/ servo' = servo /\ by' = by
        BY <2>1, <3>3 DEF MainLoop, Servo
      <4> QED
        BY <3>1, <3>3, <4>1
    <3>4. CASE ~pressed'
      BY <3>1, <3>4
    <3> QED
      BY <3>2, <3>3, <3>4
  <2>2. ASSUME NEW v \in Speeds, velCallback(v) PROVE IInv'
    BY <2>2 DEF velCallback
  <2>3. ASSUME NEW back \in BOOLEAN, NEW start \in BOOLEAN, NEW v \in Speeds,
               joyCallback(back, start, v)
        PROVE  IInv'
    BY <2>3 DEF joyCallback
  <2>4. ASSUME NEW data \in 1..3, servo_onCallback(data) PROVE IInv'
    BY <2>4 DEF servo_onCallback
  <2>5. ASSUME power_statusCallback PROVE IInv'
    BY <2>5 DEF power_statusCallback
  <2>6. ASSUME Parameter_Write_Command PROVE IInv'
    BY <2>6 DEF Parameter_Write_Command
  <2>7. ASSUME NEW mode \in 0..1, Movemode_Change_Command(mode) PROVE IInv'
    BY <2>7 DEF Movemode_Change_Command
  <2>8. ASSUME World PROVE IInv'
    BY <2>8 DEF World
  <2>9. ASSUME UNCHANGED vars PROVE IInv'
    BY <2>9 DEF vars
  <2> QED
    BY <2>1, <2>2, <2>3, <2>4, <2>5, <2>6, <2>7, <2>8, <2>9 DEF Next
<1>3. IInv => BumperHoldsServoOff
  OBVIOUS
<1> QED
  BY <1>1, <1>2, <1>3, TypeCorrect, PTL DEF Spec
=============================================================================
