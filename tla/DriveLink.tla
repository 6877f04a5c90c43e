----------------------------- MODULE DriveLink ------------------------------
(***************************************************************************)
(* The serial line between the tetra node and the motor controller         *)
(* (tetra/src/drive_module.c, dssp_rs232_drive_module.c, include/          *)
(* rs232_common.c), byte by byte as far as framing goes, with the drive    *)
(* loop and the handlers of tetra.cpp as its user.                         *)
(*                                                                         *)
(* A handler is a sequence of requests (todo); an exchange (write, then    *)
(* read until the answer is complete or no byte has come for 0.2 s) is one *)
(* step, since the node has one thread and nothing else reads the port.    *)
(* Nothing flushes the port and no answer names its request: what comes    *)
(* late is read by a later request.                                        *)
(*                                                                         *)
(* Answers start with STX and end with ETX and an LRC, but the state       *)
(* answer to the velocity command is binary and of fixed length: any byte  *)
(* of its position and velocities, and its LRC, can read as STX or ETX,    *)
(* and its bumper byte is 2 or 3 when pressed, that is, STX or ETX too.    *)
(***************************************************************************)
EXTENDS Integers, Sequences, SequencesExt, Rs232

CONSTANTS
  Accels,  \* values of the acceleration parameter (number 6), one digit each
  Boot,    \* the one main sets
  Motions, \* the 14 bytes of position, heading and velocities in a state answer
  Switches, \* the byte of the emergency switch in a state answer
  Noise,   \* what a damaged byte becomes
  Behind   \* bound: answers under way that the node has not waited for

ASSUME LinkAssumption ==
  /\ Accels \subseteq 1..9
  /\ Boot \in Accels
  /\ Motions \subseteq [1..14 -> 0..255]
  /\ Switches \subseteq 0..255 /\ Noise \in 0..255
  /\ Behind \in Nat

VARIABLES
  at,       \* "callbacks", "judge", "bumper" (points of the loop), "exit", "ended"
  todo,     \* requests the current handler has still to make
  stream,   \* bytes that have arrived and are unread
  owed,     \* answers still under way, oldest first
  m_bumper_data,
  m_error,  \* some error code is not 48 or some fuse reads 0, as last read
  m_bflag_bumper,
  bPosition_mode_flag,
  m_old_accel_data,
  controller,  \* its mode and acceleration (servo and faults are TetraDrive's subject)
  contacts,    \* bumper bytes the controller may report: any, and one in the end
  late,        \* history: some answer came after its exchange had ended
  strayed      \* history: a setting was lost, or written past accelCallback

line == <<stream, owed>>
node == <<m_bumper_data, m_error, m_bflag_bumper, bPosition_mode_flag, m_old_accel_data>>
world == <<contacts, late, strayed>>
vars == <<at, todo, line, node, controller, world>>

-----------------------------------------------------------------------------
(* Frames, from STX to ETX.                                                 *)
Bumpers == {0, STX, ETX}

Ack == <<STX, FLAG_OK, ETX>>

State(motion, bumper, emg) == <<STX, FLAG_OK>> \o motion \o <<bumper, emg, ETX>>

States(bumpers) == {State(m, c, e) : m \in Motions, c \in bumpers, e \in Switches}

(* Fuses and codes of both motors: 32 is an intact fuse, 48 no error. *)
Errors(fault) ==
  LET code == IF fault THEN 49 ELSE 48 IN <<STX, FLAG_OK, 32, code, 32, code, ETX>>

Number(digit) == <<STX, FLAG_OK, 48 + digit, ETX>>

Frames == {Ack} \cup States(Bumpers) \cup {Errors(f) : f \in BOOLEAN}
            \cup {Number(v) : v \in Accels}

Lrc == [frame \in Frames |-> make_lrc(Tail(frame))]

-----------------------------------------------------------------------------
(* Reads.  The result is the packet and what is left to read.               *)
Position(byte, bytes) == SelectInSeq(bytes, LAMBDA b : b = byte)

From(i, bytes) == SubSeq(bytes, i, Len(bytes))
Upto(n, bytes) == SubSeq(bytes, 1, IF n < Len(bytes) THEN n ELSE Len(bytes))

Packet(bytes, rest) == [bytes |-> bytes, rest |-> rest]

(* Fault: reads to ETX, whatever comes first. *)
Faulty_get_response(bytes) ==
  LET end == Position(ETX, bytes) + 1
  IN  IF end = 1 \/ end > Len(bytes) THEN Packet(<<>>, <<>>)
      ELSE Packet(Upto(end, bytes), From(end + 1, bytes))

(* Reads to STX, from there to ETX, and one byte more.  Without all of them *)
(* everything is consumed.                                                  *)
get_response(bytes) ==
  LET start == Position(STX, bytes)
      frame == From(start, bytes)
      end   == Position(ETX, frame) + 1
  IN  IF start = 0 \/ end = 1 \/ end > Len(frame) THEN Packet(<<>>, <<>>)
      ELSE Packet(SubSeq(frame, 1, end), From(end + 1, frame))

(* What get_response makes of the frame: flag and LRC have to be right. *)
Accepted(packet) ==
  LET size == Len(packet.bytes)
  IN  /\ size > 0 /\ packet.bytes[2] = FLAG_OK
      /\ packet.bytes[size] = make_lrc(SubSeq(packet.bytes, 2, size - 1))

(* Fault: the LRC is not read.                                              *)
Faulty_get_response2(bytes) ==
  LET start == Position(STX, bytes)
      frame == From(start, bytes)
  IN  IF start = 0 THEN Packet(<<>>, <<>>)
      ELSE Packet(Upto(19, frame), From(20, frame))

(* Reads to STX and 19 bytes from there on, or what there is.  Whether flag *)
(* and LRC are right is only returned, and nobody looks at that.            *)
get_response2(bytes) ==
  LET start == Position(STX, bytes)
      frame == From(start, bytes)
  IN  IF start = 0 THEN Packet(<<>>, <<>>)
      ELSE Packet(Upto(20, frame), From(21, frame))

(* Byte i of the packet buffer, which was cleared before the read.          *)
Byte(packet, i) == IF i < Len(packet.bytes) THEN packet.bytes[i + 1] ELSE 0

(* drvm_set_velocity2 takes a packet for the controller's state.            *)
Decodes(packet) ==
  /\ Byte(packet, 0) = STX
  /\ Byte(packet, 1) \in {FLAG_OK, 50}
  /\ Byte(packet, 18) = ETX

(* drvm_read_drive_err: codes in bytes 3 and 5, fuses in bit 5 of 2 and 4.  *)
ReportsError(packet) ==
  \/ Byte(packet, 3) # 48 \/ Byte(packet, 5) # 48
  \/ (Byte(packet, 2) \div 32) % 2 = 0 \/ (Byte(packet, 4) \div 32) % 2 = 0

-----------------------------------------------------------------------------
(* Requests, and what the controller makes of them.                         *)
Request(op, arg) == [op |-> op, arg |-> arg]

set_servo           == <<Request("servo", 0)>>  \* on or off: TetraDrive's subject
set_mode(mode)      == <<Request("mode", mode)>>
set_drive_err_reset == <<Request("err_reset", 0)>>
set_odometry        == <<Request("odometry", 0)>>
set_velocity2       == <<Request("velocity", 0)>>
read_drive_err      == <<Request("errors", 0)>>
set_position        == <<Request("position", 0)>>
read_parameter      == <<Request("read", 0)>>
set_parameter(v)    == <<Request("parameter", v)>>
save_parameter      == <<Request("save", 0)>>

(* drvm_set_parameter saves only a parameter that was acknowledged. *)
Then(request, ok) ==
  IF request.op = "parameter" /\ ok THEN save_parameter ELSE <<>>

Obeyed(request) ==
  IF request.op = "mode" THEN [controller EXCEPT !.mode = request.arg]
  ELSE IF request.op = "parameter" THEN [controller EXCEPT !.accel = request.arg]
  ELSE controller

(* The robot moves as it likes, and the motor driver may trip and recover.  *)
AnswersTo(request) ==
  CASE request.op = "velocity" -> States(contacts)
    [] request.op = "errors"   -> {Errors(fault) : fault \in BOOLEAN}
    [] request.op = "read"     -> {Number(controller.accel)}
    [] OTHER                   -> {Ack}

(* What arrives for an answer: the frame and its LRC, intact or with one    *)
(* byte damaged, the LRC or the bumper.                                     *)
Intact(answer) == Append(answer, Lrc[answer])

Damaged(answer) ==
  {[Intact(answer) EXCEPT ![i] = Noise] :
     i \in {Len(answer) + 1} \cup (IF Len(answer) = 19 THEN {17} ELSE {})}

(* Only the framing, and the bumper, read as STX or ETX. *)
Unambiguous(bytes) ==
  \A i \in 2..Len(bytes) :
    bytes[i] \in {STX, ETX} => i = Len(bytes) - 1 \/ (i = 17 /\ Len(bytes) = 20)

-----------------------------------------------------------------------------
(* main: error reset, acceleration, velocity mode, servo on, odometry.      *)
Init ==
  /\ at = "callbacks"
  /\ todo = set_drive_err_reset \o set_parameter(Boot) \o set_mode("velocity")
              \o set_servo \o set_odometry
  /\ stream = <<>> /\ owed = <<>>
  /\ m_bumper_data = 0
  /\ m_error = TRUE          \* codes and fuses start as 0
  /\ m_bflag_bumper = FALSE
  /\ bPosition_mode_flag = FALSE
  /\ m_old_accel_data = Boot
  /\ controller \in [mode : {"velocity", "position"}, accel : Accels]
  /\ contacts = Bumpers
  /\ late = FALSE
  /\ strayed = FALSE

Settings == {"mode", "parameter"}

Calm == contacts # Bumpers

(* One request: the controller gets it or not and answers (answers) or not; *)
(* the first n answers under way arrive in time.                            *)
Exchange(reached, answers, n) ==
  LET request   == Head(todo)
      due       == owed \o answers
      delivered == SubSeq(due, 1, n)
      bytes     == stream \o FlattenSeq(delivered)
      packet    == IF request.op = "velocity" THEN get_response2(bytes)
                   ELSE get_response(bytes)
  IN  /\ reached \/ answers = <<>>
      /\ n <= Len(due) /\ Len(due) - n <= Behind
      /\ Calm => /\ \E answer \in AnswersTo(request) :
                      answers = <<Intact(answer)>> /\ Unambiguous(Intact(answer))
                 /\ n = Len(due)
      /\ stream' = packet.rest
      /\ owed' = From(n + 1, due)
      /\ controller' = IF reached THEN Obeyed(request) ELSE controller
      /\ todo' = Then(request, Accepted(packet)) \o Tail(todo)
      /\ m_bumper_data' = IF request.op = "velocity" /\ Decodes(packet)
                          THEN Byte(packet, 16) ELSE m_bumper_data
      /\ m_error' = IF request.op = "errors" /\ Accepted(packet)
                    THEN ReportsError(packet) ELSE m_error
      /\ late' = (late \/ owed' # <<>>)
      /\ strayed' = (strayed \/ (request.op \in Settings /\ ~reached))
      /\ UNCHANGED <<at, m_bflag_bumper, bPosition_mode_flag, m_old_accel_data, contacts>>

MakeExchange ==
  /\ todo # <<>>
  /\ \E answer \in AnswersTo(Head(todo)), reached \in BOOLEAN, n \in 0..Behind + 1 :
       \E answers \in {<<>>} \cup {<<a>> : a \in {Intact(answer)} \cup Damaged(answer)} :
         Exchange(reached, answers, n)

-----------------------------------------------------------------------------
(* The loop.  At "callbacks" spin_some runs the waiting handlers.           *)
Reached(point) == at = point /\ todo = <<>>

(* Velocity command and error query, in velocity mode only. *)
StartPass ==
  /\ Reached("callbacks")
  /\ at' = "judge"
  /\ todo' = IF bPosition_mode_flag THEN <<>> ELSE set_velocity2 \o read_drive_err
  /\ UNCHANGED <<line, node, controller, world>>

(* Error recovery. *)
Judge ==
  /\ Reached("judge")
  /\ at' = "bumper"
  /\ todo' = IF ~bPosition_mode_flag /\ m_error
             THEN set_drive_err_reset \o set_servo ELSE <<>>
  /\ UNCHANGED <<line, node, controller, world>>

(* The bumper branch: servo off once per press, on once per release. *)
CheckBumper ==
  LET pressed == m_bumper_data \in {2, 3}
  IN  /\ Reached("bumper")
      /\ at' = "callbacks"
      /\ todo' = IF pressed /\ m_bflag_bumper THEN set_servo \o set_drive_err_reset
                 ELSE IF ~pressed /\ ~m_bflag_bumper THEN set_servo ELSE <<>>
      /\ m_bflag_bumper' = ~pressed
      /\ UNCHANGED <<line, m_bumper_data, m_error, bPosition_mode_flag, m_old_accel_data,
                     controller, world>>

(* After a signal: servo off, then the port is closed. *)
Leave ==
  /\ Reached("callbacks")
  /\ at' = "exit"
  /\ todo' = set_servo
  /\ UNCHANGED <<line, node, controller, world>>

Destroy ==
  /\ Reached("exit")
  /\ at' = "ended"
  /\ stream' = <<>> /\ owed' = <<>>
  /\ UNCHANGED <<todo, node, controller, world>>

-----------------------------------------------------------------------------
(* The handlers.  None of them looks at the result of a request.            *)
Handle(requests) ==
  /\ Reached("callbacks")
  /\ todo' = requests
  /\ UNCHANGED <<at, line, m_bumper_data, m_error, m_bflag_bumper, controller, contacts, late>>

(* Topic accel_vel: only a value other than the last one is sent. *)
accelCallback(v) ==
  /\ v # m_old_accel_data
  /\ Handle(set_parameter(v))
  /\ m_old_accel_data' = v
  /\ UNCHANGED <<bPosition_mode_flag, strayed>>

pose_resetCallback ==
  /\ Handle(set_odometry)
  /\ UNCHANGED <<m_old_accel_data, bPosition_mode_flag, strayed>>

(* Topic servo_on: 1 on in velocity mode, 2 off, 3 on in position mode. *)
servo_onCallback(data) ==
  /\ Handle(IF data = 1 THEN set_mode("velocity") \o set_servo
            ELSE IF data = 3 THEN set_mode("position") \o set_servo ELSE set_servo)
  /\ bPosition_mode_flag' = IF data = 2 THEN bPosition_mode_flag ELSE data = 3
  /\ UNCHANGED <<m_old_accel_data, strayed>>

(* Topic power_status with -10. *)
power_statusCallback ==
  /\ Handle(set_servo)
  /\ UNCHANGED <<m_old_accel_data, bPosition_mode_flag, strayed>>

Parameter_Read_Command ==
  /\ Handle(read_parameter)
  /\ UNCHANGED <<m_old_accel_data, bPosition_mode_flag, strayed>>

(* Any parameter may be written, the acceleration too, and the value that   *)
(* accelCallback remembers stays as it was.                                 *)
Parameter_Write_Command(v) ==
  /\ Handle(set_servo \o set_parameter(v) \o set_servo)
  /\ strayed' = TRUE
  /\ UNCHANGED <<m_old_accel_data, bPosition_mode_flag>>

(* Fault: the flag does not follow the mode. *)
Faulty_Movemode_Change_Command(mode) ==
  /\ Handle(set_servo \o set_mode(mode) \o set_servo)
  /\ UNCHANGED <<bPosition_mode_flag, m_old_accel_data, strayed>>

Movemode_Change_Command(mode) ==
  /\ Handle(set_servo \o set_mode(mode) \o set_servo)
  /\ bPosition_mode_flag' = (mode = "position")
  /\ UNCHANGED <<m_old_accel_data, strayed>>

(* Linear_Move_Command and Angular_Move_Command: in any mode. *)
Position_Move_Command ==
  /\ Handle(set_position)
  /\ UNCHANGED <<m_old_accel_data, bPosition_mode_flag, strayed>>

Callbacks ==
  \/ \E v \in Accels : accelCallback(v) \/ Parameter_Write_Command(v)
  \/ pose_resetCallback
  \/ \E data \in 1..3 : servo_onCallback(data)
  \/ power_statusCallback
  \/ Parameter_Read_Command
  \/ \E mode \in {"velocity", "position"} : Movemode_Change_Command(mode)
  \/ Position_Move_Command

-----------------------------------------------------------------------------
(* From now on the bumper stays as it is and the line is good: nothing is   *)
(* lost, late, damaged or ambiguous any more.                               *)
CalmDown(bumper) ==
  /\ ~Calm
  /\ contacts' = {bumper}
  /\ UNCHANGED <<at, todo, line, node, controller, late, strayed>>

Next ==
  \/ MakeExchange \/ StartPass \/ Judge \/ CheckBumper \/ Leave \/ Destroy
  \/ Callbacks
  \/ \E bumper \in Bumpers : CalmDown(bumper)

(* Every exchange ends, with a time-out at the latest: todo is a finite list *)
(* and only exchanges shorten it, so []<>(todo = <<>>) is weak fairness of  *)
(* MakeExchange.  spin_some runs only the handlers that wait when it begins.*)
Fairness ==
  /\ []<>(todo = <<>>)
  /\ WF_vars(Judge) /\ WF_vars(CheckBumper) /\ SF_vars(StartPass)

Spec == Init /\ [][Next]_vars /\ Fairness

-----------------------------------------------------------------------------
(* Only a late answer puts the line out of step: until there is one, every  *)
(* exchange takes all of its answer from the port, be it intact, damaged or *)
(* missing (get_response, get_response2).                                   *)
InStepUnlessLate == late \/ stream = <<>>

(* Between handlers the position flag is the controller's mode and the      *)
(* remembered acceleration the one in force, unless a request to set them   *)
(* was lost or a client wrote the parameter itself: answers that are late,  *)
(* damaged or taken for one another do not matter.                          *)
SettingsAgree ==
  (todo = <<>> /\ ~strayed) =>
     /\ bPosition_mode_flag <=> (controller.mode = "position")
     /\ m_old_accel_data = controller.accel

(* In a good line and in velocity mode with an unchanging bumper. *)
Steady(bumper) ==
  contacts = {bumper} /\ ~bPosition_mode_flag /\ at \notin {"exit", "ended"}

(* However far the line got out of step, the bumper's state is the node's   *)
(* in the end, if it is not pressed or reported as 3, and if the answers    *)
(* hold no STX or ETX beside their framing: with either, an answer can be   *)
(* found in the wrong place for ever (CalmDown, get_response, get_response2).*)
Resynchronises ==
  \A bumper \in Bumpers \ {STX} : <>[]Steady(bumper) => <>[](m_bumper_data = bumper)
=============================================================================
