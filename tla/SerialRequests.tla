--------------------------- MODULE SerialRequests ---------------------------
(***************************************************************************)
(* What the services of the tetra_interface node ask the power board for,  *)
(* and the drive node the motor controller, byte by byte (power_module.c,  *)
(* drive_module.c, rs232_common.c), and what the answers to the read       *)
(* requests become in the replies.                                         *)
(*                                                                         *)
(* A service call is one step.  A read may find its own answer, nothing,   *)
(* or something else: the late answer to an earlier request, the rest of   *)
(* one, an answer damaged under way.  How the line gets there is the       *)
(* subject of SerialLink and DriveLink.  The boards are external: a board  *)
(* takes what follows the two letters of a request for numbers separated   *)
(* by semicolons, as str2int does.                                         *)
(***************************************************************************)
EXTENDS Integers, Sequences, FiniteSets, SequencesExt, Rs232

CONSTANTS
  Numbers,   \* arguments of the services
  Params,    \* parameters of the motor controller that are written
  Speeds,    \* wheel speeds, mm/s
  Settings,  \* what the eight outputs can be set to
  Inports,   \* states of the eight inputs and outputs, read as one word
  Words,     \* what the power board's answers hold, of which a request reads
             \* some of the first
  Strays     \* bytes that a read may find instead of its answer

(* int, without the number that has no opposite. *)
Bounded == {n \in Int : -2147483647 <= n /\ n <= 2147483647}
Short   == {n \in Nat : n < 65536}

ASSUME RequestAssumption ==
  /\ Numbers \subseteq Bounded
  /\ Params \subseteq 1..99
  /\ Speeds \subseteq Bounded
  /\ Settings \subseteq [0..7 -> 0..1]
  /\ Inports \subseteq 0..255
  /\ Words \subseteq [1..32 -> Short]
  /\ Strays \subseteq Seq(0..255)

VARIABLES
  asked,     \* what the last call asked for: letters and numbers
  packet,    \* its bytes, <<>> when they could not be written
  m_iParam,  \* the 32 globals that the read services share
  gpio_msg,  \* inputs and outputs as last read, bit by bit
  response,  \* the words of the last reply
  board,     \* what the board has answered: its words, <<>> for no answer
  met        \* what the last read has met: "answer", "silence", "stray", or "none"
             \* when nothing was read

requestVars == <<asked, packet, m_iParam, gpio_msg, response, board, met>>

-----------------------------------------------------------------------------
(* Numbers and bytes (rs232_common.c).                                      *)
Semicolon == 59
Minus == 45

Ascii == [A |-> 65, B |-> 66, C |-> 67, D |-> 68, E |-> 69, F |-> 70, G |-> 71,
          I |-> 73, L |-> 76, M |-> 77, N |-> 78, O |-> 79, P |-> 80, Q |-> 81,
          R |-> 82, S |-> 83, T |-> 84, V |-> 86, W |-> 87, X |-> 88, Z |-> 90,
          e |-> 101, o |-> 111]

(* The digits without leading zeros.  For 0 the digit is written, but does  *)
(* not count.                                                               *)
int2str(num) ==
  LET size == IF num < 0 THEN -num ELSE num
      significant == {i \in 0..9 : size \div Power(10, i) > 0}
      count == Cardinality(significant)
      digits == [k \in 1..count |-> 48 + ((size \div Power(10, count - k)) % 10)]
  IN  [text  |-> IF num = 0 THEN <<48>> ELSE IF num < 0 THEN <<Minus>> \o digits ELSE digits,
       count |-> IF num < 0 THEN count + 1 ELSE count]

Counted(num) == SubSeq(int2str(num).text, 1, int2str(num).count)

(* What the requests make of it: "if(x == 0) ret = 1". *)
Written(num) == IF num = 0 THEN int2str(num).text ELSE Counted(num)

(* One byte more: numbers end at a separator, the last one at ETX; anything *)
(* but digits and separators is skipped, signs too.                         *)
Scanned(before, byte) ==
  IF ~before.open THEN before
  ELSE IF byte \in 48..57 THEN [before EXCEPT !.value = 10 * @ + (byte - 48)]
  ELSE IF byte \in {Semicolon, ETX}
       THEN [values |-> Append(before.values, before.value), value |-> 0, open |-> byte # ETX]
  ELSE before

(* The numbers up to ETX. *)
str2int(bytes) ==
  LET scan[i \in 0..Len(bytes)] ==
        IF i = 0 THEN [values |-> <<>>, value |-> 0, open |-> TRUE]
        ELSE Scanned(scan[i - 1], bytes[i])
  IN  scan[Len(bytes)].values

(* The digits of a number, taken for bits. *)
binaryToDecimal(number) == Value([i \in 0..7 |-> (number \div Power(10, i)) % 10])

(* sprintf of the eight ports, the highest first, and atol. *)
Decimal(ports) == Total([i \in 0..7 |-> ports[i] * Power(10, i)])

-----------------------------------------------------------------------------
(* Requests: STX, two letters, what they ask for, ETX, LRC.                 *)
Framed(letters, body) ==
  LET text == <<Ascii[letters[1]], Ascii[letters[2]]>> \o body \o <<ETX>>
  IN  <<STX>> \o text \o <<make_lrc(text)>>

Joined(numbers) ==
  LET text[i \in 0..Len(numbers)] ==
        IF i = 0 THEN <<>>
        ELSE IF i = 1 THEN Written(numbers[1])
        ELSE text[i - 1] \o <<Semicolon>> \o Written(numbers[i])
  IN  text[Len(numbers)]

Request(letters, numbers, body) ==
  [letters |-> letters, numbers |-> numbers, bytes |-> Framed(letters, body)]

Listed(letters, numbers) == Request(letters, numbers, Joined(numbers))

power_set_light(id, brightness)       == Listed(<<"L", "I">>, <<id, brightness>>)
power_set_Single_OutputPort(id, value) == Listed(<<"P", "o">>, <<id, value>>)
power_set_Single_Enable(id, value)    == Listed(<<"P", "e">>, <<id, value>>)
power_toggle_on(id)                   == Listed(<<"L", "T">>, <<id>>)
power_set_light_toggle(index, acc1, high, acc2, low) ==
  Listed(<<"L", "D">>, <<index, acc1, high, acc2, low>>)
conveyor_parameter_write(id, data)    == Listed(<<"C", "W">>, <<id, data>>)

(* One digit, 1 or 0. *)
Switch(letters, on) ==
  LET digit == IF on = 1 THEN 1 ELSE 0 IN Request(letters, <<digit>>, <<48 + digit>>)

power_set_Ultrasonic(mode)    == Switch(<<"P", "S">>, mode)
power_wheel_enable(mode)      == Switch(<<"P", "M">>, mode)
power_conveyor_movement(mode) == Switch(<<"C", "N">>, mode)
power_charging_ready(on)      == Switch(<<"P", "C">>, on)

power_conveyor_manual_movement(on) ==
  LET digit == IF on \in 1..2 THEN on ELSE 0
  IN  Request(<<"C", "C">>, <<digit>>, <<48 + digit>>)

(* Eight outputs in one byte, with '0' added: 256 values, STX and ETX among *)
(* them.                                                                    *)
Outputs(letters, ports) ==
  LET value == binaryToDecimal(Decimal(ports))
  IN  Request(letters, <<value>>, <<(value + 48) % 256>>)

power_set_OutputPort(ports) == Outputs(<<"P", "O">>, ports)
power_set_Enable(ports)     == Outputs(<<"P", "E">>, ports)

(* The motor controller's requests with numbers. *)
drvm_set_odometry(x, y, theta) == Listed(<<"C", "X">>, <<x, y, theta>>)

(* Type and pass are one digit each, and no separator follows. *)
drvm_set_position(type, data) ==
  Request(<<"B", "D">>, <<type, 0, data>>,
          <<48 + type, 48>> \o Written(data))

(* Two digits of the parameter, then the value.  int2str writes no 0, so    *)
(* parameter 0 is asked for with one digit too few.                         *)
drvm_set_parameter(param, value) ==
  Request(<<"X", "B">>, <<param, value>>,
          (IF param <= 9 THEN <<48>> ELSE <<>>) \o Counted(param) \o Written(value))

drvm_set_servo(mode) ==
  LET digit == IF mode = 1 THEN 1 ELSE 0
  IN  Request(<<"D", "B">>, <<digit, digit>>, <<48 + digit, 48 + digit>>)

(* Fault: the sign is put into the low byte. *)
Faulty_Packed(speed) ==
  LET size == IF speed < 0 THEN -speed ELSE speed
      mag  == IF size > 32767 THEN 32767 ELSE size
  IN  <<mag \div 256, (mag + (IF speed < 0 THEN 128 ELSE 0)) % 256>>

(* Sign and magnitude, clamped at 15 bits, the high byte first. *)
Packed(speed) ==
  LET size == IF speed < 0 THEN -speed ELSE speed
      mag  == IF size > 32767 THEN 32767 ELSE size
  IN  <<mag \div 256 + (IF speed < 0 THEN 128 ELSE 0), mag % 256>>

(* How the velocities of the controller's answer are decoded. *)
Unpacked(high, low) ==
  LET mag == 256 * (high % 128) + low IN IF high >= 128 THEN -mag ELSE mag

drvm_set_velocity2(left, right) ==
  Request(<<"B", "V">>, <<left, right>>, Packed(left) \o Packed(right))

-----------------------------------------------------------------------------
(* Read requests, with the number of words that are taken from the answer.  *)
Asking(letters, words) == [letters |-> letters, words |-> words]

power_parameter_read    == Asking(<<"P", "R">>, 32)
conveyor_parameter_read == Asking(<<"C", "R">>, 21)
conveyor_data_read      == Asking(<<"C", "D">>, 14)
power_data_read         == Asking(<<"P", "D">>, 12)
power_adc_read          == Asking(<<"P", "A">>, 8)
power_version_read      == Asking(<<"V", "R">>, 8)
power_sonar_read        == Asking(<<"P", "N">>, 6)

(* The power board's answers: STX, the length of the data in two bytes, two *)
(* bytes for every word, ETX and the LRC of the data.                       *)
Data(words) ==
  [k \in 1..2 * Len(words) |->
     IF k % 2 = 1 THEN words[(k + 1) \div 2] \div 256 ELSE words[k \div 2] % 256]

Answered(words) ==
  LET data == Data(words)
  IN  <<STX, Len(data) \div 256, Len(data) % 256>> \o data \o <<ETX, make_lrc(data)>>

(* Byte i of the packet buffer, which was cleared before the read.          *)
Byte(buffer, i) == IF i < Len(buffer) THEN buffer[i + 1] ELSE 0

Length(buffer) == 256 * Byte(buffer, 1) + Byte(buffer, 2)

(* The first STX, or 0. *)
Begin(bytes) == SelectInSeq(bytes, LAMBDA b : b = STX)

(* What get_response2 puts into the buffer: from STX on as many bytes as    *)
(* the length announces, or what there is.                                  *)
Taken(bytes) ==
  LET frame == SubSeq(bytes, Begin(bytes), Len(bytes))
      size  == Length(frame) + 5
  IN  IF Begin(bytes) = 0 THEN <<>> ELSE SubSeq(frame, 1, IF size < Len(frame) THEN size ELSE Len(frame))

(* What it returns: an error unless everything came and the LRC is right.   *)
Checked(buffer) ==
  LET size == Length(buffer)
  IN  /\ Len(buffer) = size + 5
      /\ buffer[size + 5] = make_lrc(SubSeq(buffer, 4, size + 3))

(* "Packet Error Pass": what the read functions do not decode.  Everything  *)
(* else they do decode, whatever get_response2 returned.                    *)
Passed(buffer) == Byte(buffer, 1) = STX

(* Fault: the low byte comes first. *)
Faulty_Word(buffer, k) == Byte(buffer, 3 + 2 * k) + 256 * Byte(buffer, 4 + 2 * k)

Word(buffer, k) == Byte(buffer, 4 + 2 * k) + 256 * Byte(buffer, 3 + 2 * k)

-----------------------------------------------------------------------------
(* What a read meets, with the words that the board has answered to it.     *)
Meeting(kind, words, bytes) == [kind |-> kind, words |-> words, buffer |-> Taken(bytes)]

(* External: its own answer, which comes alone, or something else.          *)
Meets(words) == Meeting("answer", words, Answered(words))

Otherwise == {Meeting("silence", <<>>, <<>>)}
               \cup {Meeting("stray", <<>>, bytes) : bytes \in Strays}

-----------------------------------------------------------------------------
RequestInit ==
  /\ asked = [letters |-> <<"P", "C">>, numbers |-> <<1>>]
  /\ packet \in {power_charging_ready(1).bytes, <<>>}
  /\ m_iParam = [k \in 0..31 |-> 0]
  /\ gpio_msg = [input |-> decimal2binary(0), output |-> decimal2binary(0)]
  /\ response = <<>> /\ board = <<>> /\ met = "none"

(* A request function writes first, and a failed write ends it.             *)
Ask(request, written) ==
  /\ asked' = [letters |-> request.letters, numbers |-> request.numbers]
  /\ packet' = IF written THEN request.bytes ELSE <<>>

(* A service that sets something replies TRUE whatever happens. *)
Order(request) ==
  /\ \E written \in BOOLEAN : Ask(request, written)
  /\ response' = <<>> /\ board' = <<>> /\ met' = "none"
  /\ UNCHANGED <<m_iParam, gpio_msg>>

LED_Control_Command(id, brightness)         == Order(power_set_light(id, brightness))
Toggle_On_Command(id)                       == Order(power_toggle_on(id))
LED_Toggle_Command(index, up, high, down, low) ==
  Order(power_set_light_toggle(index, up, high, down, low))
Power_Set_Outport_Command(ports)            == Order(power_set_OutputPort(ports))
Power_Set_Enable_Command(ports)             == Order(power_set_Enable(ports))
Power_Set_Single_Outport_Command(id, value) == Order(power_set_Single_OutputPort(id, value))
Power_Set_Single_Enable_Command(id, value)  == Order(power_set_Single_Enable(id, value))
Power_Wheel_Enable_Command(on)              == Order(power_wheel_enable(on))
Conveyor_Auto_Movement_Command(start)       == Order(power_conveyor_movement(start))
Conveyor_Manual_Movement_Command(mode)      == Order(power_conveyor_manual_movement(mode))
Power_Sonar_Command(start)                  == Order(power_set_Ultrasonic(start))

(* Only an acknowledged parameter is followed by the request to save it.    *)
WriteParameter(id, data) ==
  \E acknowledged \in BOOLEAN :
    Order(IF acknowledged THEN Listed(<<"C", "F">>, <<>>)
          ELSE conveyor_parameter_write(id, data))

(* Both parameter services write to the conveyor board. *)
Power_Paramter_Write_Command(id, data)    == WriteParameter(id, data)
Conveyor_Parameter_Write_Command(id, data) == WriteParameter(id, data)

(* The motor controller's requests, for the same format.                    *)
Drive_Command ==
  \/ \E left, right \in Speeds : Order(drvm_set_velocity2(left, right))
  \/ \E x, y, theta \in Numbers : Order(drvm_set_odometry(x, y, theta))
  \/ \E type \in {0, 2}, data \in Numbers : Order(drvm_set_position(type, data))
  \/ \E param \in Params, value \in Numbers : Order(drvm_set_parameter(param, value))
  \/ \E mode \in 0..1 : Order(drvm_set_servo(mode))

-----------------------------------------------------------------------------
(* A read service copies the words of the buffer into the globals and those *)
(* into its reply.  It does not look at what the read returned: when the    *)
(* request could not be written or the buffer is passed over, the globals   *)
(* stay as they were, with the words of whichever service came before.      *)
Reply(read, meeting, replied) ==
  /\ Ask(Request(read.letters, <<>>, <<>>), TRUE)
  /\ board' = meeting.words /\ met' = meeting.kind
  /\ m_iParam' = [k \in 0..31 |->
                    IF k < read.words /\ ~Passed(meeting.buffer)
                    THEN Word(meeting.buffer, k) ELSE m_iParam[k]]
  /\ response' = [k \in 1..replied |-> m_iParam'[k - 1]]
  /\ UNCHANGED gpio_msg

Unwritten(read, replied) ==
  /\ Ask(Request(read.letters, <<>>, <<>>), FALSE)
  /\ board' = <<>> /\ met' = "none"
  /\ response' = [k \in 1..replied |-> m_iParam[k - 1]]
  /\ UNCHANGED <<m_iParam, gpio_msg>>

(* External: the answer holds the words that were asked for.                *)
AnswersTo(read) == {[k \in 1..read.words |-> words[k]] : words \in Words}

ReadService(read, replied) ==
  \/ \E answer \in AnswersTo(read) : Reply(read, Meets(answer), replied)
  \/ \E meeting \in Otherwise : Reply(read, meeting, replied)
  \/ Unwritten(read, replied)

Power_Paramter_Read_Command    == ReadService(power_parameter_read, 32)
Conveyor_Parameter_Read_Command == ReadService(conveyor_parameter_read, 21)
Conveyor_Data_Read_Command     == ReadService(conveyor_data_read, 14)
Power_Data_Read_Command        == ReadService(power_data_read, 12)
Power_ADC_Read_Command         == ReadService(power_adc_read, 8)
Power_Version_Read_Command     == ReadService(power_version_read, 8)
Power_Sonar_Read_Command       == ReadService(power_sonar_read, 6)

(* The loop's own request: inputs and outputs are words 4 and 5.  The loop  *)
(* does look at what the read returned before it publishes them.            *)
Publishable(meeting) == ~Passed(meeting.buffer) /\ Checked(meeting.buffer)

power_read_tetra(meeting) ==
  /\ Ask(Request(<<"P", "Q">>, <<>>, <<>>), TRUE)
  /\ board' = meeting.words /\ met' = meeting.kind
  /\ IF Publishable(meeting)
     THEN gpio_msg' = [input  |-> decimal2binary(Word(meeting.buffer, 4)),
                       output |-> decimal2binary(Word(meeting.buffer, 5))]
     ELSE UNCHANGED gpio_msg
  /\ response' = <<>>
  /\ UNCHANGED m_iParam

Nothing == [letters |-> <<>>, numbers |-> <<>>]

(* Replies with what the loop has read last, and asks nothing. *)
Power_Get_IO_Status_Command ==
  /\ response' = [k \in 1..16 |-> IF k <= 8 THEN gpio_msg.input[k - 1]
                                  ELSE gpio_msg.output[k - 9]]
  /\ asked' = Nothing /\ packet' = <<>> /\ board' = <<>> /\ met' = "none"
  /\ UNCHANGED <<m_iParam, gpio_msg>>

RequestNext ==
  \/ \E a, b \in Numbers :
       \/ LED_Control_Command(a, b) \/ Power_Set_Single_Outport_Command(a, b)
       \/ Power_Set_Single_Enable_Command(a, b) \/ Power_Paramter_Write_Command(a, b)
       \/ Conveyor_Parameter_Write_Command(a, b)
       \/ \E c \in Numbers : LED_Toggle_Command(a, b, c, a, b)
  \/ \E a \in Numbers : Toggle_On_Command(a)
  \/ \E ports \in Settings : Power_Set_Outport_Command(ports) \/ Power_Set_Enable_Command(ports)
  \/ \E mode \in 0..3 :
       \/ Power_Wheel_Enable_Command(mode) \/ Conveyor_Auto_Movement_Command(mode)
       \/ Conveyor_Manual_Movement_Command(mode) \/ Power_Sonar_Command(mode)
  \/ Drive_Command
  \/ Power_Paramter_Read_Command \/ Conveyor_Parameter_Read_Command
  \/ Conveyor_Data_Read_Command \/ Power_Data_Read_Command \/ Power_ADC_Read_Command
  \/ Power_Version_Read_Command \/ Power_Sonar_Read_Command
  \/ \E input, output \in Inports : power_read_tetra(Meets(<<0, 0, 0, 0, input, output>>))
  \/ \E meeting \in Otherwise : power_read_tetra(meeting)
  \/ Power_Get_IO_Status_Command

RequestSpec == RequestInit /\ [][RequestNext]_requestVars

-----------------------------------------------------------------------------
Size(number) == IF number < 0 THEN -number ELSE number

(* What 15 bits hold of a speed. *)
Clamped(speed) ==
  IF speed > 32767 THEN 32767 ELSE IF speed < -32767 THEN -32767 ELSE speed

(* The digits from byte i up to ETX as one number. *)
Tailing(i) == str2int(SubSeq(packet, i, Len(packet)))[1]

(* What the board makes of the bytes, by the format of each request. *)
Heard ==
  LET is(a, b) == asked.letters = <<a, b>>
      digit(i) == packet[i] - 48
  IN  IF is("P", "O") \/ is("P", "E") THEN <<(packet[4] + 208) % 256>>
      ELSE IF is("D", "B") THEN <<digit(4), digit(5)>>
      ELSE IF is("B", "D") THEN <<digit(4), digit(5), Tailing(6)>>
      ELSE IF is("X", "B") THEN <<10 * digit(4) + digit(5), Tailing(6)>>
      ELSE str2int(packet)

(* The board understands what was asked: numbers arrive in their order and  *)
(* place, zeros included, up to their signs, which str2int skips; speeds    *)
(* arrive with their sign and clamped to 15 bits.                           *)
Understood ==
  packet # <<>> =>
    IF asked.letters = <<"B", "V">>
    THEN \A i \in 1..2 :
           Unpacked(packet[2 * i + 2], packet[2 * i + 3]) = Clamped(asked.numbers[i])
    ELSE IF asked.numbers = <<>> THEN Heard = <<0>>
    ELSE Heard = [i \in DOMAIN asked.numbers |-> Size(asked.numbers[i])]

Binary == {<<"P", "O">>, <<"P", "E">>, <<"B", "V">>}

(* A packet can be told from the line: it starts with STX, ends with ETX    *)
(* and an LRC that makes the exclusive or 0, and has neither STX nor ETX in *)
(* between, unless it carries raw bytes.                                    *)
WellFramed ==
  packet # <<>> =>
    /\ packet[1] = STX /\ packet[Len(packet) - 1] = ETX
    /\ make_lrc(Tail(packet)) = 0
    /\ asked.letters \notin Binary =>
         \A i \in 2..Len(packet) - 2 : packet[i] \notin {STX, ETX}

(* A read that meets its answer replies with it, word by word, and a read   *)
(* that meets silence with zeros, whatever other services have left in the  *)
(* globals they share; and the inputs and outputs that the loop publishes   *)
(* are the bits of the words answered.  When a read meets something else or *)
(* its request was not written the code promises nothing.                   *)
RepliesAreAnswers ==
  /\ met = "answer" =>
       IF asked.letters = <<"P", "Q">>
       THEN board[5] = Value(gpio_msg.input) /\ board[6] = Value(gpio_msg.output)
       ELSE response = board
  /\ met = "silence" => \A k \in DOMAIN response : response[k] = 0
=============================================================================
