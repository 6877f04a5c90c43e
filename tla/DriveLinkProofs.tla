-------------------------- MODULE DriveLinkProofs ---------------------------
(* TLAPS proofs about DriveLink, for any accelerations and any number of    *)
(* answers under way.                                                       *)
EXTENDS DriveLink, SequenceTheorems, TLAPS

Modes == {"velocity", "position"}

(* All requests that the node makes. *)
Requests ==
  {Request("mode", mode) : mode \in Modes}
    \cup {Request("parameter", v) : v \in Accels}
    \cup {Request(op, 0) : op \in {"servo", "err_reset", "odometry", "velocity", "errors",
                                    "position", "read", "save"}}

(* What the requests in a list say of mode and acceleration. *)
Agreed(requests, position, accel) ==
  \A r \in Range(requests) :
    /\ r.op = "mode" => (position <=> (r.arg = "position"))
    /\ r.op = "parameter" => r.arg = accel

Free(requests, op) == \A r \in Range(requests) : r.op # op

(* A list of requests without settings. *)
Plain(requests) == Free(requests, "mode") /\ Free(requests, "parameter")

(* The strengthening: until a setting is lost, what the node remembers is   *)
(* what it has still to ask for, and the controller's state where it has    *)
(* nothing more to ask for.                                                 *)
ModeAgrees ==
  Free(todo, "mode") => (bPosition_mode_flag <=> (controller.mode = "position"))
AccelAgrees == Free(todo, "parameter") => m_old_accel_data = controller.accel

Agrees == Agreed(todo, bPosition_mode_flag, m_old_accel_data) /\ ModeAgrees /\ AccelAgrees

Types ==
  /\ todo \in Seq(Requests)
  /\ controller \in [mode : Modes, accel : Accels]
  /\ bPosition_mode_flag \in BOOLEAN /\ m_old_accel_data \in Accels
  /\ strayed \in BOOLEAN

IInv == Types /\ (~strayed => Agrees)

-----------------------------------------------------------------------------
(* The lists that handlers are put together from. *)
LEMMA Parts ==
  /\ \A mode \in Modes : set_mode(mode) \in Seq(Requests)
                         /\ Range(set_mode(mode)) = {Request("mode", mode)}
  /\ \A v \in Accels : set_parameter(v) \in Seq(Requests)
                       /\ Range(set_parameter(v)) = {Request("parameter", v)}
  /\ set_servo \in Seq(Requests) /\ Range(set_servo) = {Request("servo", 0)}
  /\ set_drive_err_reset \in Seq(Requests)
     /\ Range(set_drive_err_reset) = {Request("err_reset", 0)}
  /\ set_odometry \in Seq(Requests) /\ Range(set_odometry) = {Request("odometry", 0)}
  /\ set_velocity2 \in Seq(Requests) /\ Range(set_velocity2) = {Request("velocity", 0)}
  /\ read_drive_err \in Seq(Requests) /\ Range(read_drive_err) = {Request("errors", 0)}
  /\ set_position \in Seq(Requests) /\ Range(set_position) = {Request("position", 0)}
  /\ read_parameter \in Seq(Requests) /\ Range(read_parameter) = {Request("read", 0)}
  /\ save_parameter \in Seq(Requests) /\ Range(save_parameter) = {Request("save", 0)}
<1>1. ASSUME NEW r \in Requests PROVE <<r>> \in Seq(Requests) /\ Range(<<r>>) = {r}
  BY DEF Range
<1>2. /\ \A mode \in Modes : Request("mode", mode) \in Requests
      /\ \A v \in Accels : Request("parameter", v) \in Requests
      /\ \A op \in {"servo", "err_reset", "odometry", "velocity", "errors", "position",
                    "read", "save"} : Request(op, 0) \in Requests
  BY DEF Requests
<1> QED
  BY <1>1, <1>2
     DEF set_mode, set_parameter, set_servo, set_drive_err_reset, set_odometry, set_velocity2,
         read_drive_err, set_position, read_parameter, save_parameter

(* One list after another. *)
LEMMA Joins ==
  ASSUME NEW s \in Seq(Requests), NEW t \in Seq(Requests)
  PROVE  s \o t \in Seq(Requests) /\ Range(s \o t) = Range(s) \cup Range(t)
BY RangeConcatenation, ConcatProperties

(* A list is its first request and the rest.                                *)
LEMMA Splits ==
  ASSUME NEW s \in Seq(Requests), s # <<>>
  PROVE  /\ Head(s) \in Requests /\ Tail(s) \in Seq(Requests)
         /\ Range(s) = {Head(s)} \cup Range(Tail(s))
<1>1. Head(s) \in Requests /\ Tail(s) \in Seq(Requests)
  BY HeadTailProperties
<1>2. <<Head(s)>> \in Seq(Requests) /\ Range(<<Head(s)>>) = {Head(s)}
  BY <1>1 DEF Range
<1>3. s = <<Head(s)>> \o Tail(s)
  BY <1>1
<1> QED
  BY <1>1, <1>2, <1>3, Joins

(* What a request can be. *)
LEMMA RequestFacts ==
  ASSUME NEW r \in Requests
  PROVE  /\ r.op = "mode" => r.arg \in Modes
         /\ r.op = "parameter" => r.arg \in Accels
BY DEF Requests, Request

(* An exchange takes the first request off the list, and adds one that sets *)
(* nothing; the controller has obeyed it, unless it has not got it.         *)
LEMMA ExchangeFacts ==
  ASSUME Types, MakeExchange
  PROVE  /\ todo # <<>>
         /\ todo' \in Seq(Requests)
         /\ \E extra \in Seq(Requests) :
              Plain(extra) /\ Range(todo') = Range(extra) \cup Range(Tail(todo))
         /\ \/ controller' = Obeyed(Head(todo)) /\ strayed' = strayed
            \/ /\ controller' = controller
               /\ strayed' = (strayed \/ Head(todo).op \in Settings)
         /\ UNCHANGED <<bPosition_mode_flag, m_old_accel_data>>
<1>1. PICK reached, ok :
        /\ todo # <<>>
        /\ todo' = Then(Head(todo), ok) \o Tail(todo)
        /\ controller' = IF reached THEN Obeyed(Head(todo)) ELSE controller
        /\ strayed' = (strayed \/ (Head(todo).op \in Settings /\ ~reached))
        /\ UNCHANGED <<bPosition_mode_flag, m_old_accel_data>>
  BY DEF MakeExchange, Exchange
<1>2. Then(Head(todo), ok) \in Seq(Requests) /\ Plain(Then(Head(todo), ok))
  <2>1. save_parameter \in Seq(Requests) /\ Plain(save_parameter)
    BY Parts DEF Plain, Free, Request
  <2>2. <<>> \in Seq(Requests) /\ Plain(<<>>)
    BY DEF Plain, Free, Range
  <2> QED
    BY <2>1, <2>2 DEF Then
<1>3. Tail(todo) \in Seq(Requests)
  BY <1>1, Splits DEF Types
<1>4. todo' \in Seq(Requests)
      /\ Range(todo') = Range(Then(Head(todo), ok)) \cup Range(Tail(todo))
  BY <1>1, <1>2, <1>3, Joins
<1>5. strayed \in BOOLEAN
  BY DEF Types
<1>6. \/ controller' = Obeyed(Head(todo)) /\ strayed' = strayed
      \/ controller' = controller /\ strayed' = (strayed \/ Head(todo).op \in Settings)
  <2>1. CASE reached
    BY <1>1, <1>5, <2>1
  <2>2. CASE ~reached
    BY <1>1, <1>5, <2>2
  <2> QED
    BY <2>1, <2>2
<1> QED
  BY <1>1, <1>2, <1>4, <1>6

LEMMA ExchangeKeeps == IInv /\ MakeExchange => IInv'
<1> SUFFICES ASSUME IInv, MakeExchange PROVE IInv'
  OBVIOUS
<1> DEFINE first == Head(todo)
<1>types. Types
  BY DEF IInv
<1>1. /\ todo # <<>>
      /\ todo' \in Seq(Requests)
      /\ \E extra \in Seq(Requests) :
           Plain(extra) /\ Range(todo') = Range(extra) \cup Range(Tail(todo))
      /\ \/ controller' = Obeyed(first) /\ strayed' = strayed
         \/ controller' = controller /\ strayed' = (strayed \/ first.op \in Settings)
      /\ UNCHANGED <<bPosition_mode_flag, m_old_accel_data>>
  BY <1>types, ExchangeFacts
<1>2. first \in Requests /\ Range(todo) = {first} \cup Range(Tail(todo))
  BY <1>1, <1>types, Splits DEF Types
<1>3. \A r \in Range(todo') : /\ r.op # "mode" /\ r.op # "parameter"
                              \/ r \in Range(Tail(todo))
  BY <1>1 DEF Plain, Free
<1>4. \A r \in Range(Tail(todo)) : r \in Range(todo')
  BY <1>1
<1> HIDE DEF first
<1>5. /\ controller' \in [mode : Modes, accel : Accels]
      /\ controller'.mode = controller.mode \/ (first.op = "mode" /\ controller'.mode = first.arg)
      /\ \/ controller'.accel = controller.accel
         \/ first.op = "parameter" /\ controller'.accel = first.arg
  BY <1>1, <1>2, <1>types, RequestFacts DEF Obeyed, Types
<1>6. ~strayed' => /\ ~strayed
                   /\ first.op = "mode" => controller'.mode = first.arg
                   /\ first.op = "parameter" => controller'.accel = first.arg
  BY <1>1, <1>types DEF Obeyed, Settings, Types
<1>7. Types'
  BY <1>1, <1>5, <1>types DEF Types, Settings
<1>8. ASSUME ~strayed' PROVE Agrees'
  <2>1. Agrees
    BY <1>6, <1>8 DEF IInv
  <2>2. Agreed(todo, bPosition_mode_flag, m_old_accel_data)'
    BY <1>1, <1>2, <1>3, <2>1 DEF Agrees, Agreed
  <2>3. ModeAgrees'
    <3>1. SUFFICES ASSUME Free(todo, "mode")' PROVE bPosition_mode_flag <=> controller'.mode = "position"
      BY <1>1 DEF ModeAgrees
    <3>2. \A r \in Range(Tail(todo)) : r.op # "mode"
      BY <1>4, <3>1 DEF Free
    <3>3. CASE first.op = "mode"
      <4>1. bPosition_mode_flag <=> first.arg = "position"
        BY <1>2, <2>1, <3>3 DEF Agrees, Agreed
      <4> QED
        BY <1>6, <1>8, <3>3, <4>1
    <3>4. CASE first.op # "mode"
      BY <1>2, <1>5, <2>1, <3>2, <3>4 DEF Agrees, ModeAgrees, Free
    <3> QED
      BY <3>3, <3>4
  <2>4. AccelAgrees'
    <3>1. SUFFICES ASSUME Free(todo, "parameter")' PROVE m_old_accel_data = controller'.accel
      BY <1>1 DEF AccelAgrees
    <3>2. \A r \in Range(Tail(todo)) : r.op # "parameter"
      BY <1>4, <3>1 DEF Free
    <3>3. CASE first.op = "parameter"
      <4>1. first.arg = m_old_accel_data
        BY <1>2, <2>1, <3>3 DEF Agrees, Agreed
      <4> QED
        BY <1>6, <1>8, <3>3, <4>1
    <3>4. CASE first.op # "parameter"
      BY <1>2, <1>5, <2>1, <3>2, <3>4 DEF Agrees, AccelAgrees, Free
    <3> QED
      BY <3>3, <3>4
  <2> QED
    BY <2>2, <2>3, <2>4 DEF Agrees
<1> QED
  BY <1>7, <1>8 DEF IInv

-----------------------------------------------------------------------------
(* The lists without settings: those of the loop and of the handlers that   *)
(* set neither mode nor acceleration.                                       *)
LEMMA PlainLists ==
  /\ <<>> \in Seq(Requests) /\ Plain(<<>>)
  /\ \A list \in {set_servo, set_odometry, set_position, read_parameter,
                  set_velocity2 \o read_drive_err, set_drive_err_reset \o set_servo,
                  set_servo \o set_drive_err_reset} :
       list \in Seq(Requests) /\ Plain(list)
<1>1. <<>> \in Seq(Requests) /\ Plain(<<>>)
  BY DEF Plain, Free, Range
<1>2. \A list \in {set_servo, set_odometry, set_position, read_parameter, set_velocity2,
                   read_drive_err, set_drive_err_reset} :
        list \in Seq(Requests) /\ Plain(list)
  BY Parts DEF Plain, Free, Request
<1>3. ASSUME NEW s \in Seq(Requests), NEW t \in Seq(Requests), Plain(s), Plain(t)
      PROVE  s \o t \in Seq(Requests) /\ Plain(s \o t)
  BY <1>3, Joins DEF Plain, Free
<1> QED
  BY <1>1, <1>2, <1>3

(* A new mode or acceleration among servo commands. *)
LEMMA ModeLists ==
  ASSUME NEW mode \in Modes
  PROVE  \A list \in {set_mode(mode) \o set_servo, set_servo \o set_mode(mode) \o set_servo} :
           /\ list \in Seq(Requests)
           /\ Range(list) = {Request("mode", mode), Request("servo", 0)}
<1>1. set_mode(mode) \in Seq(Requests) /\ Range(set_mode(mode)) = {Request("mode", mode)}
  BY Parts
<1>2. set_servo \in Seq(Requests) /\ Range(set_servo) = {Request("servo", 0)}
  BY Parts
<1>3. /\ set_mode(mode) \o set_servo \in Seq(Requests)
      /\ Range(set_mode(mode) \o set_servo) = {Request("mode", mode)} \cup {Request("servo", 0)}
  BY <1>1, <1>2, Joins
<1>4. /\ set_servo \o set_mode(mode) \in Seq(Requests)
      /\ Range(set_servo \o set_mode(mode)) = {Request("servo", 0)} \cup {Request("mode", mode)}
  BY <1>1, <1>2, Joins
<1>5. /\ set_servo \o set_mode(mode) \o set_servo \in Seq(Requests)
      /\ Range(set_servo \o set_mode(mode) \o set_servo) =
           Range(set_servo \o set_mode(mode)) \cup {Request("servo", 0)}
  BY <1>2, <1>4, Joins
<1> QED
  BY <1>3, <1>4, <1>5

(* A new acceleration. *)
LEMMA ParameterLists ==
  ASSUME NEW v \in Accels
  PROVE  \A list \in {set_parameter(v), set_servo \o set_parameter(v) \o set_servo} :
           /\ list \in Seq(Requests)
           /\ Range(list) \subseteq {Request("parameter", v), Request("servo", 0)}
           /\ ~Free(list, "parameter") /\ Free(list, "mode")
<1>1. \A list \in {set_parameter(v), set_servo \o set_parameter(v) \o set_servo} :
        /\ list \in Seq(Requests)
        /\ Range(list) \subseteq {Request("parameter", v), Request("servo", 0)}
        /\ Request("parameter", v) \in Range(list)
  <2>1. /\ set_parameter(v) \in Seq(Requests)
        /\ Range(set_parameter(v)) = {Request("parameter", v)}
    BY Parts
  <2>2. set_servo \in Seq(Requests) /\ Range(set_servo) = {Request("servo", 0)}
    BY Parts
  <2>3. /\ set_servo \o set_parameter(v) \in Seq(Requests)
        /\ Range(set_servo \o set_parameter(v)) =
             {Request("servo", 0)} \cup {Request("parameter", v)}
    BY <2>1, <2>2, Joins
  <2>4. /\ set_servo \o set_parameter(v) \o set_servo \in Seq(Requests)
        /\ Range(set_servo \o set_parameter(v) \o set_servo) =
             Range(set_servo \o set_parameter(v)) \cup {Request("servo", 0)}
    BY <2>2, <2>3, Joins
  <2> QED
    BY <2>1, <2>3, <2>4
<1>2. /\ Request("parameter", v).op = "parameter"
      /\ \A r \in {Request("parameter", v), Request("servo", 0)} : r.op # "mode"
  BY DEF Request
<1> QED
  BY <1>1, <1>2 DEF Free

(* A handler that starts when all requests are made: its list agrees with   *)
(* what the node remembers then, and that changes only with the list.       *)
LEMMA HandlerKeeps ==
  ASSUME IInv, todo = <<>>, todo' \in Seq(Requests), controller' = controller,
         bPosition_mode_flag' \in BOOLEAN, m_old_accel_data' \in Accels, strayed' \in BOOLEAN,
         ~strayed' =>
           /\ ~strayed
           /\ Agreed(todo', bPosition_mode_flag', m_old_accel_data')
           /\ Free(todo', "mode") => bPosition_mode_flag' = bPosition_mode_flag
           /\ Free(todo', "parameter") => m_old_accel_data' = m_old_accel_data
  PROVE  IInv'
<1>1. Free(todo, "mode") /\ Free(todo, "parameter")
  BY DEF Free, Range
<1>2. Types'
  BY DEF IInv, Types
<1>3. ASSUME ~strayed' PROVE Agrees'
  <2>1. /\ bPosition_mode_flag <=> (controller.mode = "position")
        /\ m_old_accel_data = controller.accel
    BY <1>1, <1>3 DEF IInv, Agrees, ModeAgrees, AccelAgrees
  <2>2. ModeAgrees'
    BY <1>3, <2>1 DEF ModeAgrees, Free
  <2>3. AccelAgrees'
    BY <1>3, <2>1 DEF AccelAgrees, Free
  <2>4. Agreed(todo, bPosition_mode_flag, m_old_accel_data)'
    BY <1>3 DEF Agreed
  <2> QED
    BY <2>2, <2>3, <2>4 DEF Agrees
<1> QED
  BY <1>2, <1>3 DEF IInv

(* In particular, a list without settings. *)
LEMMA PlainKeeps ==
  ASSUME IInv, todo = <<>>, todo' \in Seq(Requests), Plain(todo'),
         UNCHANGED <<controller, bPosition_mode_flag, m_old_accel_data, strayed>>
  PROVE  IInv'
<1>1. Agreed(todo', bPosition_mode_flag', m_old_accel_data')
  BY DEF Plain, Free, Agreed
<1>2. /\ bPosition_mode_flag' \in BOOLEAN /\ m_old_accel_data' \in Accels
      /\ strayed' \in BOOLEAN
  BY DEF IInv, Types
<1> QED
  BY <1>1, <1>2, HandlerKeeps

(* The loop's own steps. *)
LEMMA LoopKeeps ==
  ASSUME IInv, StartPass \/ Judge \/ CheckBumper \/ Leave \/ Destroy
  PROVE  IInv'
<1>1. /\ todo = <<>>
      /\ UNCHANGED <<controller, bPosition_mode_flag, m_old_accel_data, strayed>>
  BY DEF StartPass, Judge, CheckBumper, Leave, Destroy, Reached, node, world
<1>2. todo' \in {<<>>, set_servo, set_velocity2 \o read_drive_err,
                 set_drive_err_reset \o set_servo, set_servo \o set_drive_err_reset}
  BY <1>1 DEF StartPass, Judge, CheckBumper, Leave, Destroy
<1>3. todo' \in Seq(Requests) /\ Plain(todo')
  BY <1>2, PlainLists
<1> QED
  BY <1>1, <1>3, PlainKeeps

(* The handlers. *)
LEMMA CallbacksKeep == IInv /\ Callbacks => IInv'
<1> SUFFICES ASSUME IInv, Callbacks PROVE IInv'
  OBVIOUS
<1>types. bPosition_mode_flag \in BOOLEAN /\ m_old_accel_data \in Accels /\ strayed \in BOOLEAN
  BY DEF IInv, Types
<1>idle. todo = <<>> /\ controller' = controller
  BY DEF Callbacks, accelCallback, Parameter_Write_Command, pose_resetCallback,
         servo_onCallback, power_statusCallback, Parameter_Read_Command,
         Movemode_Change_Command, Position_Move_Command, Handle, Reached
<1>1. ASSUME NEW v \in Accels, accelCallback(v) PROVE IInv'
  <2>1. /\ todo' = set_parameter(v) /\ m_old_accel_data' = v
        /\ bPosition_mode_flag' = bPosition_mode_flag /\ strayed' = strayed
    BY <1>1 DEF accelCallback, Handle
  <2>2. /\ todo' \in Seq(Requests) /\ ~Free(todo', "parameter")
        /\ Range(todo') \subseteq {Request("parameter", v), Request("servo", 0)}
    BY <2>1, ParameterLists
  <2>3. Agreed(todo', bPosition_mode_flag', m_old_accel_data')
    BY <2>1, <2>2 DEF Agreed, Request
  <2> QED
    BY <1>types, <1>idle, <2>1, <2>2, <2>3, HandlerKeeps
<1>2. ASSUME NEW v \in Accels, Parameter_Write_Command(v) PROVE IInv'
  <2>1. /\ todo' = set_servo \o set_parameter(v) \o set_servo /\ strayed' = TRUE
        /\ UNCHANGED <<m_old_accel_data, bPosition_mode_flag>>
    BY <1>2 DEF Parameter_Write_Command, Handle
  <2>2. todo' \in Seq(Requests)
    BY <2>1, ParameterLists
  <2> QED
    BY <1>types, <1>idle, <2>1, <2>2, HandlerKeeps
<1>3. ASSUME NEW mode \in Modes,
             todo' \in {set_mode(mode) \o set_servo, set_servo \o set_mode(mode) \o set_servo},
             bPosition_mode_flag' = (mode = "position"),
             UNCHANGED <<m_old_accel_data, strayed>>
      PROVE  IInv'
  <2>1. /\ todo' \in Seq(Requests)
        /\ Range(todo') = {Request("mode", mode), Request("servo", 0)}
    BY <1>3, ModeLists
  <2>2. ~Free(todo', "mode")
    BY <2>1 DEF Free, Request
  <2>3. \A r \in Range(todo') : r.op # "parameter" /\ (r.op = "mode" => r.arg = mode)
    BY <2>1 DEF Request
  <2>4. bPosition_mode_flag' <=> (mode = "position")
    BY <1>3
  <2>5. Agreed(todo', bPosition_mode_flag', m_old_accel_data')
    BY <2>3, <2>4, Zenon DEF Agreed
  <2> QED
    BY <1>types, <1>idle, <1>3, <2>1, <2>2, <2>5, HandlerKeeps
<1>4. ASSUME NEW data \in 1..3, servo_onCallback(data) PROVE IInv'
  <2>1. CASE data = 1
    BY <1>3, <1>4, <2>1 DEF servo_onCallback, Handle, Modes
  <2>2. CASE data = 2
    <3>1. todo' = set_servo /\ UNCHANGED <<bPosition_mode_flag, m_old_accel_data, strayed>>
      BY <1>4, <2>2 DEF servo_onCallback, Handle
    <3> QED
      BY <1>idle, <3>1, PlainLists, PlainKeeps
  <2>3. CASE data = 3
    BY <1>3, <1>4, <2>3 DEF servo_onCallback, Handle, Modes
  <2> QED
    BY <2>1, <2>2, <2>3
<1>5. ASSUME NEW mode \in Modes, Movemode_Change_Command(mode) PROVE IInv'
  BY <1>3, <1>5 DEF Movemode_Change_Command, Handle
<1>6. ASSUME \/ pose_resetCallback \/ power_statusCallback \/ Parameter_Read_Command
             \/ Position_Move_Command
      PROVE  IInv'
  <2>1. /\ todo' \in {set_odometry, set_servo, read_parameter, set_position}
        /\ UNCHANGED <<bPosition_mode_flag, m_old_accel_data, strayed>>
    BY <1>6 DEF pose_resetCallback, power_statusCallback, Parameter_Read_Command,
                Position_Move_Command, Handle
  <2> QED
    BY <1>idle, <2>1, PlainLists, PlainKeeps
<1> QED
  BY <1>1, <1>2, <1>4, <1>5, <1>6 DEF Callbacks, Modes

-----------------------------------------------------------------------------
(* main sets the mode and the acceleration that the node starts with. *)
LEMMA InitIInv == Init => IInv
<1> SUFFICES ASSUME Init PROVE IInv
  OBVIOUS
<1>1. todo = set_drive_err_reset \o set_parameter(Boot) \o set_mode("velocity")
               \o set_servo \o set_odometry
  BY DEF Init
<1>2. /\ controller \in [mode : Modes, accel : Accels]
      /\ bPosition_mode_flag = FALSE /\ m_old_accel_data = Boot /\ strayed = FALSE
  BY DEF Init, Modes
<1>3. Boot \in Accels /\ "velocity" \in Modes
  BY LinkAssumption DEF Modes
<1>4. /\ todo \in Seq(Requests)
      /\ Range(todo) = {Request("err_reset", 0), Request("parameter", Boot),
                        Request("mode", "velocity"), Request("servo", 0),
                        Request("odometry", 0)}
  <2> DEFINE reset == set_drive_err_reset \o set_parameter(Boot)
             mode  == reset \o set_mode("velocity")
             servo == mode \o set_servo
  <2>parts. /\ set_drive_err_reset \in Seq(Requests)
            /\ Range(set_drive_err_reset) = {Request("err_reset", 0)}
            /\ set_parameter(Boot) \in Seq(Requests)
            /\ Range(set_parameter(Boot)) = {Request("parameter", Boot)}
            /\ set_mode("velocity") \in Seq(Requests)
            /\ Range(set_mode("velocity")) = {Request("mode", "velocity")}
    BY <1>3, Parts
  <2>1. /\ reset \in Seq(Requests)
        /\ Range(reset) = {Request("err_reset", 0)} \cup {Request("parameter", Boot)}
    BY <2>parts, Joins
  <2>2. /\ mode \in Seq(Requests)
        /\ Range(mode) = Range(reset) \cup {Request("mode", "velocity")}
    <3> HIDE DEF reset
    <3> QED
      BY <2>1, <2>parts, Joins
  <2>3. servo \in Seq(Requests) /\ Range(servo) = Range(mode) \cup {Request("servo", 0)}
    <3> HIDE DEF mode
    <3> QED
      BY <2>2, Parts, Joins
  <2>4. /\ todo = servo \o set_odometry
        /\ servo \o set_odometry \in Seq(Requests)
        /\ Range(servo \o set_odometry) = Range(servo) \cup {Request("odometry", 0)}
    <3>1. todo = servo \o set_odometry
      BY <1>1
    <3> HIDE DEF servo
    <3> QED
      BY <2>3, <3>1, Parts, Joins
  <2> HIDE DEF reset, mode, servo
  <2> QED
    BY <2>1, <2>2, <2>3, <2>4
<1>5. ~Free(todo, "mode") /\ ~Free(todo, "parameter")
  BY <1>4 DEF Free, Request
<1>6. Agreed(todo, bPosition_mode_flag, m_old_accel_data)
  BY <1>2, <1>4 DEF Agreed, Request
<1> QED
  BY <1>2, <1>3, <1>4, <1>5, <1>6 DEF IInv, Types, Agrees, ModeAgrees, AccelAgrees

LEMMA StepIInv == IInv /\ [Next]_vars => IInv'
<1> SUFFICES ASSUME IInv, [Next]_vars PROVE IInv'
  OBVIOUS
<1>1. ASSUME UNCHANGED <<todo, controller, bPosition_mode_flag, m_old_accel_data, strayed>>
      PROVE  IInv'
  BY <1>1 DEF IInv, Types, Agrees, Agreed, ModeAgrees, AccelAgrees, Free
<1>2. CASE MakeExchange
  BY <1>2, ExchangeKeeps
<1>3. CASE StartPass \/ Judge \/ CheckBumper \/ Leave \/ Destroy
  BY <1>3, LoopKeeps
<1>4. CASE Callbacks
  BY <1>4, CallbacksKeep
<1>5. ASSUME NEW bumper \in Bumpers, CalmDown(bumper) PROVE IInv'
  BY <1>1, <1>5 DEF CalmDown, node
<1>7. CASE UNCHANGED vars
  BY <1>1, <1>7 DEF vars, node, world
<1> QED
  BY <1>2, <1>3, <1>4, <1>5, <1>7 DEF Next

(* Whatever the line loses, delays or damages: until a setting is lost or a *)
(* client writes the parameter itself, the position flag and the remembered *)
(* acceleration are the controller's between handlers.                      *)
THEOREM SettingsKept == Spec => []SettingsAgree
<1>1. IInv => SettingsAgree
  <2> SUFFICES ASSUME IInv, todo = <<>>, ~strayed
               PROVE  /\ bPosition_mode_flag <=> (controller.mode = "position")
                      /\ m_old_accel_data = controller.accel
    BY DEF SettingsAgree
  <2>1. Free(todo, "mode") /\ Free(todo, "parameter")
    BY DEF Free, Range
  <2> QED
    BY <2>1 DEF IInv, Agrees, ModeAgrees, AccelAgrees
<1> QED
  BY <1>1, InitIInv, StepIInv, PTL DEF Spec

-----------------------------------------------------------------------------
(* What an exchange reads.                                                  *)

(* All bytes on the line.  What an LRC is does not matter here. *)
Bytes == Nat \cup {Lrc[frame] : frame \in Frames}

(* The answers' bytes. An answer to the velocity command has a fixed length; *)
(* no byte of any other is ETX before the one that ends the frame.           *)
Long(bytes) == bytes \in Seq(Bytes) /\ Len(bytes) = 20 /\ bytes[1] = STX
Short(bytes) ==
  /\ bytes \in Seq(Bytes) /\ Len(bytes) >= 3 /\ bytes[1] = STX
  /\ bytes[Len(bytes) - 1] = ETX /\ \A i \in 1..Len(bytes) - 2 : bytes[i] # ETX

(* The position found is the first. *)
LEMMA PositionFacts ==
  ASSUME NEW bytes \in Seq(Bytes), NEW byte
  PROVE  /\ Len(bytes) = 0 => Position(byte, bytes) = 0
         /\ \A p \in 1..Len(bytes) :
              bytes[p] = byte /\ (\A i \in 1..p - 1 : bytes[i] # byte)
                => Position(byte, bytes) = p
<1> DEFINE I == {i \in 1..Len(bytes) : bytes[i] = byte}
<1>1. Position(byte, bytes) = IF I # {} THEN Min(I) ELSE 0
  BY Zenon DEF Position, SelectInSeq
<1>2. Len(bytes) \in Nat
  OBVIOUS
<1>3. ASSUME Len(bytes) = 0 PROVE Position(byte, bytes) = 0
  <2>1. I = {}
    BY <1>3
  <2> QED
    BY <1>1, <2>1
<1>4. ASSUME NEW p \in 1..Len(bytes), bytes[p] = byte, \A i \in 1..p - 1 : bytes[i] # byte
      PROVE  Position(byte, bytes) = p
  <2>1. p \in I /\ \A i \in I : p =< i
    BY <1>2, <1>4
  <2>2. \A i \in I : (\A j \in I : i =< j) => i = p
    BY <1>2, <2>1
  <2>3. Min(I) = p
    <3> HIDE DEF I
    <3> QED
      BY <2>1, <2>2, Zenon DEF Min
  <2> QED
    BY <1>1, <2>1, <2>3
<1> QED
  BY <1>3, <1>4

(* Each read consumes the answer that it is for, and nothing stays of none.  *)
LEMMA ReadsAll ==
  /\ \A bytes : Long(bytes) => get_response2(bytes).rest = <<>>
  /\ \A bytes : Short(bytes) => get_response(bytes).rest = <<>>
  /\ get_response(<<>>).rest = <<>> /\ get_response2(<<>>).rest = <<>>
<1>1. ASSUME NEW bytes \in Seq(Bytes), Len(bytes) >= 1, bytes[1] = STX
      PROVE  Position(STX, bytes) = 1 /\ From(1, bytes) = bytes
  <2>1. 1 \in 1..Len(bytes) /\ \A i \in 1..1 - 1 : bytes[i] # STX
    BY <1>1
  <2> QED
    BY <1>1, <2>1, PositionFacts, SubSeqFull DEF From
<1>2. ASSUME NEW bytes \in Seq(Bytes) PROVE From(Len(bytes) + 1, bytes) = <<>>
  <2>1. Len(bytes) \in Int /\ Len(bytes) + 1 \in Int /\ Len(bytes) < Len(bytes) + 1
    OBVIOUS
  <2> QED
    BY <2>1, SubSeqEmpty DEF From
<1>3. ASSUME NEW bytes, Long(bytes) PROVE get_response2(bytes).rest = <<>>
  <2>1. /\ bytes \in Seq(Bytes) /\ Len(bytes) >= 1 /\ bytes[1] = STX
        /\ Len(bytes) + 1 = 21
    BY <1>3 DEF Long
  <2>2. Position(STX, bytes) = 1 /\ From(1, bytes) = bytes /\ From(21, bytes) = <<>>
    BY <1>1, <1>2, <2>1, Zenon
  <2> QED
    BY <2>2 DEF get_response2, Packet
<1>4. ASSUME NEW bytes, Short(bytes) PROVE get_response(bytes).rest = <<>>
  <2>1. bytes \in Seq(Bytes) /\ Len(bytes) \in Nat /\ Len(bytes) >= 3 /\ bytes[1] = STX
    BY <1>4 DEF Short
  <2>2. Position(STX, bytes) = 1 /\ From(1, bytes) = bytes
    BY <1>1, <2>1
  <2>3. Position(ETX, bytes) = Len(bytes) - 1
    <3> DEFINE p == Len(bytes) - 1
    <3>1. p \in 1..Len(bytes) /\ p - 1 = Len(bytes) - 2
      BY <2>1
    <3>2. bytes[p] = ETX /\ \A i \in 1..p - 1 : bytes[i] # ETX
      BY <1>4, <3>1, Zenon DEF Short
    <3> HIDE DEF p
    <3>3. Position(ETX, bytes) = p
      BY <2>1, <3>1, <3>2, PositionFacts
    <3> QED
      BY <3>3 DEF p
  <2>4. Position(ETX, bytes) + 1 = Len(bytes) /\ From(Len(bytes) + 1, bytes) = <<>>
    BY <1>2, <2>1, <2>3
  <2> QED
    BY <2>2, <2>4, Zenon DEF get_response, Packet
<1>5. Position(STX, <<>>) = 0
  <2>1. <<>> \in Seq(Bytes) /\ Len(<<>>) = 0
    OBVIOUS
  <2> QED
    BY <2>1, PositionFacts
<1> QED
  BY <1>3, <1>4, <1>5 DEF get_response, get_response2, Packet

(* The bytes of at most one answer.                                         *)
LEMMA OneAnswer ==
  /\ FlattenSeq(<<>>) = <<>>
  /\ \A a : FlattenSeq(<<a>>) = a
<1>1. FlattenSeq(<<>>) = <<>>
  BY DEF FlattenSeq
<1>2. ASSUME NEW a PROVE FlattenSeq(<<a>>) = a
  <2> DEFINE Is(f) == f = [i \in 1..Len(<<a>>) |-> IF i = 1 THEN <<a>>[i] ELSE f[i - 1] \o <<a>>[i]]
             g == [i \in 1..Len(<<a>>) |-> a]
             flatten == CHOOSE f : Is(f)
  <2>1. Len(<<a>>) = 1 /\ <<a>>[1] = a /\ 1..1 = {1} /\ 1 # 0
    OBVIOUS
  <2>2. FlattenSeq(<<a>>) = flatten[1]
    BY <2>1, Zenon DEF FlattenSeq
  <2>3. Is(g)
    BY <2>1
  <2>4. Is(flatten)
    <3> HIDE DEF Is, g
    <3> QED
      BY <2>3, Zenon
  <2>5. flatten[1] = a
    <3> HIDE DEF flatten
    <3> QED
      BY <2>1, <2>4
  <2> QED
    BY <2>2, <2>5
<1> QED
  BY <1>1, <1>2

(* Three bytes after sixteen.                                               *)
LEMMA ThreeMore ==
  ASSUME NEW s \in Seq(Bytes), NEW t \in Seq(Bytes), Len(s) = 16, Len(t) = 3
  PROVE  s \o t \in Seq(Bytes) /\ Len(s \o t) = 19 /\ (s \o t)[1] = s[1]
<1>1. 1 \in 1..Len(s) /\ Len(s) + Len(t) = 19
  OBVIOUS
<1>2. /\ s \o t \in Seq(Bytes) /\ Len(s \o t) = Len(s) + Len(t)
      /\ \A i \in 1..Len(s) + Len(t) : (s \o t)[i] = IF i <= Len(s) THEN s[i] ELSE t[i - Len(s)]
  BY ConcatProperties, Zenon
<1> QED
  BY <1>1, <1>2

(* A byte more.                                                             *)
LEMMA Appended ==
  ASSUME NEW s \in Seq(Bytes), NEW x \in Bytes
  PROVE  /\ Append(s, x) \in Seq(Bytes) /\ Len(Append(s, x)) = Len(s) + 1
         /\ \A i \in 1..Len(s) : Append(s, x)[i] = s[i]
OBVIOUS

(* A frame from STX to the first ETX, and its LRC.                          *)
Framed(frame) ==
  /\ frame \in Seq(Bytes) /\ Len(frame) >= 2 /\ frame[1] = STX
  /\ frame[Len(frame)] = ETX /\ \A i \in 1..Len(frame) - 1 : frame[i] # ETX

LEMMA FramedIsShort ==
  ASSUME NEW frame, Framed(frame), NEW mark \in Bytes
  PROVE  Short(Append(frame, mark))
<1>1. PICK n \in Nat : n = Len(frame) /\ n >= 2
  BY DEF Framed
<1>2. /\ Append(frame, mark) \in Seq(Bytes) /\ Len(Append(frame, mark)) = n + 1
      /\ \A i \in 1..n : Append(frame, mark)[i] = frame[i]
  BY <1>1, Appended DEF Framed
<1>3. /\ n + 1 >= 3 /\ 1 \in 1..n /\ (n + 1) - 1 = n /\ (n + 1) - 2 = n - 1 /\ n \in 1..n
      /\ \A i \in 1..n - 1 : i \in 1..n
  BY <1>1
<1> QED
  BY <1>1, <1>2, <1>3, Zenon DEF Framed, Short

(* A state answer, from STX to ETX.                                         *)
LEMMA StateFacts ==
  ASSUME NEW motion \in Motions, NEW bumper \in Bumpers, NEW emg \in Switches
  PROVE  LET frame == State(motion, bumper, emg)
         IN  frame \in Seq(Bytes) /\ Len(frame) = 19 /\ frame[1] = STX
<1> DEFINE head == <<STX, FLAG_OK>>
           tail == <<bumper, emg, ETX>>
<1>1. motion \in [1..14 -> Bytes]
  <2>1. \A n \in 0..255 : n \in Bytes
    BY DEF Bytes
  <2>2. motion \in [1..14 -> 0..255]
    BY LinkAssumption
  <2> QED
    BY <2>1, <2>2
<1>2. motion \in Seq(Bytes) /\ Len(motion) = 14
  <2>1. ASSUME NEW n \in Nat, NEW f \in [1..n -> Bytes] PROVE f \in Seq(Bytes) /\ Len(f) = n
    OBVIOUS
  <2> QED
    BY <1>1, <2>1, 14 \in Nat, Zenon
<1>3. bumper \in Bytes /\ emg \in Bytes /\ STX \in Bytes /\ FLAG_OK \in Bytes /\ ETX \in Bytes
  BY LinkAssumption DEF Bytes, Bumpers, STX, ETX, FLAG_OK
<1>4. /\ head \in Seq(Bytes) /\ Len(head) = 2 /\ head[1] = STX
      /\ tail \in Seq(Bytes) /\ Len(tail) = 3
  BY <1>3
<1>5. State(motion, bumper, emg) = head \o motion \o tail
  BY DEF State
<1> HIDE DEF head, tail
<1>6. head \o motion \in Seq(Bytes) /\ Len(head \o motion) = 16 /\ (head \o motion)[1] = head[1]
  <2>1. 1 \in 1..Len(head) /\ Len(head) + Len(motion) = 16
    BY <1>2, <1>4
  <2>2. /\ head \o motion \in Seq(Bytes) /\ Len(head \o motion) = Len(head) + Len(motion)
        /\ \A i \in 1..Len(head) + Len(motion) :
             (head \o motion)[i] = IF i <= Len(head) THEN head[i] ELSE motion[i - Len(head)]
    BY <1>2, <1>4, ConcatProperties, Zenon
  <2> QED
    BY <1>2, <1>4, <2>1, <2>2
<1>7. /\ head \o motion \o tail \in Seq(Bytes) /\ Len(head \o motion \o tail) = 19
      /\ (head \o motion \o tail)[1] = (head \o motion)[1]
  BY <1>4, <1>6, ThreeMore, Zenon
<1> QED
  BY <1>4, <1>5, <1>6, <1>7

(* The bytes of an answer of n bytes, one of which may be another.          *)
LEMMA OneDamaged ==
  ASSUME NEW s \in Seq(Bytes), NEW k \in Nat, NEW x \in Bytes
  PROVE  \E t \in Seq(Bytes) :
           /\ t = [s EXCEPT ![k] = x]
           /\ Len(t) = Len(s) /\ \A i \in 1..Len(s) : i # k => t[i] = s[i]
<1> DEFINE t == [s EXCEPT ![k] = x]
<1>1. PICK n \in Nat : Len(s) = n
  OBVIOUS
<1>2. s \in [1..n -> Bytes]
  BY <1>1, LenProperties
<1>3. t \in [1..n -> Bytes] /\ \A i \in 1..n : i # k => t[i] = s[i]
  BY <1>2
<1> HIDE DEF t
<1>4. ASSUME NEW f \in [1..n -> Bytes] PROVE f \in Seq(Bytes) /\ Len(f) = n
  OBVIOUS
<1>5. t \in Seq(Bytes) /\ Len(t) = n
  BY <1>3, <1>4, Zenon
<1> QED
  BY <1>1, <1>3, <1>5 DEF t

LEMMA LastDamaged ==
  ASSUME NEW s \in Seq(Bytes), NEW x \in Bytes, NEW y \in Bytes
  PROVE  [Append(s, x) EXCEPT ![Len(s) + 1] = y] = Append(s, y)
<1>1. PICK n \in Nat : Len(s) = n
  OBVIOUS
<1> DEFINE Extended(z) == [i \in 1..n + 1 |-> IF i = n + 1 THEN z ELSE s[i]]
<1>2. ASSUME NEW z \in Bytes PROVE Append(s, z) = Extended(z)
  <2>1. Append(s, z) \in Seq(Bytes) /\ Len(Append(s, z)) = n + 1
    BY <1>1
  <2>2. Append(s, z) \in [1..n + 1 -> Bytes]
    BY <2>1, LenProperties
  <2>3. \A i \in 1..n + 1 : Append(s, z)[i] = IF i = n + 1 THEN z ELSE s[i]
    BY <1>1
  <2> QED
    BY <2>2, <2>3
<1>3. [Extended(x) EXCEPT ![n + 1] = y] = Extended(y)
  OBVIOUS
<1> HIDE DEF Extended
<1> QED
  BY <1>1, <1>2, <1>3, Zenon

(* The answer of a controller, as it arrives.                               *)
LEMMA AnswerShapes ==
  ASSUME Types, contacts \subseteq Bumpers, NEW request \in Requests,
         NEW answer \in AnswersTo(request), NEW a \in {Intact(answer)} \cup Damaged(answer)
  PROVE  IF request.op = "velocity" THEN Long(a) ELSE Short(a)
<1>types. controller.accel \in 1..9
  BY LinkAssumption DEF Types
<1>1. \/ /\ request.op = "velocity"
         /\ answer \in States(contacts)
      \/ /\ request.op # "velocity"
         /\ \/ answer = Ack
            \/ \E fault \in BOOLEAN : answer = Errors(fault)
            \/ answer = Number(controller.accel)
  <2>1. request.op = "velocity" =>
          AnswersTo(request) = States(contacts)
    BY Zenon DEF AnswersTo
  <2>2. request.op = "errors" => AnswersTo(request) = {Errors(fault) : fault \in BOOLEAN}
    BY Zenon DEF AnswersTo
  <2>3. request.op = "read" => AnswersTo(request) = {Number(controller.accel)}
    BY Zenon DEF AnswersTo
  <2>4. request.op \notin {"velocity", "errors", "read"} => AnswersTo(request) = {Ack}
    BY Zenon DEF AnswersTo
  <2> QED
    BY <2>1, <2>2, <2>3, <2>4
<1>2. answer \in Frames
  <2>1. controller.accel \in Accels
    BY DEF Types
  <2>2. States(contacts) \subseteq States(Bumpers)
    BY DEF States
  <2> QED
    BY <1>1, <2>1, <2>2, Zenon DEF Frames
<1>3. Lrc[answer] \in Bytes
  BY <1>2 DEF Bytes
<1>4. a = Append(answer, Lrc[answer])
      \/ \E i \in {Len(answer) + 1} \cup (IF Len(answer) = 19 THEN {17} ELSE {}) :
           a = [Append(answer, Lrc[answer]) EXCEPT ![i] = Noise]
  BY DEF Intact, Damaged
<1>5. Noise \in Bytes
  BY LinkAssumption DEF Bytes
<1>6. CASE request.op = "velocity"
  <2>1. answer \in Seq(Bytes) /\ Len(answer) = 19 /\ answer[1] = STX
    <3>1. PICK m \in Motions, c \in Bumpers, e \in Switches : answer = State(m, c, e)
      BY <1>1, <1>6 DEF States
    <3> QED
      BY <3>1, StateFacts
  <2> DEFINE whole == Append(answer, Lrc[answer])
  <2>2. whole \in Seq(Bytes) /\ Len(whole) = 20 /\ whole[1] = STX
    <3>1. Len(answer) + 1 = 20 /\ 1 \in 1..Len(answer)
      BY <2>1
    <3> QED
      BY <1>3, <2>1, <3>1, Appended, Zenon
  <2>3. a = whole \/ \E i \in {17, 20} : a = [whole EXCEPT ![i] = Noise]
    BY <1>4, <2>1
  <2> HIDE DEF whole
  <2>4. ASSUME NEW i \in {17, 20} PROVE Long([whole EXCEPT ![i] = Noise])
    <3>1. i \in Nat /\ 1 # i /\ 1 \in 1..Len(whole)
      BY <2>2
    <3>2. PICK t \in Seq(Bytes) :
            /\ t = [whole EXCEPT ![i] = Noise]
            /\ Len(t) = Len(whole) /\ \A j \in 1..Len(whole) : j # i => t[j] = whole[j]
      BY <1>5, <2>2, <3>1, OneDamaged, Zenon
    <3>3. Len(t) = 20 /\ t[1] = STX
      BY <2>2, <3>1, <3>2, Zenon
    <3> QED
      BY <3>2, <3>3, Zenon DEF Long
  <2> QED
    BY <1>6, <2>2, <2>3, <2>4, Zenon DEF Long
<1>7. CASE request.op # "velocity"
  <2>1. Len(answer) # 19 /\ Framed(answer)
    <3>1. ASSUME answer = Ack PROVE Len(answer) # 19 /\ Framed(answer)
      BY <3>1 DEF Framed, Ack, STX, FLAG_OK, ETX, Bytes
    <3>2. ASSUME NEW fault \in BOOLEAN, answer = Errors(fault)
          PROVE  Len(answer) # 19 /\ Framed(answer)
      BY <3>2 DEF Framed, Errors, STX, FLAG_OK, ETX, Bytes
    <3>3. ASSUME answer = Number(controller.accel) PROVE Len(answer) # 19 /\ Framed(answer)
      <4> DEFINE digit == 48 + controller.accel
      <4>1. digit \in Nat /\ digit # 3
        BY <1>types
      <4>2. answer = <<2, 48, digit, 3>>
        BY <3>3 DEF Number, STX, FLAG_OK, ETX
      <4> HIDE DEF digit
      <4> QED
        BY <4>1, <4>2 DEF Framed, STX, ETX, Bytes
    <3> QED
      BY <1>1, <1>7, <3>1, <3>2, <3>3
  <2>2. \E mark \in Bytes : a = Append(answer, mark)
    <3>1. answer \in Seq(Bytes)
      BY <2>1 DEF Framed
    <3>2. a = Append(answer, Lrc[answer])
          \/ a = [Append(answer, Lrc[answer]) EXCEPT ![Len(answer) + 1] = Noise]
      BY <1>4, <2>1
    <3>3. [Append(answer, Lrc[answer]) EXCEPT ![Len(answer) + 1] = Noise] = Append(answer, Noise)
      BY <1>3, <1>5, <3>1, LastDamaged, Zenon
    <3> QED
      BY <1>3, <1>5, <3>2, <3>3, Zenon
  <2> QED
    BY <1>7, <2>1, <2>2, FramedIsShort
<1> QED
  BY <1>6, <1>7

(* Until an answer is late, nothing is on the line between exchanges.        *)
Quiet == contacts \subseteq Bumpers /\ late \in BOOLEAN /\ (late \/ (stream = <<>> /\ owed = <<>>))

LEMMA ExchangeInStep == Types /\ Quiet /\ MakeExchange => Quiet'
<1> SUFFICES ASSUME Types, Quiet, MakeExchange PROVE Quiet'
  OBVIOUS
<1>0. PICK answer \in AnswersTo(Head(todo)), reached \in BOOLEAN, n \in 0..Behind + 1 :
        \E answers \in {<<>>} \cup {<<a>> : a \in {Intact(answer)} \cup Damaged(answer)} :
          todo # <<>> /\ Exchange(reached, answers, n)
  BY Zenon DEF MakeExchange
<1>1. PICK answers \in {<<>>} \cup {<<a>> : a \in {Intact(answer)} \cup Damaged(answer)} :
        todo # <<>> /\ Exchange(reached, answers, n)
  BY <1>0
<1> DEFINE request == Head(todo)
           due == owed \o answers
           bytes == stream \o FlattenSeq(SubSeq(due, 1, n))
<1>2. /\ contacts' = contacts /\ late' = (late \/ owed' # <<>>)
      /\ n <= Len(due) /\ owed' = From(n + 1, due)
      /\ stream' = IF request.op = "velocity" THEN get_response2(bytes).rest
                   ELSE get_response(bytes).rest
  BY <1>1, Zenon DEF Exchange
<1>3. request \in Requests
  BY <1>1, Splits DEF Types
<1>4. SUFFICES ASSUME ~late, owed' = <<>> PROVE stream' = <<>>
  BY <1>2 DEF Quiet
<1>5. stream = <<>> /\ owed = <<>>
  BY <1>4 DEF Quiet
<1>6. CASE answers = <<>>
  <2>1. due = <<>> /\ n = 0
    BY <1>2, <1>5, <1>6
  <2>2. SubSeq(due, 1, n) = <<>>
    BY <2>1, SubSeqEmpty
  <2>3. bytes = <<>>
    <3>1. <<>> \o <<>> = <<>>
      OBVIOUS
    <3> HIDE DEF due
    <3> QED
      BY <1>5, <2>2, <3>1, OneAnswer, Zenon
  <2> QED
    BY <1>2, <2>3, ReadsAll
<1>7. ASSUME NEW a \in {Intact(answer)} \cup Damaged(answer), answers = <<a>>
      PROVE  stream' = <<>>
  <2>1. IF request.op = "velocity" THEN Long(a) ELSE Short(a)
    BY <1>3, AnswerShapes DEF Quiet
  <2>2. a \in Seq(Bytes)
    BY <2>1 DEF Long, Short
  <2>3. due = <<a>>
    BY <1>5, <1>7
  <2>4. n = 1
    BY <1>2, <1>4, <2>3 DEF From
  <2>5. bytes = a
    <3>1. SubSeq(due, 1, n) = <<a>>
      <4>1. <<a>> \in Seq(Seq(Bytes)) /\ Len(<<a>>) = 1
        BY <2>2
      <4> HIDE DEF due
      <4> QED
        BY <2>3, <2>4, <4>1, SubSeqFull
    <3>2. <<>> \o a = a
      BY <2>2, ConcatEmptySeq
    <3> QED
      BY <1>5, <3>1, <3>2, OneAnswer
  <2> HIDE DEF bytes, request
  <2> QED
    BY <1>2, <2>1, <2>5, ReadsAll
<1> QED
  BY <1>6, <1>7

(* However many answers are lost or damaged: until one is late, every       *)
(* exchange takes all of its answer from the port (dssp_rs232_drive_        *)
(* module.c, get_response and get_response2).                               *)
THEOREM NothingLeftOver == Spec => []InStepUnlessLate
<1>1. Init => IInv /\ Quiet
  BY InitIInv DEF Init, Quiet, Bumpers
<1>2. IInv /\ Quiet /\ [Next]_vars => (IInv /\ Quiet)'
  <2> SUFFICES ASSUME IInv, Quiet, [Next]_vars PROVE Quiet'
    BY StepIInv
  <2>1. CASE MakeExchange
    BY <2>1, ExchangeInStep DEF IInv
  <2>2. CASE Destroy
    BY <2>2 DEF Destroy, Quiet, world
  <2>3. CASE StartPass \/ Judge \/ CheckBumper \/ Leave
    BY <2>3 DEF StartPass, Judge, CheckBumper, Leave, Quiet, line, world
  <2>4. CASE Callbacks
    BY <2>4 DEF Callbacks, accelCallback, Parameter_Write_Command, pose_resetCallback,
         servo_onCallback, power_statusCallback, Parameter_Read_Command,
         Movemode_Change_Command, Position_Move_Command, Handle, Quiet, line
  <2>5. ASSUME NEW bumper \in Bumpers, CalmDown(bumper) PROVE Quiet'
    BY <2>5 DEF CalmDown, Quiet, line
  <2>7. CASE UNCHANGED vars
    BY <2>7 DEF vars, Quiet, line, world
  <2> QED
    BY <2>1, <2>2, <2>3, <2>4, <2>5, <2>7 DEF Next
<1>3. IInv /\ Quiet => InStepUnlessLate
  BY DEF Quiet, InStepUnlessLate
<1> QED
  BY <1>1, <1>2, <1>3, PTL DEF Spec
=============================================================================
