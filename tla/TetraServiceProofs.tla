------------------------- MODULE TetraServiceProofs -------------------------
(* TLAPS proofs about TetraService, for any tags, poses and limits.         *)
EXTENDS TetraService, TLAPS

(* The commands that the handlers put together are Twists. *)
LEMMA Commanded ==
  /\ Stop \in Twists
  /\ \A t \in Twists : /\ [linear |-> 0, turning |-> t.turning] \in Twists
                       /\ [linear |-> t.linear, turning |-> TRUE] \in Twists
  /\ \A n \in Nat, b \in BOOLEAN : /\ [linear |-> Sign(n), turning |-> b] \in Twists
                                   /\ [linear |-> -Sign(n), turning |-> b] \in Twists
  /\ \A b \in BOOLEAN : /\ [linear |-> 1, turning |-> b] \in Twists
                        /\ [linear |-> -1, turning |-> b] \in Twists
<1> DEFINE Twist(l, b) == [linear |-> l, turning |-> b]
<1>1. \A l \in {-1, 0, 1}, b \in BOOLEAN : Twist(l, b) \in Twists
  BY DEF Twists
<1>2. \A t \in Twists : t.linear \in {-1, 0, 1} /\ t.turning \in BOOLEAN
  BY DEF Twists
<1>3. \A n \in Nat : Sign(n) \in {-1, 0, 1} /\ -Sign(n) \in {-1, 0, 1}
  <2>1. ASSUME NEW sign \in {0, 1} PROVE sign \in {-1, 0, 1} /\ -sign \in {-1, 0, 1}
    OBVIOUS
  <2>2. \A n \in Nat : Sign(n) \in {0, 1}
    BY DEF Sign
  <2> QED
    BY <2>1, <2>2
<1>4. Stop = Twist(0, FALSE)
  BY DEF Stop
<1>5. TRUE \in BOOLEAN /\ FALSE \in BOOLEAN
  OBVIOUS
<1> HIDE DEF Twist
<1>6. /\ \A t \in Twists : /\ Twist(0, t.turning) \in Twists
                           /\ Twist(t.linear, TRUE) \in Twists
      /\ \A n \in Nat, b \in BOOLEAN : /\ Twist(Sign(n), b) \in Twists
                                       /\ Twist(-Sign(n), b) \in Twists
      /\ \A b \in BOOLEAN : Twist(1, b) \in Twists /\ Twist(-1, b) \in Twists
      /\ Twist(0, FALSE) \in Twists
  BY <1>1, <1>2, <1>3, <1>5
<1> QED
  BY <1>4, <1>6 DEF Twist

(* What the loop reads of a tag. *)
LEMMA TagFields ==
  ASSUME SensorTypeOK
  PROVE  tag.id \in TagIds \cup {NoTag} /\ tag.x \in Nat /\ tag.d \in Nat /\ tag.pitch \in Int
BY DEF SensorTypeOK, Tags

(* The limits are natural numbers. *)
LEMMA Limits ==
  /\ NoMarkerMax \in Nat /\ NoMarker2Max \in Nat /\ NoMarker2Max <= NoMarkerMax
  /\ RotationMax \in Nat /\ BackMax \in Nat /\ RetryMax \in Nat /\ MaxGotos \in Nat
BY ServiceAssumption

-----------------------------------------------------------------------------
(* Modes, ids and the latched yaw of the loop. *)
LEMMA LoopKeepsLoopType == TypeOK /\ DockingThread_function => LoopTypeOK'
<1> SUFFICES ASSUME TypeOK, DockingThread_function PROVE LoopTypeOK'
  OBVIOUS
<1> USE ServiceAssumption, TagFields
        DEF TypeOK, LoopTypeOK, LoopModes, DockingThread_function, request, latched
<1>1. ASSUME ChargingStation_tracking PROVE LoopTypeOK'
  BY <1>1 DEF ChargingStation_tracking, LatchMarker, Track, Arrive, Search
<1>2. ASSUME ChargingStation_Yaw_tracking PROVE LoopTypeOK'
  BY <1>2 DEF ChargingStation_Yaw_tracking, Docking_EXIT
<1>3. ASSUME ChargingStation_tracking2 PROVE LoopTypeOK'
  BY <1>3 DEF ChargingStation_tracking2, FinalApproach, ApproachEnds, Docking_EXIT
<1>4. ASSUME ChargingStation_back_step PROVE LoopTypeOK'
  BY <1>4 DEF ChargingStation_back_step
<1>5. ASSUME PassThrough PROVE LoopTypeOK'
  BY <1>5 DEF PassThrough
<1>6. ASSUME Depart_Station2Move PROVE LoopTypeOK'
  BY <1>6 DEF Depart_Station2Move
<1> QED
  BY <1>1, <1>2, <1>3, <1>4, <1>5, <1>6 DEF DockingStep

(* The counters of the loop: each tick checks before it counts. *)
LEMMA LoopKeepsCounters == TypeOK /\ DockingThread_function => CountersBounded'
<1> SUFFICES ASSUME TypeOK, DockingThread_function PROVE CountersBounded'
  OBVIOUS
<1> USE Limits DEF TypeOK, CountersBounded, DockingThread_function, counters
<1>1. ASSUME ChargingStation_tracking PROVE CountersBounded'
  BY <1>1 DEF ChargingStation_tracking, Track, Arrive, Search
<1>2. ASSUME ChargingStation_Yaw_tracking PROVE CountersBounded'
  BY <1>2 DEF ChargingStation_Yaw_tracking
<1>3. ASSUME ChargingStation_tracking2 PROVE CountersBounded'
  BY <1>3 DEF ChargingStation_tracking2, FinalApproach, ApproachEnds
<1>4. ASSUME ChargingStation_back_step PROVE CountersBounded'
  BY <1>4 DEF ChargingStation_back_step
<1>5. ASSUME PassThrough PROVE CountersBounded'
  BY <1>5 DEF PassThrough
<1>6. ASSUME Depart_Station2Move PROVE CountersBounded'
  BY <1>6 DEF Depart_Station2Move
<1> QED
  BY <1>1, <1>2, <1>3, <1>4, <1>5, <1>6 DEF DockingStep

(* The loop's velocity commands. *)
LEMMA LoopKeepsMotionType == TypeOK /\ DockingThread_function => MotionTypeOK'
<1> SUFFICES ASSUME TypeOK, DockingThread_function PROVE MotionTypeOK'
  OBVIOUS
<1> USE Commanded, TagFields
        DEF TypeOK, MotionTypeOK, DockingThread_function, Publish, motion
<1>1. ASSUME ChargingStation_tracking PROVE MotionTypeOK'
  BY <1>1 DEF ChargingStation_tracking, Track, Arrive, Search
<1>2. ASSUME ChargingStation_Yaw_tracking PROVE MotionTypeOK'
  BY <1>2 DEF ChargingStation_Yaw_tracking, Docking_EXIT
<1>3. ASSUME ChargingStation_tracking2 PROVE MotionTypeOK'
  <2> DEFINE Ahead == [linear |-> Sign(tag.d), turning |-> tag.bearing # "ahead"]
  <2>1. Ahead \in Twists
    OBVIOUS
  <2> HIDE DEF Ahead
  <2>2. \/ cmd' = Stop /\ published' = Stop
        \/ cmd' = Stop /\ published' = published
        \/ cmd' = Ahead /\ published' = Ahead
    BY <1>3 DEF ChargingStation_tracking2, FinalApproach, ApproachEnds, Docking_EXIT, Ahead
  <2> QED
    BY <2>1, <2>2
<1>4. ASSUME ChargingStation_back_step PROVE MotionTypeOK'
  BY <1>4 DEF ChargingStation_back_step
<1>5. ASSUME PassThrough PROVE MotionTypeOK'
  BY <1>5 DEF PassThrough
<1>6. ASSUME Depart_Station2Move PROVE MotionTypeOK'
  <2> DEFINE Back == [linear |-> -1, turning |-> FALSE]
  <2>1. Back \in Twists
    OBVIOUS
  <2> HIDE DEF Back
  <2>2. \/ cmd' = Stop /\ published' = Stop
        \/ cmd' = Back /\ published' = Back
    BY <1>6 DEF Depart_Station2Move, Back
  <2> QED
    BY <2>1, <2>2
<1> QED
  BY <1>1, <1>2, <1>3, <1>4, <1>5, <1>6 DEF DockingStep
-----------------------------------------------------------------------------
(* A tick of the docking loop keeps the types. *)
LEMMA TickTypes == TypeOK /\ DockingThread_function => TypeOK'
<1> SUFFICES ASSUME TypeOK, DockingThread_function PROVE TypeOK'
  OBVIOUS
<1>1. SensorTypeOK' /\ AmclTypeOK'
  BY DEF TypeOK, DockingThread_function, SensorTypeOK, AmclTypeOK, sensors, amcl
<1>2. NavTypeOK'
  <2>1. CASE DockingStep
    BY <2>1 DEF TypeOK, DockingStep, NavTypeOK, nav
  <2>2. CASE Depart_Station2Move
    BY <2>2 DEF TypeOK, Depart_Station2Move, Set_goal, NavTypeOK
  <2> QED
    BY <2>1, <2>2 DEF DockingThread_function
<1> QED
  BY <1>1, <1>2, LoopKeepsLoopType, LoopKeepsCounters, LoopKeepsMotionType DEF TypeOK

(* A result of Nav2 keeps the types: the retry counter stays in its range.  *)
LEMMA ResultTypes == TypeOK /\ resultCallback => TypeOK'
<1> SUFFICES ASSUME TypeOK, resultCallback PROVE TypeOK'
  OBVIOUS
<1>1. CountersBounded' /\ SensorTypeOK' /\ AmclTypeOK' /\ MotionTypeOK'
  BY DEF TypeOK, resultCallback, CountersBounded, SensorTypeOK, AmclTypeOK, MotionTypeOK,
         counters, sensors, amcl, motion
<1>2. LoopTypeOK'
  BY DEF TypeOK, resultCallback, LoopTypeOK, LoopModes, latched, ResultSucceeded,
         ResultAborted, ResultCanceled, ResultUnknown
<1>3. NavTypeOK'
  <2> USE DEF TypeOK, resultCallback, NavTypeOK, Retry, ResultSucceeded, ResultAborted,
              ResultCanceled, ResultUnknown
  <2>1. m_bflag_ComebackHome' \in BOOLEAN /\ cancelled' \in BOOLEAN
    OBVIOUS
  <2>2. ex_iRetry_count' \in 0..RetryMax
    BY Limits
  <2>3. outstanding' \in Nat /\ gotos' \in 0..MaxGotos
    OBVIOUS
  <2> QED
    BY <2>1, <2>2, <2>3
<1> QED
  BY <1>1, <1>2, <1>3 DEF TypeOK

(* So do the subscriptions that observe the world. *)
LEMMA SensingTypes == TypeOK /\ Sensing => TypeOK'
<1> SUFFICES ASSUME TypeOK, Sensing PROVE TypeOK'
  OBVIOUS
<1>1. LoopTypeOK' /\ CountersBounded' /\ MotionTypeOK' /\ NavTypeOK'
  BY DEF TypeOK, Sensing, LoopTypeOK, CountersBounded, MotionTypeOK, NavTypeOK,
         request, latched, counters, motion, nav, ApriltagCallback, NoMarker,
         DockingStatusCallback, Initialpose_Callback, AMCL_PaticleCloud_Callback
<1>2. AmclTypeOK'
  BY DEF TypeOK, Sensing, AmclTypeOK, amcl, ApriltagCallback, NoMarker,
         DockingStatusCallback, Initialpose_Callback, AMCL_PaticleCloud_Callback
<1>3. SensorTypeOK'
  <2> USE DEF TypeOK, SensorTypeOK, sensors
  <2>1. ASSUME NEW id \in TagIds, NEW pose \in Poses, ApriltagCallback(id, pose)
        PROVE  SensorTypeOK'
    <3>1. /\ [tag EXCEPT !.id = id] \in Tags
          /\ [tag EXCEPT !.id = id, !.pitch = pose.pitch] \in Tags
          /\ [id |-> id, x |-> pose.x, d |-> pose.d,
              bearing |-> pose.bearing, pitch |-> pose.pitch] \in Tags
      BY PoseAssumption DEF Tags
    <3>2. tag' \in Tags
      BY <2>1, <3>1 DEF ApriltagCallback
    <3> QED
      BY <2>1, <3>2 DEF ApriltagCallback
  <2>2. ASSUME NoMarker PROVE SensorTypeOK'
    <3>1. tag' \in Tags
      BY <2>2 DEF NoMarker, Tags
    <3> QED
      BY <2>2, <3>1 DEF NoMarker
  <2>3. ASSUME NEW status \in Charging, DockingStatusCallback(status)
        PROVE  SensorTypeOK'
    BY <2>3 DEF DockingStatusCallback
  <2> QED
    BY <2>1, <2>2, <2>3 DEF Sensing, Initialpose_Callback, AMCL_PaticleCloud_Callback
<1> QED
  BY <1>1, <1>2, <1>3 DEF TypeOK

(* And the commands from outside. *)
LEMMA CommandTypes == TypeOK /\ Commands => TypeOK'
<1> SUFFICES ASSUME TypeOK, Commands PROVE TypeOK'
  OBVIOUS
<1> USE DEF TypeOK, joyCallback, Docking_Command, Docking_Stop_Command, Docking_EXIT,
            Goto_Location_Command, Goto_Location2_Command, Goto_Cancel_Command
<1>1. CountersBounded' /\ SensorTypeOK' /\ AmclTypeOK'
  BY DEF Commands, CountersBounded, SensorTypeOK, AmclTypeOK, counters, sensors, amcl
<1>2. LoopTypeOK'
  BY ServiceAssumption
  DEF Commands, LoopTypeOK, LoopModes, latched, request, DepartMove
<1>3. MotionTypeOK'
  BY Commanded DEF Commands, MotionTypeOK, motion, Publish
<1>4. NavTypeOK'
  <2> USE DEF Commands, NavTypeOK, nav, GotoAccepted, Set_goal
  <2>1. m_bflag_ComebackHome' \in BOOLEAN
    BY Zenon
  <2>2. cancelled' \in BOOLEAN
    <3>1. \/ cancelled' = cancelled
          \/ cancelled' = FALSE
          \/ cancelled' = (gotos > 0)
      BY Zenon
    <3>2. (gotos > 0) \in BOOLEAN /\ cancelled \in BOOLEAN
      OBVIOUS
    <3> QED
      BY <3>1, <3>2, Zenon
  <2>3. ex_iRetry_count' \in 0..RetryMax /\ outstanding' \in Nat
    BY Limits
  <2>4. gotos' \in 0..MaxGotos
    BY Limits
  <2> QED
    BY <2>1, <2>2, <2>3, <2>4
<1> QED
  BY <1>1, <1>2, <1>3, <1>4

(* Every handler keeps the node well typed and every counter in its bounds, *)
(* whatever the order of the commands and for every limit.                  *)
THEOREM TypeCorrect == Spec => []TypeOK
<1>1. Init => TypeOK
  <2> SUFFICES ASSUME Init PROVE TypeOK
    OBVIOUS
  <2>1. LoopTypeOK /\ AmclTypeOK /\ MotionTypeOK
    BY ServiceAssumption, Commanded
    DEF Init, LoopTypeOK, AmclTypeOK, MotionTypeOK, LoopModes
  <2>2. CountersBounded
    BY Limits DEF Init, CountersBounded
  <2>3. NavTypeOK
    <3>1. ex_iRetry_count \in 0..RetryMax /\ outstanding \in Nat /\ gotos \in 0..MaxGotos
      BY Limits DEF Init
    <3> QED
      BY <3>1 DEF Init, NavTypeOK
  <2>4. SensorTypeOK
    BY ServiceAssumption DEF Init, SensorTypeOK, Tags
  <2> QED
    BY <2>1, <2>2, <2>3, <2>4 DEF TypeOK
<1>2. TypeOK /\ [Next]_vars => TypeOK'
  <2> USE DEF LoopTypeOK, CountersBounded, SensorTypeOK, AmclTypeOK, MotionTypeOK,
              NavTypeOK, TypeOK, counters, sensors, request, latched, motion, nav
  <2>1. TypeOK /\ NomotionServiceAppears => TypeOK'
    BY DEF NomotionServiceAppears
  <2>2. TypeOK /\ UNCHANGED vars => TypeOK'
    BY DEF vars, amcl
  <2> QED
    BY <2>1, <2>2, TickTypes, ResultTypes, SensingTypes, CommandTypes DEF Next
<1> QED
  BY <1>1, <1>2, PTL DEF Spec
-----------------------------------------------------------------------------
(* The last command is a stop when a docking run that was started in the    *)
(* regular way has ended, however it ended.                                 *)
THEOREM Halting == Spec => []HaltedWhenDone
<1>1. Init => HaltedWhenDone
  BY DEF Init, HaltedWhenDone
<1>2. TypeOK /\ HaltedWhenDone /\ [Next]_vars => HaltedWhenDone'
  <2> SUFFICES ASSUME TypeOK, HaltedWhenDone, [Next]_vars,
                      m_iDocking_CommandMode' \in {0, 8, 9}, ~direct'
               PROVE  published' = Stop
    BY DEF HaltedWhenDone
  <2> USE DEF HaltedWhenDone, Publish, motion, request
  <2>1. CASE DockingThread_function
    <3>1. ~direct
      BY <2>1 DEF DockingThread_function
    <3>2. CASE ChargingStation_tracking
      BY <3>2 DEF ChargingStation_tracking, Track, Arrive, Search
    <3>3. CASE ChargingStation_Yaw_tracking
      BY <3>3 DEF ChargingStation_Yaw_tracking, Docking_EXIT
    <3>4. CASE ChargingStation_tracking2
      BY <3>4 DEF ChargingStation_tracking2, FinalApproach, ApproachEnds, Docking_EXIT
    <3>5. CASE ChargingStation_back_step
      BY <3>5 DEF ChargingStation_back_step
    <3>6. CASE PassThrough
      BY <3>1, <3>6 DEF PassThrough
    <3>7. CASE Depart_Station2Move
      BY <3>7 DEF Depart_Station2Move
    <3> QED
      BY <2>1, <3>2, <3>3, <3>4, <3>5, <3>6, <3>7 DEF DockingThread_function, DockingStep
  <2>2. CASE Commands
    <3>1. ASSUME NEW LT \in BOOLEAN, NEW RT \in BOOLEAN, joyCallback(LT, RT)
          PROVE  published' = Stop
      BY <3>1 DEF joyCallback
    <3>2. ASSUME NEW id, NEW mode, Docking_Command(id, mode) PROVE published' = Stop
      <4>1. m_iDocking_CommandMode' = mode /\ direct' = (mode # 1)
        BY <3>2 DEF Docking_Command
      <4>2. mode # 1
        BY <4>1
      <4> QED
        BY <4>1, <4>2, Zenon
    <3>3. CASE Docking_Stop_Command
      BY <3>3 DEF Docking_Stop_Command, Docking_EXIT
    <3>4. ASSUME NEW home, Goto_Location_Command(home) PROVE published' = Stop
      BY <3>4 DEF Goto_Location_Command, DepartMove
    <3>5. CASE Goto_Location2_Command
      BY <3>5 DEF Goto_Location2_Command, DepartMove
    <3>6. CASE Goto_Cancel_Command
      BY <3>6 DEF Goto_Cancel_Command
    <3> QED
      BY <2>2, <3>1, <3>2, <3>3, <3>4, <3>5, <3>6 DEF Commands
  <2>3. CASE resultCallback
    BY <2>3 DEF resultCallback, ResultSucceeded, ResultAborted, ResultCanceled,
                ResultUnknown
  <2>4. CASE Sensing \/ NomotionServiceAppears
    BY <2>4
    DEF Sensing, ApriltagCallback, NoMarker, DockingStatusCallback, Initialpose_Callback,
        AMCL_PaticleCloud_Callback, NomotionServiceAppears
  <2>5. CASE UNCHANGED vars
    BY <2>5 DEF vars
  <2> QED
    BY <2>1, <2>2, <2>3, <2>4, <2>5 DEF Next
<1> QED
  BY <1>1, <1>2, TypeCorrect, PTL DEF Spec

(* In a run that was started in the regular way the marker that modes 3, 31 *)
(* and 4 work with is the one that was asked for last.                      *)
THEOREM Approaching == Spec => []ApproachesRequestedMarker
<1>1. Init => ApproachesRequestedMarker
  BY DEF Init, ApproachesRequestedMarker
<1>2. TypeOK /\ ApproachesRequestedMarker /\ [Next]_vars => ApproachesRequestedMarker'
  <2> SUFFICES ASSUME TypeOK, ApproachesRequestedMarker, [Next]_vars,
                      m_iDocking_CommandMode' \in {3, 4, 31}, ~direct'
               PROVE  HOME_id' = m_iDocking_id'
    BY DEF ApproachesRequestedMarker
  <2> USE DEF ApproachesRequestedMarker, latched, request
  <2>1. CASE DockingThread_function
    <3>1. ~direct /\ m_iDocking_id' = m_iDocking_id
      BY <2>1 DEF DockingThread_function
    <3>2. CASE ChargingStation_tracking
      BY <3>1, <3>2 DEF ChargingStation_tracking, LatchMarker
    <3>3. CASE ChargingStation_Yaw_tracking
      BY <3>1, <3>3 DEF ChargingStation_Yaw_tracking
    <3>4. CASE ChargingStation_tracking2
      BY <3>1, <3>4 DEF ChargingStation_tracking2
    <3>5. CASE ChargingStation_back_step
      BY <3>1, <3>5 DEF ChargingStation_back_step
    <3>6. CASE PassThrough
      BY <3>6 DEF PassThrough
    <3>7. CASE Depart_Station2Move
      BY <3>7 DEF Depart_Station2Move
    <3> QED
      BY <2>1, <3>2, <3>3, <3>4, <3>5, <3>6, <3>7 DEF DockingThread_function, DockingStep
  <2>2. CASE Commands
    <3>1. ASSUME NEW LT \in BOOLEAN, NEW RT \in BOOLEAN, joyCallback(LT, RT)
          PROVE  HOME_id' = m_iDocking_id'
      BY <3>1 DEF joyCallback
    <3>2. ASSUME NEW id, NEW mode, Docking_Command(id, mode) PROVE HOME_id' = m_iDocking_id'
      <4>1. m_iDocking_CommandMode' = mode /\ direct' = (mode # 1)
        BY <3>2 DEF Docking_Command
      <4>2. mode # 1
        BY <4>1
      <4> QED
        BY <4>1, <4>2, Zenon
    <3>3. CASE Docking_Stop_Command
      BY <3>3 DEF Docking_Stop_Command, Docking_EXIT
    <3>4. ASSUME NEW home, Goto_Location_Command(home) PROVE HOME_id' = m_iDocking_id'
      BY <3>4 DEF Goto_Location_Command, DepartMove
    <3>5. CASE Goto_Location2_Command
      BY <3>5 DEF Goto_Location2_Command, DepartMove
    <3>6. CASE Goto_Cancel_Command
      BY <3>6 DEF Goto_Cancel_Command
    <3> QED
      BY <2>2, <3>1, <3>2, <3>3, <3>4, <3>5, <3>6 DEF Commands
  <2>3. CASE resultCallback
    BY <2>3 DEF resultCallback, ResultSucceeded, ResultAborted, ResultCanceled,
                ResultUnknown
  <2>4. CASE Sensing \/ NomotionServiceAppears
    BY <2>4
    DEF Sensing, ApriltagCallback, NoMarker, DockingStatusCallback, Initialpose_Callback,
        AMCL_PaticleCloud_Callback, NomotionServiceAppears
  <2>5. CASE UNCHANGED vars
    BY <2>5 DEF vars
  <2> QED
    BY <2>1, <2>2, <2>3, <2>4, <2>5 DEF Next
<1> QED
  BY <1>1, <1>2, TypeCorrect, PTL DEF Spec

(* Every outstanding goal, and the one a departure is about to send, is     *)
(* owed to a command: a retry replaces the goal that was aborted, and the   *)
(* departure leaves mode 10 with the tick that sends its goal.              *)
THEOREM Paying == Spec => []GoalsPaidFor
<1>1. Init => GoalsPaidFor
  BY DEF Init, GoalsPaidFor
<1>2. TypeOK /\ GoalsPaidFor /\ [Next]_vars => GoalsPaidFor'
  <2> SUFFICES ASSUME TypeOK, GoalsPaidFor, [Next]_vars PROVE GoalsPaidFor'
    OBVIOUS
  <2>0. outstanding \in Nat /\ gotos \in Nat
    BY Limits DEF TypeOK, NavTypeOK
  <2> USE <2>0 DEF GoalsPaidFor, nav, Set_goal
  <2>1. CASE DockingThread_function
    <3>1. CASE DockingStep
      <4>1. m_iDocking_CommandMode' # 10
        BY <3>1
        DEF DockingStep, ChargingStation_tracking, Track, Arrive, Search,
            ChargingStation_Yaw_tracking, Docking_EXIT, ChargingStation_tracking2,
            FinalApproach, ApproachEnds, ChargingStation_back_step, PassThrough
      <4> QED
        BY <3>1, <4>1 DEF DockingStep
    <3>2. CASE Depart_Station2Move
      BY <3>2 DEF Depart_Station2Move
    <3> QED
      BY <2>1, <3>1, <3>2 DEF DockingThread_function
  <2>2. CASE Commands
    <3> USE DEF GotoAccepted, DepartMove
    <3>1. ASSUME NEW LT, NEW RT, joyCallback(LT, RT) PROVE GoalsPaidFor'
      BY <3>1 DEF joyCallback
    <3>2. ASSUME NEW id, NEW mode, Docking_Command(id, mode) PROVE GoalsPaidFor'
      BY <3>2 DEF Docking_Command
    <3>3. CASE Docking_Stop_Command
      BY <3>3 DEF Docking_Stop_Command, Docking_EXIT
    <3>4. ASSUME NEW home, Goto_Location_Command(home) PROVE GoalsPaidFor'
      BY <3>4 DEF Goto_Location_Command
    <3>5. CASE Goto_Location2_Command
      BY <3>5 DEF Goto_Location2_Command
    <3>6. CASE Goto_Cancel_Command
      BY <3>6 DEF Goto_Cancel_Command
    <3> QED
      BY <2>2, <3>1, <3>2, <3>3, <3>4, <3>5, <3>6 DEF Commands
  <2>3. CASE resultCallback
    BY <2>3 DEF resultCallback, Retry, ResultSucceeded, ResultAborted, ResultCanceled,
                ResultUnknown
  <2>4. CASE Sensing \/ NomotionServiceAppears
    BY <2>4
    DEF Sensing, ApriltagCallback, NoMarker, DockingStatusCallback, Initialpose_Callback,
        AMCL_PaticleCloud_Callback, NomotionServiceAppears
  <2>5. CASE UNCHANGED vars
    BY <2>5 DEF vars
  <2> QED
    BY <2>1, <2>2, <2>3, <2>4, <2>5 DEF Next
<1> QED
  BY <1>1, <1>2, TypeCorrect, PTL DEF Spec
=============================================================================
