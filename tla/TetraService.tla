---------------------------- MODULE TetraService ----------------------------
(***************************************************************************)
(* The tetra_service node (tetra_service/src/tetra_service.cpp): docking   *)
(* at the charging station and navigation goals.  The node's executor is   *)
(* multi-threaded, but every callback belongs to the node's one mutually   *)
(* exclusive callback group, so a callback runs to its end before the next *)
(* one starts and is one step here.  A 10 ms timer drives the docking      *)
(* loop, a state machine on m_iDocking_CommandMode; services, the joystick *)
(* and the result of a navigation goal set that mode from outside.         *)
(*                                                                         *)
(* Left out because the program never sets them: the obstacle flags        *)
(* (m_bFlag_Obstacle_cygbot, _Right, _Left stay FALSE, so the branches     *)
(* that wait for them are dead) and _pRobot.m_bFalg_DockingExit, the exit  *)
(* flag that mode 2 reads.  m_iRotation_Mode only chooses the sign of a    *)
(* turn, and goal poses are data that no property tells apart.             *)
(***************************************************************************)
EXTENDS Integers

CONSTANTS
  TagIds,       \* ids of AprilTags in the building
  Poses,        \* where a tag can be seen: see PoseAssumption
  Charging,     \* values of docking_status (more than 1: on the charger)
  PoseSources,  \* publishers on the topic initialpose
  RequestModes, \* modes a client of docking_cmd asks for
  NoMarkerMax,  \* 8000 in the code: ticks without the marker while searching
  NoMarker2Max, \* 10: ticks without the marker in the final approach
  RotationMax,  \* 100: ticks of the yaw manoeuvre
  BackMax,      \* 200: ticks of the back step
  RetryMax,     \* ex_iRetry_Max_count, 9999
  MaxGotos      \* bound: goal-producing commands in a behaviour

(* x, d: distance ahead and straight-line distance of the tag, in cm;       *)
(* bearing: "wide" when |atan2(y, x)| / 1.25 > 1; pitch: 0.1 degrees.       *)
ASSUME PoseAssumption ==
  Poses \subseteq [x : Nat, d : Nat, bearing : {"ahead", "off", "wide"}, pitch : Int]
ASSUME ServiceAssumption ==
  /\ TagIds \subseteq Nat
  /\ 0 \in TagIds
  /\ Charging \subseteq Int
  /\ 0 \in Charging
  /\ RequestModes \subseteq Int
  /\ {NoMarkerMax, NoMarker2Max, RotationMax, BackMax, RetryMax, MaxGotos} \subseteq Nat
  /\ NoMarker2Max <= NoMarkerMax

VARIABLES
  m_iDocking_CommandMode,
  m_iDocking_id,               \* marker asked for
  HOME_id,                     \* marker latched by mode 2
  m_bfalg_DockingExit,         \* set by the joystick's RT button
  m_iNoMarker_cnt,             \* shared by modes 2 and 4
  m_iRotation_cnt,
  m_iBack_cnt,
  tag,                         \* the fields of _pAR_tag_pose the loop reads
  m_target_yaw,                \* pitch latched by mode 2 for mode 3
  m_iCallback_Charging_status,
  m_bFlag_Initialpose,
  m_bFlag_nomotion,
  blocked,                     \* a callback waits for the nomotion service
  cmd,                         \* the member Twist that every handler edits
  published,                   \* last message on cmd_vel_manual
  m_bflag_ComebackHome,
  ex_iRetry_count,
  outstanding,                 \* goals sent to Nav2 whose result has not come
  gotos,                       \* history: commands that may lead to a goal
  direct,                      \* history: mode set from outside to other than a start
  cancelled                    \* history: a cancel was accepted after the last goto

counters == <<m_iNoMarker_cnt, m_iRotation_cnt, m_iBack_cnt>>
sensors  == <<tag, m_iCallback_Charging_status>>
amcl     == <<m_bFlag_Initialpose, m_bFlag_nomotion, blocked>>
motion   == <<cmd, published>>
nav      == <<m_bflag_ComebackHome, ex_iRetry_count, outstanding, gotos, cancelled>>
request  == <<m_iDocking_id, m_bfalg_DockingExit, direct>>
latched  == <<HOME_id, m_target_yaw>>
vars == <<m_iDocking_CommandMode, counters, sensors, amcl, motion, nav, request, latched>>

(* A Twist: the sign of its linear part and whether it turns. *)
Twists == [linear : {-1, 0, 1}, turning : BOOLEAN]
Stop   == [linear |-> 0, turning |-> FALSE]

NoTag == -1
Sign(n) == IF n > 0 THEN 1 ELSE 0

Init ==
  /\ m_iDocking_CommandMode = 0
  /\ m_iDocking_id = 0 /\ HOME_id = 0
  /\ m_bfalg_DockingExit = FALSE
  /\ m_iNoMarker_cnt = 0 /\ m_iRotation_cnt = 0 /\ m_iBack_cnt = 0
  /\ tag = [id |-> NoTag, x |-> 0, d |-> 0, bearing |-> "ahead", pitch |-> 0]
  /\ m_target_yaw = 0
  /\ m_iCallback_Charging_status = 0
  /\ m_bFlag_Initialpose = FALSE /\ m_bFlag_nomotion = TRUE
  /\ blocked = FALSE
  /\ cmd = Stop /\ published = Stop
  /\ m_bflag_ComebackHome = FALSE
  /\ ex_iRetry_count = 0
  /\ outstanding = 0
  /\ gotos = 0 /\ direct = FALSE /\ cancelled = FALSE

(* cmd = twist; cmd_vel_publisher->publish(cmd). *)
Publish(twist) == cmd' = twist /\ published' = twist

-----------------------------------------------------------------------------
(*                              Sensor callbacks                           *)

(* A detection array whose last detection is tag id.  The id is stored      *)
(* first; without the camera transform nothing else is, without the         *)
(* base_link transform the pitch is new but the position stays old.         *)
ApriltagCallback(id, pose) ==
  /\ ~blocked
  /\ tag' \in {[tag EXCEPT !.id = id],
               [tag EXCEPT !.id = id, !.pitch = pose.pitch],
               [id |-> id, x |-> pose.x, d |-> pose.d,
                bearing |-> pose.bearing, pitch |-> pose.pitch]}
  /\ UNCHANGED <<m_iDocking_CommandMode, counters, m_iCallback_Charging_status,
                 amcl, motion, nav, request, latched>>

(* An empty array: distance and bearing keep their last value. *)
NoMarker ==
  /\ ~blocked
  /\ tag' = [id |-> NoTag, x |-> 0, d |-> tag.d, bearing |-> tag.bearing, pitch |-> 0]
  /\ UNCHANGED <<m_iDocking_CommandMode, counters, m_iCallback_Charging_status,
                 amcl, motion, nav, request, latched>>

DockingStatusCallback(status) ==
  /\ ~blocked
  /\ m_iCallback_Charging_status' = status
  /\ UNCHANGED <<m_iDocking_CommandMode, counters, tag, amcl, motion, nav, request, latched>>

Initialpose_Callback ==
  /\ ~blocked
  /\ m_bFlag_Initialpose' = TRUE
  /\ m_bFlag_nomotion' = TRUE
  /\ UNCHANGED <<m_iDocking_CommandMode, counters, sensors, blocked, motion, nav,
                 request, latched>>

(* spread: more than 501 particles while the robot stands still.  Then the  *)
(* callback waits, and with it the whole callback group, until the nomotion *)
(* service is available.                                                    *)
AMCL_PaticleCloud_Callback(spread, available) ==
  /\ ~blocked
  /\ IF spread /\ m_bFlag_Initialpose
     THEN /\ blocked' = (m_bFlag_nomotion /\ ~available)
          /\ UNCHANGED <<m_bFlag_Initialpose, m_bFlag_nomotion>>
     ELSE /\ m_bFlag_Initialpose' = FALSE
          /\ m_bFlag_nomotion' = FALSE
          /\ UNCHANGED blocked
  /\ UNCHANGED <<m_iDocking_CommandMode, counters, sensors, motion, nav, request, latched>>

NomotionServiceAppears ==
  /\ blocked
  /\ blocked' = FALSE
  /\ UNCHANGED <<m_iDocking_CommandMode, counters, sensors, m_bFlag_Initialpose,
                 m_bFlag_nomotion, motion, nav, request, latched>>

-----------------------------------------------------------------------------
(*                              Navigation goals                           *)

(* async_send_goal, unless the action server is not ready. *)
Set_goal == outstanding' \in {outstanding, outstanding + 1}

(* Bookkeeping of the bound and of the history of a goto command. *)
GotoAccepted ==
  /\ gotos < MaxGotos
  /\ gotos' = gotos + 1
  /\ cancelled' = FALSE

DepartMove ==
  /\ m_iDocking_CommandMode' = 10
  /\ direct' = FALSE

Goto_Location_Command(home) ==
  /\ ~blocked
  /\ GotoAccepted
  /\ IF m_iCallback_Charging_status <= 1 /\ (tag.id = NoTag \/ tag.x <= 50)
     THEN Set_goal /\ UNCHANGED <<m_iDocking_CommandMode, direct>>
     ELSE DepartMove /\ UNCHANGED outstanding
  /\ m_bflag_ComebackHome' = (m_bflag_ComebackHome \/ home)
  /\ UNCHANGED <<counters, sensors, amcl, motion, ex_iRetry_count, m_iDocking_id,
                 m_bfalg_DockingExit, latched>>

(* On the charger the handler itself backs out for 3 s, blocking the node,  *)
(* and stops before it sends the goal.                                      *)
Goto_Location2_Command ==
  /\ ~blocked
  /\ GotoAccepted
  /\ \/ /\ m_iCallback_Charging_status > 1
        /\ Publish(Stop)
        /\ Set_goal
        /\ UNCHANGED <<m_iDocking_CommandMode, direct>>
     \/ /\ m_iCallback_Charging_status <= 1 /\ (tag.id = NoTag \/ tag.x >= 85)
        /\ Set_goal
        /\ UNCHANGED <<m_iDocking_CommandMode, direct, motion>>
     \/ /\ m_iCallback_Charging_status <= 1 /\ tag.id # NoTag /\ tag.x < 85
        /\ DepartMove
        /\ UNCHANGED <<outstanding, motion>>
  /\ UNCHANGED <<counters, sensors, amcl, m_bflag_ComebackHome, ex_iRetry_count,
                 m_iDocking_id, m_bfalg_DockingExit, latched>>

(* async_cancel_all_goals; what Nav2 makes of it is a later result. *)
Goto_Cancel_Command ==
  /\ ~blocked
  /\ cancelled' = (gotos > 0)
  /\ UNCHANGED <<m_iDocking_CommandMode, counters, sensors, amcl, motion,
                 m_bflag_ComebackHome, ex_iRetry_count, outstanding, gotos, request, latched>>

(* Fault: the retry counter starts over instead of giving up. *)
Faulty_Retry ==
  /\ outstanding' \in {outstanding - 1, outstanding}
  /\ ex_iRetry_count' = (ex_iRetry_count + 1) % RetryMax

(* An aborted goal is sent again (Set_goal) until the retries are used up.  *)
Retry ==
  IF ex_iRetry_count < RetryMax
  THEN /\ outstanding' \in {outstanding - 1, outstanding}
       /\ ex_iRetry_count' = ex_iRetry_count + 1
  ELSE /\ outstanding' = outstanding - 1
       /\ ex_iRetry_count' = 0

ResultSucceeded ==
  /\ outstanding' = outstanding - 1
  /\ ex_iRetry_count' = 0
  /\ m_bflag_ComebackHome' = FALSE
  /\ IF m_bflag_ComebackHome
     THEN m_iDocking_CommandMode' = 1 /\ direct' = FALSE
     ELSE UNCHANGED <<m_iDocking_CommandMode, direct>>

ResultAborted ==
  /\ Retry
  /\ UNCHANGED <<m_bflag_ComebackHome, m_iDocking_CommandMode, direct>>

ResultCanceled ==
  /\ outstanding' = outstanding - 1
  /\ ex_iRetry_count' = 0
  /\ UNCHANGED <<m_bflag_ComebackHome, m_iDocking_CommandMode, direct>>

(* An unknown result code; a rejected goal has the same effect on the state *)
(* (its result callback is never called).                                   *)
ResultUnknown ==
  /\ outstanding' = outstanding - 1
  /\ UNCHANGED <<ex_iRetry_count, m_bflag_ComebackHome, m_iDocking_CommandMode, direct>>

resultCallback ==
  /\ ~blocked
  /\ outstanding > 0
  /\ ResultSucceeded \/ ResultAborted \/ ResultCanceled \/ ResultUnknown
  /\ UNCHANGED <<counters, sensors, amcl, motion, gotos, cancelled, m_iDocking_id,
                 m_bfalg_DockingExit, latched>>

-----------------------------------------------------------------------------
(*                            The docking loop                             *)

(* Mode 2: drive towards the marker, or turn on the spot to find it.  Over  *)
(* the speed limits cmd is cleared but not published.                       *)
TooFast(limit) == tag.d > limit \/ tag.bearing = "wide"

Track ==
  /\ tag.id = m_iDocking_id
  /\ tag.d > 65
  /\ IF TooFast(800)
     THEN cmd' = Stop /\ UNCHANGED published
     ELSE Publish([linear |-> 1, turning |-> tag.bearing # "ahead"])
  /\ UNCHANGED <<m_iDocking_CommandMode, counters, m_target_yaw>>

(* At 65 cm the turn goes on, and the tag's pitch decides how to go on. *)
Arrive ==
  /\ tag.id = m_iDocking_id
  /\ tag.d <= 65
  /\ Publish([linear |-> 0, turning |-> cmd.turning])
  /\ m_target_yaw' = tag.pitch
  /\ m_iDocking_CommandMode' = IF tag.pitch \in -10..10 THEN 4 ELSE 3
  /\ m_iNoMarker_cnt' = 0
  /\ UNCHANGED <<m_iRotation_cnt, m_iBack_cnt>>

(* Fault: the ticks without a marker are not counted. *)
Faulty_Search ==
  /\ tag.id # m_iDocking_id
  /\ Publish([linear |-> cmd.linear, turning |-> TRUE])
  /\ UNCHANGED <<m_iDocking_CommandMode, counters, m_target_yaw>>

(* cmd.angular.z is set and cmd.linear.x keeps what it was. *)
Search ==
  /\ tag.id # m_iDocking_id
  /\ IF m_iNoMarker_cnt > NoMarkerMax
     THEN /\ Publish(Stop)
          /\ m_iNoMarker_cnt' = 0
          /\ m_iDocking_CommandMode' = 9
     ELSE /\ Publish([linear |-> cmd.linear, turning |-> TRUE])
          /\ m_iNoMarker_cnt' = m_iNoMarker_cnt + 1
          /\ UNCHANGED m_iDocking_CommandMode
  /\ UNCHANGED <<m_iRotation_cnt, m_iBack_cnt, m_target_yaw>>

(* Fault: the marker is latched only by the first tick of the search. *)
Faulty_LatchMarker == HOME_id' = IF m_iNoMarker_cnt = 0 THEN m_iDocking_id ELSE HOME_id

LatchMarker == HOME_id' = m_iDocking_id

ChargingStation_tracking ==
  /\ m_iDocking_CommandMode = 2
  /\ LatchMarker
  /\ Track \/ Arrive \/ Search

Docking_EXIT == Publish(Stop) /\ m_iDocking_CommandMode' = 0

(* Mode 3: reverse while turning by the latched yaw, then take a back step. *)
ChargingStation_Yaw_tracking ==
  /\ m_iDocking_CommandMode = 3
  /\ LET aligned == m_target_yaw \in -6..6
         turn    == ~aligned /\ m_iRotation_cnt <= RotationMax
         give_up == ~aligned /\ m_iRotation_cnt > RotationMax
     IN  /\ m_iRotation_cnt' = IF turn THEN m_iRotation_cnt + 1
                               ELSE IF give_up THEN 0 ELSE m_iRotation_cnt
         /\ IF m_bfalg_DockingExit
            THEN Docking_EXIT
            ELSE /\ m_iDocking_CommandMode' = IF aligned THEN 4 ELSE IF give_up THEN 31 ELSE 3
                 /\ IF turn THEN Publish([linear |-> -Sign(tag.d), turning |-> TRUE])
                    ELSE UNCHANGED motion
  /\ UNCHANGED <<m_iNoMarker_cnt, m_iBack_cnt, latched>>

(* Fault: the final approach ends without the stop. *)
Faulty_ApproachEnds == m_iDocking_CommandMode' = 8 /\ m_iNoMarker_cnt' = 0 /\ UNCHANGED motion

(* Mode 4 ends the same way on the charger and after a timeout. *)
ApproachEnds == m_iDocking_CommandMode' = 8 /\ m_iNoMarker_cnt' = 0 /\ Publish(Stop)

(* Mode 4: drive to the charger, and wait a few ticks for a lost marker. *)
FinalApproach ==
  \/ /\ tag.id = HOME_id /\ m_iCallback_Charging_status < 2
     /\ IF TooFast(1200)
        THEN cmd' = Stop /\ UNCHANGED published
        ELSE Publish([linear |-> Sign(tag.d), turning |-> tag.bearing # "ahead"])
     /\ UNCHANGED <<m_iDocking_CommandMode, m_iNoMarker_cnt>>
  \/ /\ tag.id = HOME_id /\ m_iCallback_Charging_status >= 2
     /\ ApproachEnds
  \/ /\ tag.id # HOME_id /\ m_iNoMarker_cnt >= NoMarker2Max
     /\ ApproachEnds
  \/ /\ tag.id # HOME_id /\ m_iNoMarker_cnt < NoMarker2Max
     /\ Publish(Stop)
     /\ m_iNoMarker_cnt' = m_iNoMarker_cnt + 1
     /\ UNCHANGED m_iDocking_CommandMode

(* The exit flag is looked at after the tracking step: what that step did   *)
(* to the counter stays, its mode and its command are overruled.            *)
ChargingStation_tracking2 ==
  /\ m_iDocking_CommandMode = 4
  /\ IF m_bfalg_DockingExit
     THEN /\ Docking_EXIT
          /\ m_iNoMarker_cnt' = IF tag.id = HOME_id
                                THEN IF m_iCallback_Charging_status < 2
                                     THEN m_iNoMarker_cnt ELSE 0
                                ELSE IF m_iNoMarker_cnt >= NoMarker2Max
                                     THEN 0 ELSE m_iNoMarker_cnt + 1
     ELSE FinalApproach
  /\ UNCHANGED <<m_iRotation_cnt, m_iBack_cnt, latched>>

(* Fault: the counter of the back step is not reset. *)
Faulty_ChargingStation_back_step ==
  /\ m_iDocking_CommandMode = 31
  /\ Publish([linear |-> -Sign(tag.d), turning |-> FALSE])
  /\ m_iBack_cnt' = m_iBack_cnt + 1
  /\ m_iDocking_CommandMode' = IF m_iBack_cnt < BackMax THEN 31 ELSE 2
  /\ UNCHANGED <<m_iNoMarker_cnt, m_iRotation_cnt, latched>>

(* Mode 31: drive back straight, then search again. *)
ChargingStation_back_step ==
  /\ m_iDocking_CommandMode = 31
  /\ IF m_iBack_cnt < BackMax
     THEN /\ Publish([linear |-> -Sign(tag.d), turning |-> FALSE])
          /\ m_iBack_cnt' = m_iBack_cnt + 1
          /\ UNCHANGED m_iDocking_CommandMode
     ELSE /\ Publish(Stop)
          /\ m_iBack_cnt' = 0
          /\ m_iDocking_CommandMode' = 2
  /\ UNCHANGED <<m_iNoMarker_cnt, m_iRotation_cnt, latched>>

(* Modes 1, 8 and 9 only move on. *)
PassThrough ==
  /\ m_iDocking_CommandMode \in {1, 8, 9}
  /\ m_iDocking_CommandMode' = IF m_iDocking_CommandMode = 1 THEN 2 ELSE 0
  /\ UNCHANGED <<counters, motion, latched>>

DockingStep ==
  /\ \/ ChargingStation_tracking \/ ChargingStation_Yaw_tracking
     \/ ChargingStation_tracking2 \/ ChargingStation_back_step \/ PassThrough
  /\ UNCHANGED nav

(* Fault: the robot's goal is sent once more each time it looks. *)
Faulty_Depart_Station2Move ==
  /\ m_iDocking_CommandMode = 10
  /\ Publish(Stop) /\ Set_goal
  /\ UNCHANGED <<m_iDocking_CommandMode, counters, latched, m_bflag_ComebackHome,
                 ex_iRetry_count, gotos, cancelled>>

(* Mode 10: back away from the station, then send the goal. *)
Depart_Station2Move ==
  /\ m_iDocking_CommandMode = 10
  /\ IF tag.x <= 85 /\ tag.id # NoTag
     THEN /\ Publish(IF m_bFlag_Initialpose THEN Stop
                     ELSE [linear |-> -1, turning |-> FALSE])
          /\ UNCHANGED <<outstanding, m_iDocking_CommandMode>>
     ELSE /\ Publish(Stop)
          /\ Set_goal
          /\ m_iDocking_CommandMode' = 0
  /\ UNCHANGED <<counters, latched, m_bflag_ComebackHome, ex_iRetry_count, gotos, cancelled>>

(* The 10 ms timer; it does nothing in mode 0 and in every other mode.      *)
DockingThread_function ==
  /\ ~blocked
  /\ DockingStep \/ Depart_Station2Move
  /\ UNCHANGED <<sensors, amcl, request>>

-----------------------------------------------------------------------------
(*                     Docking commands from outside                       *)

(* LT starts docking, RT stops it, in that order when both are pressed.     *)
joyCallback(LT, RT) ==
  /\ ~blocked
  /\ LT \/ RT
  /\ m_iDocking_id' = IF LT THEN 0 ELSE m_iDocking_id
  /\ m_iDocking_CommandMode' = IF RT THEN 0 ELSE 1
  /\ m_bfalg_DockingExit' = RT
  /\ direct' = RT
  /\ UNCHANGED <<counters, sensors, amcl, motion, nav, latched>>

(* docking_cmd takes over id and mode as they are. *)
Docking_Command(id, mode) ==
  /\ ~blocked
  /\ m_iDocking_id' = id
  /\ m_iDocking_CommandMode' = mode
  /\ direct' = (mode # 1)
  /\ IF mode = 10 THEN gotos < MaxGotos /\ gotos' = gotos + 1 ELSE UNCHANGED gotos
  /\ UNCHANGED <<counters, sensors, amcl, motion, m_bflag_ComebackHome, ex_iRetry_count,
                 outstanding, cancelled, m_bfalg_DockingExit, latched>>

Docking_Stop_Command ==
  /\ ~blocked
  /\ Docking_EXIT
  /\ direct' = FALSE
  /\ UNCHANGED <<counters, sensors, amcl, nav, m_iDocking_id, m_bfalg_DockingExit, latched>>

-----------------------------------------------------------------------------
Sensing ==
  \/ \E id \in TagIds, pose \in Poses : ApriltagCallback(id, pose)
  \/ NoMarker
  \/ \E status \in Charging : DockingStatusCallback(status)
  \/ \E src \in PoseSources : Initialpose_Callback
  \/ \E spread, available \in BOOLEAN : AMCL_PaticleCloud_Callback(spread, available)

Commands ==
  \/ \E LT, RT \in BOOLEAN : joyCallback(LT, RT)
  \/ \E id \in TagIds, mode \in RequestModes : Docking_Command(id, mode)
  \/ Docking_Stop_Command
  \/ \E home \in BOOLEAN : Goto_Location_Command(home)
  \/ Goto_Location2_Command
  \/ Goto_Cancel_Command

Next ==
  \/ Sensing
  \/ Commands
  \/ DockingThread_function
  \/ resultCallback
  \/ NomotionServiceAppears

(* The timer fires again whenever no callback blocks the group; Nav2 gives  *)
(* each goal a result; AMCL, which asks for the nomotion update by its      *)
(* particle cloud, offers that service.  Nothing makes sensors or clients   *)
(* act.                                                                     *)
Fairness ==
  /\ SF_vars(DockingThread_function)
  /\ SF_vars(resultCallback)
  /\ WF_vars(NomotionServiceAppears)

Spec == Init /\ [][Next]_vars /\ Fairness

-----------------------------------------------------------------------------
LoopModes == {0, 1, 2, 3, 4, 8, 9, 10, 31}

Tags == [id : TagIds \cup {NoTag}, x : Nat, d : Nat,
         bearing : {"ahead", "off", "wide"}, pitch : Int]

LoopTypeOK ==
  /\ m_iDocking_CommandMode \in LoopModes \cup RequestModes
  /\ m_iDocking_id \in TagIds /\ HOME_id \in TagIds
  /\ m_target_yaw \in Int
  /\ m_bfalg_DockingExit \in BOOLEAN /\ direct \in BOOLEAN

CountersBounded ==
  /\ m_iNoMarker_cnt \in 0..(NoMarkerMax + 1)
  /\ m_iRotation_cnt \in 0..(RotationMax + 1)
  /\ m_iBack_cnt \in 0..BackMax

SensorTypeOK ==
  /\ tag \in Tags
  /\ m_iCallback_Charging_status \in Charging

AmclTypeOK ==
  m_bFlag_Initialpose \in BOOLEAN /\ m_bFlag_nomotion \in BOOLEAN /\ blocked \in BOOLEAN

MotionTypeOK == cmd \in Twists /\ published \in Twists

NavTypeOK ==
  /\ m_bflag_ComebackHome \in BOOLEAN /\ cancelled \in BOOLEAN
  /\ ex_iRetry_count \in 0..RetryMax
  /\ outstanding \in Nat
  /\ gotos \in 0..MaxGotos

(* Types; with the bounds of the counters, which handlers that do not know  *)
(* of each other share and which no command resets.                         *)
TypeOK ==
  /\ LoopTypeOK
  /\ CountersBounded
  /\ SensorTypeOK
  /\ AmclTypeOK
  /\ MotionTypeOK
  /\ NavTypeOK

(* However a docking run that was started in the regular way ends (docked,  *)
(* marker lost, search given up, exit flag, docking_stop_cmd, departure for *)
(* a goal), the last command on cmd_vel_manual is a stop: tetra keeps       *)
(* driving by the last command it got.                                      *)
HaltedWhenDone ==
  m_iDocking_CommandMode \in {0, 8, 9} /\ ~direct => published = Stop

(* A run started in the regular way aligns with and approaches the marker   *)
(* that was asked for last, although mode 3, 31 and 4 work with HOME_id,    *)
(* which only mode 2 copies from m_iDocking_id, and commands change         *)
(* m_iDocking_id at any time.                                               *)
ApproachesRequestedMarker ==
  m_iDocking_CommandMode \in {3, 4, 31} /\ ~direct => HOME_id = m_iDocking_id

(* Retries and departures never multiply goals: every goal Nav2 still works *)
(* on, and the one a departure is about to send, is owed to a command.      *)
GoalsPaidFor ==
  outstanding + (IF m_iDocking_CommandMode = 10 THEN 1 ELSE 0) <= gotos

(* Navigation comes to rest: with finitely many goto commands, aborted      *)
(* goals are retried only so often and every goal is done with in the end.  *)
NavigationSettles == <>[](outstanding = 0)

(* No phase of the docking loop lasts for ever by itself: the search and    *)
(* the final approach only while their marker is in sight, the manoeuvres   *)
(* and the intermediate modes not at all.                                   *)
DockingPhasesEnd ==
  /\ []<>(m_iDocking_CommandMode \notin {1, 3, 8, 9, 31})
  /\ []<>(m_iDocking_CommandMode # 2 \/ tag.id = m_iDocking_id)
  /\ []<>(m_iDocking_CommandMode # 4
           \/ (tag.id = HOME_id /\ m_iCallback_Charging_status < 2))

(* goto_cancel_cmd is the "Goto Cancel command": once it is accepted, no    *)
(* further goal is sent until the next goto.  A departure (mode 10) that is *)
(* under way sends its goal all the same.                                   *)
CancelEndsNavigation ==
  [][cancelled /\ cancelled' => outstanding' <= outstanding]_vars
=============================================================================
