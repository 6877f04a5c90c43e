----------------------------- MODULE Locations -----------------------------
(***************************************************************************)
(* The tetra_service node: saved locations, and the goals that lead there  *)
(* (tetra_service.cpp).  One global, _pGoal_pose, is where every goal is   *)
(* taken from: the goto commands set it, and departures and retries send   *)
(* it again later.  TetraService has the conditions under which they do;   *)
(* here it is the places that count, the files that outlive a crash of the *)
(* node, and Nav2, which aborts a goal when it accepts the next one.       *)
(*                                                                         *)
(* The callbacks of the node exclude one another: each is one step.  A     *)
(* place is a position in the plane with an orientation.  The height of a  *)
(* pose, which Goto_Location2_Command leaves as it was, is left out: Nav2  *)
(* plans in the plane.                                                     *)
(***************************************************************************)
EXTENDS Integers, FiniteSets

CONSTANTS
  Names,       \* names of locations, other than HOME
  HOME,
  Places,
  Origin,      \* all coordinates 0: HOME, and what is assumed at the start
  RetryMax,    \* ex_iRetry_Max_count, 9999
  MaxGotos,    \* bound: goto commands in a behaviour
  MaxRestarts  \* bound: crashes of the node in a behaviour

ASSUME LocationAssumption ==
  /\ Origin \in Places
  /\ HOME \notin Names
  /\ {RetryMax, MaxGotos, MaxRestarts} \subseteq Nat

NoFile == "no file"
EmptyFile == "empty file"
Nowhere == "nowhere"

ASSUME PlaceAssumption == {NoFile, EmptyFile, Nowhere} \cap Places = {}

VARIABLES
  files,            \* /home/tetra/DATA/<name>.txt
  poseTF,           \* where the robot is, as looked up last
  pGoal_pose,       \* _pGoal_pose
  departing,        \* m_iDocking_CommandMode = 10
  ex_iRetry_count,
  ready,            \* Nav2's action server is there
  current,          \* the goal Nav2 works on, or Nowhere
  due,              \* results on their way: how many of each code
  wanted,           \* history: where the last goto leads, Nowhere if unknown
  unsent,           \* history: Nav2 has not accepted a goal since then
  gotos, restarts   \* history, for the bounds

node == <<poseTF, pGoal_pose, departing, ex_iRetry_count>>
nav2 == <<ready, current, due>>
history == <<wanted, unsent, gotos, restarts>>
vars == <<files, node, nav2, history>>

Codes == {"SUCCEEDED", "ABORTED", "CANCELED"}
NoResults == [code \in Codes |-> 0]
With(results, code) == [results EXCEPT ![code] = @ + 1]
Without(results, code) == [results EXCEPT ![code] = @ - 1]

Init ==
  /\ files = [name \in Names |-> NoFile]
  /\ poseTF = Origin /\ pGoal_pose = Origin
  /\ departing = FALSE
  /\ ex_iRetry_count = 0
  /\ ready \in BOOLEAN
  /\ current = Nowhere
  /\ due = NoResults
  /\ wanted = Nowhere /\ unsent = FALSE
  /\ gotos = 0 /\ restarts = 0

-----------------------------------------------------------------------------
(*                             Saved locations                             *)

(* The transform is looked up every 20 ms; while there is none, the last    *)
(* one stays.                                                               *)
TF_CALC_Timer(place) ==
  /\ poseTF' = place
  /\ UNCHANGED <<files, pGoal_pose, departing, ex_iRetry_count, nav2, history>>

(* fopen fails, and the file stays as it was, or it is written anew. *)
SaveLocation(name) == files' \in {files, [files EXCEPT ![name] = poseTF]}

(* The reply is FALSE in any case. *)
Set_Location_Command(name) ==
  /\ name # HOME
  /\ SaveLocation(name)
  /\ UNCHANGED <<node, nav2, history>>

(* The node stops and is started again.  A crash between fopen, which       *)
(* truncates the file, and fclose, which writes it, leaves it empty.  Nav2  *)
(* goes on with its goal, but the result is for the old process.            *)
Restart ==
  /\ restarts < MaxRestarts
  /\ restarts' = restarts + 1
  /\ files' \in {files} \cup {[files EXCEPT ![name] = EmptyFile] : name \in Names}
  /\ poseTF' = Origin /\ pGoal_pose' = Origin
  /\ departing' = FALSE
  /\ ex_iRetry_count' = 0
  /\ due' = NoResults
  /\ wanted' = Nowhere /\ unsent' = FALSE
  /\ UNCHANGED <<ready, current, gotos>>

-----------------------------------------------------------------------------
(*                                  Goals                                  *)

(* Nothing is sent when the action server is not there, and Nav2 may refuse *)
(* the goal.  When it accepts it, it aborts the one it had.  results: what  *)
(* is still due when the goal is sent.                                      *)
Set_goal(place, results, missed) ==
  \/ /\ ready
     /\ current' = place
     /\ due' = IF current = Nowhere THEN results ELSE With(results, "ABORTED")
     /\ unsent' = FALSE
  \/ /\ due' = results
     /\ unsent' = missed
     /\ UNCHANGED current

(* Where OpenLocationFile leads: a file that is missing or empty leaves the *)
(* goal as it was.  Its result is not looked at.                            *)
OpenLocationFile(name) ==
  IF name = HOME THEN Origin
  ELSE IF files[name] \in Places THEN files[name]
  ELSE pGoal_pose

Readable(name) == name = HOME \/ files[name] \in Places

(* The goal is sent at once, or by the departure that is started.           *)
SendOrDepart(place, leave) ==
  IF leave
  THEN departing' = TRUE /\ unsent' = TRUE /\ UNCHANGED <<current, due>>
  ELSE Set_goal(place, due, TRUE) /\ UNCHANGED departing

Accepted == gotos < MaxGotos /\ gotos' = gotos + 1

Goto_Location_Command(name, leave) ==
  /\ Accepted
  /\ pGoal_pose' = OpenLocationFile(name)
  /\ wanted' = IF Readable(name) THEN pGoal_pose' ELSE Nowhere
  /\ SendOrDepart(pGoal_pose', leave)
  /\ UNCHANGED <<files, poseTF, ex_iRetry_count, ready, restarts>>

(* Fault: the pose of the request is only sent. *)
Faulty_Goto_Location2_Command(place, leave) ==
  /\ Accepted
  /\ wanted' = place
  /\ SendOrDepart(place, leave)
  /\ UNCHANGED <<files, poseTF, pGoal_pose, ex_iRetry_count, ready, restarts>>

Goto_Location2_Command(place, leave) ==
  /\ Accepted
  /\ pGoal_pose' = place
  /\ wanted' = place
  /\ SendOrDepart(place, leave)
  /\ UNCHANGED <<files, poseTF, ex_iRetry_count, ready, restarts>>

(* docking_cmd with mode 10 departs for the last goal once more. *)
Docking_Command ==
  /\ Accepted
  /\ departing' = TRUE
  /\ UNCHANGED <<files, poseTF, pGoal_pose, ex_iRetry_count, nav2, wanted, unsent, restarts>>

(* Away from the station the goal is sent; any other docking command ends   *)
(* the departure without it.                                                *)
Depart_Station2Move ==
  /\ departing
  /\ departing' = FALSE
  /\ Set_goal(pGoal_pose, due, unsent)
  /\ UNCHANGED <<files, poseTF, pGoal_pose, ex_iRetry_count, ready, wanted, gotos, restarts>>

Docking_Stop_Command ==
  /\ departing
  /\ departing' = FALSE
  /\ UNCHANGED <<files, poseTF, pGoal_pose, ex_iRetry_count, nav2, history>>

(* Nav2 cancels the goal it has, or has completed it before.                *)
Goto_Cancel_Command ==
  /\ ready /\ current # Nowhere
  /\ current' = Nowhere
  /\ due' = With(due, "CANCELED")
  /\ UNCHANGED <<files, node, ready, history>>

(* Fault: every goal that is sent again starts the count anew. *)
Faulty_Retry ==
  /\ Set_goal(pGoal_pose, Without(due, "ABORTED"), unsent)
  /\ ex_iRetry_count' = 0

(* Fault: one goal too many. *)
Faulty_Retry_more ==
  /\ ex_iRetry_count <= RetryMax
  /\ Set_goal(pGoal_pose, Without(due, "ABORTED"), unsent)
  /\ ex_iRetry_count' = ex_iRetry_count + 1

(* The goal that is sent again is the last one, whichever was aborted.      *)
Retry ==
  IF ex_iRetry_count < RetryMax
  THEN /\ Set_goal(pGoal_pose, Without(due, "ABORTED"), unsent)
       /\ ex_iRetry_count' = ex_iRetry_count + 1
  ELSE /\ due' = Without(due, "ABORTED")
       /\ ex_iRetry_count' = 0
       /\ UNCHANGED <<current, unsent>>

resultCallback(code) ==
  /\ due[code] > 0
  /\ IF code = "ABORTED" THEN Retry
     ELSE due' = Without(due, code) /\ ex_iRetry_count' = 0 /\ UNCHANGED <<current, unsent>>
  /\ UNCHANGED <<files, poseTF, pGoal_pose, departing, ready, wanted, gotos, restarts>>

(* External: Nav2 is done with its goal. *)
Nav2Ends ==
  /\ current # Nowhere
  /\ current' = Nowhere
  /\ \E code \in {"SUCCEEDED", "ABORTED"} : due' = With(due, code)
  /\ UNCHANGED <<files, node, ready, history>>

(* External: Nav2 appears, or disappears with the goal it has. *)
Nav2Restarts ==
  /\ ready' = ~ready
  /\ current' = Nowhere
  /\ UNCHANGED <<files, node, due, history>>

Next ==
  \/ \E place \in Places : TF_CALC_Timer(place)
  \/ \E name \in Names \cup {HOME} : Set_Location_Command(name)
  \/ Restart
  \/ \E leave \in BOOLEAN :
       \/ \E name \in Names \cup {HOME} : Goto_Location_Command(name, leave)
       \/ \E place \in Places : Goto_Location2_Command(place, leave)
  \/ Docking_Command \/ Depart_Station2Move \/ Docking_Stop_Command
  \/ Goto_Cancel_Command
  \/ \E code \in Codes : resultCallback(code)
  \/ Nav2Ends \/ Nav2Restarts

(* The node handles results that have come, and Nav2 is done with a goal    *)
(* some time.                                                               *)
Fairness ==
  /\ \A code \in Codes : WF_vars(resultCallback(code))
  /\ WF_vars(Nav2Ends)

Spec == Init /\ [][Next]_vars /\ Fairness

-----------------------------------------------------------------------------
(* Types of the node's and of Nav2's state. *)
TypeOK ==
  /\ files \in [Names -> Places \cup {NoFile, EmptyFile}]
  /\ poseTF \in Places /\ pGoal_pose \in Places
  /\ departing \in BOOLEAN /\ ready \in BOOLEAN /\ unsent \in BOOLEAN
  /\ ex_iRetry_count \in 0..RetryMax
  /\ current \in Places \cup {Nowhere} /\ wanted \in Places \cup {Nowhere}
  /\ due \in [Codes -> Nat]
  /\ gotos \in 0..MaxGotos /\ restarts \in 0..MaxRestarts

(* Whatever Nav2 works on since it has accepted a goal after the last goto  *)
(* is the place which that goto named: departures, which send the goal      *)
(* later, and retries, which answer the abort of another goal, do not lead  *)
(* back to an earlier place, and neither does a location saved anew.        *)
GoesWhereAsked ==
  current # Nowhere /\ ~unsent /\ wanted # Nowhere => current = wanted

(* Navigation comes to rest although Nav2 aborts the goal it has whenever   *)
(* it gets another, and the node answers every abort by sending the last    *)
(* goal again: two gotos in a row set off a chain of goals that abort each  *)
(* other, which only the count of retries ends.                             *)
ChainsEnd == <>[](current = Nowhere /\ due = NoResults)
=============================================================================
