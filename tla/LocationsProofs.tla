-------------------------- MODULE LocationsProofs ---------------------------
(* TLAPS proofs about Locations, for any names, places and bounds.          *)
EXTENDS Locations, TLAPS

(* The limits are natural numbers. *)
LEMMA Bounds == RetryMax \in Nat /\ MaxGotos \in Nat /\ MaxRestarts \in Nat
BY LocationAssumption

-----------------------------------------------------------------------------
(* The results on their way are counted in natural numbers. *)
Counts == [Codes -> Nat]

(* Adding a result, and taking one that is there, gives such counts again.  *)
LEMMA CountFacts ==
  /\ NoResults \in Counts
  /\ \A results \in Counts, code \in Codes : With(results, code) \in Counts
  /\ \A results \in Counts, code \in Codes :
       results[code] > 0 => Without(results, code) \in Counts
BY DEF Counts, NoResults, With, Without

(* The codes that the handlers name. *)
LEMMA CodeNames == {"SUCCEEDED", "ABORTED", "CANCELED"} \subseteq Codes
BY DEF Codes

(* What sending a goal does to Nav2: it leaves the goal it had, or gets the *)
(* one that is sent.                                                        *)
LEMMA SetGoalFacts ==
  ASSUME NEW place \in Places, NEW results \in Counts, NEW missed \in BOOLEAN, TypeOK,
         Set_goal(place, results, missed)
  PROVE  /\ current' \in Places \cup {Nowhere}
         /\ due' \in Counts
         /\ unsent' \in BOOLEAN
         /\ \/ current' = place
            \/ current' = current /\ unsent' = missed
BY CountFacts, CodeNames DEF Set_goal, TypeOK

(* A goto command or a departure leads to a place. *)
LEMMA OpenedPlaces ==
  ASSUME TypeOK, NEW name \in Names \cup {HOME}
  PROVE  OpenLocationFile(name) \in Places
BY LocationAssumption DEF OpenLocationFile, TypeOK

-----------------------------------------------------------------------------
(* A goto that leads to a place has it as its goal, sends it or departs.    *)
LEMMA GotoFacts ==
  ASSUME TypeOK, NEW place \in Places, NEW leave \in BOOLEAN, SendOrDepart(place, leave)
  PROVE  /\ departing' \in BOOLEAN /\ unsent' \in BOOLEAN
         /\ current' \in Places \cup {Nowhere} /\ due' \in Counts
         /\ current' = place \/ unsent'
<1>1. due \in Counts /\ current \in Places \cup {Nowhere} /\ departing \in BOOLEAN
  BY DEF TypeOK, Counts
<1>2. CASE leave
  BY <1>1, <1>2 DEF SendOrDepart
<1>3. CASE ~leave
  <2>1. Set_goal(place, due, TRUE) /\ departing' = departing
    BY <1>3 DEF SendOrDepart
  <2>2. /\ current' \in Places \cup {Nowhere} /\ due' \in Counts /\ unsent' \in BOOLEAN
        /\ current' = place \/ unsent' = TRUE
    BY <1>1, <2>1, SetGoalFacts
  <2> QED
    BY <1>1, <2>1, <2>2
<1> QED
  BY <1>2, <1>3

(* A retry counts up to the limit. *)
LEMMA RetryFacts ==
  ASSUME TypeOK, due["ABORTED"] > 0, Retry
  PROVE  /\ ex_iRetry_count' \in 0..RetryMax
         /\ current' \in Places \cup {Nowhere} /\ due' \in Counts /\ unsent' \in BOOLEAN
         /\ \/ current' = pGoal_pose
            \/ current' = current /\ unsent' = unsent
<1>1. /\ due \in Counts /\ pGoal_pose \in Places /\ unsent \in BOOLEAN
      /\ current \in Places \cup {Nowhere} /\ ex_iRetry_count \in 0..RetryMax
  BY DEF TypeOK, Counts
<1>2. Without(due, "ABORTED") \in Counts
  BY <1>1, CountFacts, CodeNames
<1>3. CASE ex_iRetry_count < RetryMax
  <2>1. /\ Set_goal(pGoal_pose, Without(due, "ABORTED"), unsent)
        /\ ex_iRetry_count' = ex_iRetry_count + 1
    BY <1>3 DEF Retry
  <2>2. ex_iRetry_count' \in 0..RetryMax
    BY <1>1, <1>3, <2>1, Bounds
  <2> QED
    BY <1>1, <1>2, <2>1, <2>2, SetGoalFacts
<1>4. CASE ~(ex_iRetry_count < RetryMax)
  BY <1>1, <1>2, <1>4, Bounds DEF Retry
<1> QED
  BY <1>3, <1>4

-----------------------------------------------------------------------------
(* The strengthening: the global goal is the place of the last goto, so     *)
(* whatever is sent later leads there.                                      *)
GoalIsWanted == wanted # Nowhere => pGoal_pose = wanted

IInv == TypeOK /\ GoalIsWanted /\ GoesWhereAsked

(* The node's and Nav2's initial state. *)
LEMMA InitIInv == Init => IInv
<1> SUFFICES ASSUME Init PROVE IInv
  OBVIOUS
<1>1. files \in [Names -> Places \cup {NoFile, EmptyFile}]
  BY DEF Init
<1>2. ex_iRetry_count \in 0..RetryMax /\ gotos \in 0..MaxGotos /\ restarts \in 0..MaxRestarts
  BY Bounds DEF Init
<1>3. due \in [Codes -> Nat]
  BY CountFacts DEF Init, Counts
<1>4. /\ poseTF \in Places /\ pGoal_pose \in Places
      /\ departing \in BOOLEAN /\ ready \in BOOLEAN /\ unsent \in BOOLEAN
      /\ current = Nowhere /\ wanted = Nowhere
  BY LocationAssumption DEF Init
<1> QED
  BY <1>1, <1>2, <1>3, <1>4 DEF IInv, TypeOK, GoalIsWanted, GoesWhereAsked

(* One step per operation. *)
LEMMA StepIInv == IInv /\ [Next]_vars => IInv'
<1> SUFFICES ASSUME IInv, [Next]_vars PROVE IInv'
  OBVIOUS
<1> USE DEF IInv
<1>due. due \in Counts
  BY DEF TypeOK, Counts
<1>1. ASSUME NEW place \in Places, TF_CALC_Timer(place) PROVE IInv'
  BY <1>1 DEF TF_CALC_Timer, TypeOK, GoalIsWanted, GoesWhereAsked, nav2, history
<1>2. ASSUME NEW name \in Names \cup {HOME}, Set_Location_Command(name) PROVE IInv'
  BY <1>2 DEF Set_Location_Command, SaveLocation, TypeOK, GoalIsWanted, GoesWhereAsked,
              node, nav2, history
<1>3. CASE Restart
  <2>1. restarts' \in 0..MaxRestarts
    BY <1>3, Bounds DEF Restart, TypeOK
  <2>2. files' \in [Names -> Places \cup {NoFile, EmptyFile}]
    BY <1>3 DEF Restart, TypeOK
  <2>3. due' \in Counts
    BY <1>3, CountFacts DEF Restart
  <2>4. ex_iRetry_count' \in 0..RetryMax
    BY <1>3, Bounds DEF Restart
  <2>5. /\ poseTF' \in Places /\ pGoal_pose' \in Places
        /\ departing' \in BOOLEAN /\ unsent' \in BOOLEAN /\ wanted' = Nowhere
        /\ UNCHANGED <<ready, current, gotos>>
    BY <1>3, LocationAssumption DEF Restart
  <2> QED
    BY <2>1, <2>2, <2>3, <2>4, <2>5 DEF TypeOK, GoalIsWanted, GoesWhereAsked, Counts
<1>4. ASSUME NEW name \in Names \cup {HOME}, NEW leave \in BOOLEAN,
             Goto_Location_Command(name, leave)
      PROVE  IInv'
  <2>1. pGoal_pose' = OpenLocationFile(name) /\ pGoal_pose' \in Places
    BY <1>4, OpenedPlaces DEF Goto_Location_Command
  <2>2. SendOrDepart(pGoal_pose', leave)
    BY <1>4 DEF Goto_Location_Command
  <2>3. /\ departing' \in BOOLEAN /\ unsent' \in BOOLEAN
        /\ current' \in Places \cup {Nowhere} /\ due' \in Counts
        /\ current' = pGoal_pose' \/ unsent'
    BY <2>1, <2>2, GotoFacts
  <2>4. wanted' \in {pGoal_pose', Nowhere}
    BY <1>4 DEF Goto_Location_Command
  <2>5. gotos' \in 0..MaxGotos
    BY <1>4, Bounds DEF Goto_Location_Command, Accepted, TypeOK
  <2>6. UNCHANGED <<files, poseTF, ex_iRetry_count, ready, restarts>>
    BY <1>4 DEF Goto_Location_Command
  <2> QED
    BY <2>1, <2>3, <2>4, <2>5, <2>6 DEF TypeOK, GoalIsWanted, GoesWhereAsked, Counts
<1>5. ASSUME NEW place \in Places, NEW leave \in BOOLEAN, Goto_Location2_Command(place, leave)
      PROVE  IInv'
  <2>1. SendOrDepart(place, leave) /\ pGoal_pose' = place /\ wanted' = place
    BY <1>5 DEF Goto_Location2_Command
  <2>2. /\ departing' \in BOOLEAN /\ unsent' \in BOOLEAN
        /\ current' \in Places \cup {Nowhere} /\ due' \in Counts
        /\ current' = place \/ unsent'
    BY <2>1, GotoFacts
  <2>3. gotos' \in 0..MaxGotos
    BY <1>5, Bounds DEF Goto_Location2_Command, Accepted, TypeOK
  <2>4. UNCHANGED <<files, poseTF, ex_iRetry_count, ready, restarts>>
    BY <1>5 DEF Goto_Location2_Command
  <2> QED
    BY <2>1, <2>2, <2>3, <2>4 DEF TypeOK, GoalIsWanted, GoesWhereAsked, Counts
<1>6. CASE Docking_Command
  BY <1>6, Bounds DEF Docking_Command, Accepted, TypeOK, GoalIsWanted, GoesWhereAsked, nav2
<1>7. CASE Depart_Station2Move
  <2>1. Set_goal(pGoal_pose, due, unsent)
    BY <1>7 DEF Depart_Station2Move
  <2>2. /\ current' \in Places \cup {Nowhere} /\ due' \in Counts /\ unsent' \in BOOLEAN
        /\ current' = pGoal_pose \/ (current' = current /\ unsent' = unsent)
    BY <1>due, <2>1, SetGoalFacts DEF TypeOK
  <2>3. /\ departing' = FALSE
        /\ UNCHANGED <<files, poseTF, pGoal_pose, ex_iRetry_count, ready, wanted, gotos, restarts>>
    BY <1>7 DEF Depart_Station2Move
  <2>4. GoalIsWanted' /\ GoesWhereAsked'
    BY <2>2, <2>3 DEF GoalIsWanted, GoesWhereAsked
  <2>5. TypeOK'
    BY <2>2, <2>3 DEF TypeOK, Counts
  <2> QED
    BY <2>4, <2>5
<1>8. CASE Docking_Stop_Command
  BY <1>8 DEF Docking_Stop_Command, TypeOK, GoalIsWanted, GoesWhereAsked, nav2, history
<1>9. CASE Goto_Cancel_Command
  <2>1. due' \in Counts /\ current' = Nowhere
    BY <1>9, <1>due, CountFacts, CodeNames DEF Goto_Cancel_Command
  <2> QED
    BY <1>9, <2>1
       DEF Goto_Cancel_Command, TypeOK, GoalIsWanted, GoesWhereAsked, Counts, node, history
<1>10. ASSUME NEW code \in Codes, resultCallback(code) PROVE IInv'
  <2>1. UNCHANGED <<files, poseTF, pGoal_pose, departing, ready, wanted, gotos, restarts>>
    BY <1>10 DEF resultCallback
  <2>2. /\ ex_iRetry_count' \in 0..RetryMax
        /\ current' \in Places \cup {Nowhere} /\ due' \in Counts /\ unsent' \in BOOLEAN
        /\ current' = pGoal_pose \/ (current' = current /\ unsent' = unsent)
    <3>1. CASE code = "ABORTED"
      BY <1>10, <3>1, RetryFacts DEF resultCallback
    <3>2. CASE code # "ABORTED"
      <4>1. due[code] > 0 /\ due' = Without(due, code) /\ ex_iRetry_count' = 0
            /\ current' = current /\ unsent' = unsent
        BY <1>10, <3>2 DEF resultCallback
      <4>2. due' \in Counts
        BY <1>due, <4>1, CountFacts
      <4> QED
        BY <4>1, <4>2, Bounds DEF TypeOK
    <3> QED
      BY <3>1, <3>2
  <2> QED
    BY <2>1, <2>2 DEF TypeOK, GoalIsWanted, GoesWhereAsked, Counts
<1>11. CASE Nav2Ends
  <2>1. due' \in Counts /\ current' = Nowhere
    BY <1>11, <1>due, CountFacts, CodeNames DEF Nav2Ends
  <2> QED
    BY <1>11, <2>1 DEF Nav2Ends, TypeOK, GoalIsWanted, GoesWhereAsked, Counts, node, history
<1>12. CASE Nav2Restarts
  BY <1>12 DEF Nav2Restarts, TypeOK, GoalIsWanted, GoesWhereAsked, node, history
<1>13. CASE UNCHANGED vars
  BY <1>13 DEF vars, TypeOK, GoalIsWanted, GoesWhereAsked, node, nav2, history
<1> QED
  BY <1>1, <1>2, <1>3, <1>4, <1>5, <1>6, <1>7, <1>8, <1>9, <1>10, <1>11, <1>12, <1>13 DEF Next

(* The invariant of every behaviour. *)
LEMMA Inductive == Spec => []IInv
BY InitIInv, StepIInv, PTL DEF Spec

-----------------------------------------------------------------------------
(* The retry count stays within its limit and every goal is a place.        *)
THEOREM TypeCorrect == Spec => []TypeOK
<1>1. IInv => TypeOK
  BY DEF IInv
<1> QED
  BY <1>1, Inductive, PTL

(* Once Nav2 has accepted a goal after the last goto, by its own sending, a *)
(* departure or a retry, it works on the place that goto named.             *)
THEOREM RightPlace == Spec => []GoesWhereAsked
<1>1. IInv => GoesWhereAsked
  BY DEF IInv
<1> QED
  BY <1>1, Inductive, PTL
=============================================================================
