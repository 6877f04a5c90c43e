--------------------------- MODULE TetraInterface ---------------------------
(***************************************************************************)
(* The tetra_interface node (tetra_interface.cpp): one thread that answers *)
(* service calls and, 30 times a second, reads the state of the power      *)
(* board and publishes it.  After more than Patience failed reads in a row *)
(* it logs a disconnect and publishes servo_on = 2, the servo off command  *)
(* of the drive node, on every further failed read.                        *)
(*                                                                         *)
(* Published and answered values are known by the answer they were taken   *)
(* from (SerialLink).  A pass makes one exchange: the two more that the    *)
(* parameter m_bConveyor_option adds, which is off by default, are left    *)
(* out, and the sonar publications are commented out in the source.        *)
(***************************************************************************)
EXTENDS SerialLink

CONSTANTS
  Reads,     \* requests of the read services: parameter, data, adc, version,
             \* sonar, conveyor parameter, conveyor data
  Patience,  \* failed reads that are tolerated, 10 in the code
  Behind     \* bound of the model: unread answers on the link

ASSUME InterfaceAssumption ==
  /\ Patience \in Nat
  /\ Behind \in Nat \ {0}
  /\ Reads # {} /\ Reads \cap {"ack", "tetra", "samples", "zero", "debris"} = {}

VARIABLES
  pc,       \* "boot", "loop", "stopped" by SIGINT, "crashed"
  opened,   \* the serial port could be opened
  logs,     \* /home/tetra/LOG can be written
  on,       \* the power board is on and connected
  link,     \* answers on their way
  m_iFlag_PowerCheck_cnt,
  status,   \* last power_status published, 0 at first
  shown,    \* what the battery, docking and gpio topics were last taken from, and
            \* what Power_Get_IO_Status_Command answers
  reply,    \* what the last read service answered: to which request, data
  servo_on, \* the last pass has published servo_on = 2
  late,     \* history: an answer has come too late
  silent    \* history: passes in a row without an intact answer, at most
            \* Patience + 2

config == <<opened, logs>>
vars == <<pc, config, on, link, m_iFlag_PowerCheck_cnt, status, shown, reply, servo_on,
          late, silent>>

Init ==
  /\ pc = "boot"
  /\ opened \in BOOLEAN /\ logs \in BOOLEAN /\ on \in BOOLEAN
  /\ link = Idle
  /\ m_iFlag_PowerCheck_cnt = 0
  /\ status = 0
  /\ shown = Zero
  /\ reply \in [to : Reads, data : {Zero}]
  /\ servo_on = FALSE
  /\ late = FALSE
  /\ silent = 0

-----------------------------------------------------------------------------
(* The exchanges of one request that the bounds of the model allow.  When   *)
(* the port is not open the write fails and nothing is read.                *)
Call(kind, l) ==
  IF opened THEN {x \in Exchanges(l, kind, on) : Backlog(x.link) <= Behind}
  ELSE {[ret |-> -2, data |-> Zero, link |-> l]}

Late(x) == x.link.owed # <<>>

Transfer(x) ==
  /\ link' = x.link
  /\ late' = (late \/ Late(x))

(* create: open_port returns -1 on failure and create tests for 0, so main  *)
(* goes on without a port.  Then charging ready is switched on.             *)
Boot ==
  /\ pc = "boot"
  /\ pc' = "loop"
  /\ \E x \in Call("ack", link) : Transfer(x)
  /\ UNCHANGED <<config, on, m_iFlag_PowerCheck_cnt, status, shown, reply, servo_on, silent>>

Capped(n) == IF n < Patience + 2 THEN n + 1 ELSE n

(* Error_Log_write: fprintf on the null pointer when the file cannot be     *)
(* opened.                                                                  *)
Error_Log_write == pc' = IF logs THEN pc ELSE "crashed"

(* Fault: a success does not reset the counter. *)
Faulty_Succeeded(x) ==
  /\ UNCHANGED <<pc, m_iFlag_PowerCheck_cnt>>
  /\ servo_on' = FALSE
  /\ status' = x.ret
  /\ shown' = x.data

Succeeded(x) ==
  /\ m_iFlag_PowerCheck_cnt' = 0
  /\ servo_on' = FALSE
  /\ status' = x.ret
  /\ shown' = x.data
  /\ UNCHANGED pc

(* Fault: the failures are counted on after the disconnect. *)
Faulty_Failed_count ==
  /\ m_iFlag_PowerCheck_cnt' = m_iFlag_PowerCheck_cnt + 1
  /\ IF m_iFlag_PowerCheck_cnt > Patience
     THEN Error_Log_write /\ servo_on' = logs
     ELSE servo_on' = FALSE /\ UNCHANGED pc
  /\ UNCHANGED <<status, shown>>

(* Fault: >= for >. *)
Faulty_Failed_early ==
  /\ IF m_iFlag_PowerCheck_cnt >= Patience
     THEN Error_Log_write /\ servo_on' = logs /\ UNCHANGED m_iFlag_PowerCheck_cnt
     ELSE /\ m_iFlag_PowerCheck_cnt' = m_iFlag_PowerCheck_cnt + 1
          /\ servo_on' = FALSE
          /\ UNCHANGED pc
  /\ UNCHANGED <<status, shown>>

(* Fault: servo off is published once and the counter starts again. *)
Faulty_Failed ==
  /\ IF m_iFlag_PowerCheck_cnt > Patience
     THEN Error_Log_write /\ servo_on' = logs /\ m_iFlag_PowerCheck_cnt' = 0
     ELSE /\ m_iFlag_PowerCheck_cnt' = m_iFlag_PowerCheck_cnt + 1
          /\ servo_on' = FALSE
          /\ UNCHANGED pc
  /\ UNCHANGED <<status, shown>>

Failed ==
  /\ IF m_iFlag_PowerCheck_cnt > Patience
     THEN Error_Log_write /\ servo_on' = logs /\ UNCHANGED m_iFlag_PowerCheck_cnt
     ELSE /\ m_iFlag_PowerCheck_cnt' = m_iFlag_PowerCheck_cnt + 1
          /\ servo_on' = FALSE
          /\ UNCHANGED pc
  /\ UNCHANGED <<status, shown>>

(* One pass of the loop: power_read_tetra and what follows. *)
MainLoop ==
  /\ pc = "loop"
  /\ \E x \in Call("tetra", link) :
       /\ Transfer(x)
       /\ IF x.ret < 0 THEN Failed ELSE Succeeded(x)
       /\ silent' = IF x.data.good THEN 0 ELSE Capped(silent)
  /\ UNCHANGED <<config, on, reply>>

(* Power_Paramter_Read_Command, Power_Data_Read_Command and their like:     *)
(* whatever is in the packet buffer is taken and command_result is true.    *)
Read_Command(kind) ==
  /\ pc = "loop"
  /\ \E x \in Call(kind, link) :
       /\ Transfer(x)
       /\ reply' = [to |-> kind, data |-> x.data]
  /\ UNCHANGED <<pc, config, on, m_iFlag_PowerCheck_cnt, status, shown, servo_on, silent>>

(* Fault: the command is written and its answer is not waited for. *)
Faulty_Set_Command ==
  /\ pc = "loop"
  /\ Backlog(link) < Behind
  /\ \E owed \in Owed(link, "ack", on) : link' = [link EXCEPT !.owed = owed]
  /\ UNCHANGED <<pc, config, on, m_iFlag_PowerCheck_cnt, status, shown, reply, servo_on,
                 late, silent>>

(* LED, outport, enable, wheel, sonar and conveyor movement commands. *)
Set_Command ==
  /\ pc = "loop"
  /\ \E x \in Call("ack", link) : Transfer(x)
  /\ UNCHANGED <<pc, config, on, m_iFlag_PowerCheck_cnt, status, shown, reply, servo_on,
                 silent>>

(* Power_Paramter_Write_Command and Conveyor_Parameter_Write_Command both   *)
(* call conveyor_parameter_write: write the parameter, and if that is       *)
(* acknowledged have the conveyor board save it.                            *)
Parameter_Write ==
  /\ pc = "loop"
  /\ \E x \in Call("ack", link) :
       IF x.ret # 0 THEN Transfer(x)
       ELSE \E y \in Call("ack", x.link) :
              link' = y.link /\ late' = (late \/ Late(x) \/ Late(y))
  /\ UNCHANGED <<pc, config, on, m_iFlag_PowerCheck_cnt, status, shown, reply, servo_on,
                 silent>>

(* Reads 500 samples of voltage or current and writes them to a file. *)
Integrallog_Command ==
  /\ pc = "loop"
  /\ \E x \in Call("samples", link) : Transfer(x)
  /\ pc' = IF logs THEN pc ELSE "crashed"
  /\ UNCHANGED <<config, on, m_iFlag_PowerCheck_cnt, status, shown, reply, servo_on, silent>>

(* A late answer with samples that is read by another request runs over its *)
(* buffer, which is undefined: the node ends, or goes on as above.          *)
Overrun ==
  /\ pc = "loop"
  /\ pc' = "crashed"
  /\ \E kind \in {"ack", "tetra"} \cup Reads : \E x \in Call(kind, link) :
       Samples(x.link) < Samples(link) /\ Transfer(x)
  /\ UNCHANGED <<config, on, m_iFlag_PowerCheck_cnt, status, shown, reply, servo_on, silent>>

(* SIGINT: sonar off, port closed. *)
Stop ==
  /\ pc = "loop"
  /\ pc' = "stopped"
  /\ \E x \in Call("ack", link) : Transfer(x)
  /\ UNCHANGED <<config, on, m_iFlag_PowerCheck_cnt, status, shown, reply, servo_on, silent>>

(* The board is switched off or cut off, and back; what it owed is gone.  *)
Board ==
  /\ on' = ~on
  /\ link' = [arrived |-> link.arrived, owed |-> <<>>]
  /\ UNCHANGED <<pc, config, m_iFlag_PowerCheck_cnt, status, shown, reply, servo_on,
                 late, silent>>

Next ==
  \/ Boot
  \/ MainLoop
  \/ \E kind \in Reads : Read_Command(kind)
  \/ Set_Command
  \/ Parameter_Write
  \/ Integrallog_Command
  \/ Overrun
  \/ Stop
  \/ Board

(* The loop has nothing to wait for longer than 0.2 s.  (A failed pass that  *)
(* changes nothing is a stutter: the fairness says nothing of a board that  *)
(* is off.)                                                                 *)
Fairness == WF_vars(Boot) /\ WF_vars(MainLoop)

Spec == Init /\ [][Next]_vars /\ Fairness

-----------------------------------------------------------------------------
Kinds   == {"ack", "tetra", "samples"} \cup Reads
Answers == [of : Kinds, good : BOOLEAN]

LinkTypeOK ==
  /\ link \in [arrived : Seq(Answers), owed : Seq(Answers)]
  /\ Backlog(link) <= Behind

(* Types of the node's state; the failure counter stays in its range. *)
TypeOK ==
  /\ pc \in {"boot", "loop", "stopped", "crashed"}
  /\ opened \in BOOLEAN /\ logs \in BOOLEAN /\ on \in BOOLEAN
  /\ LinkTypeOK
  /\ m_iFlag_PowerCheck_cnt \in 0..Patience + 1
  /\ status \in Leftover \cup {0}
  /\ shown \in Answers \cup {Zero}
  /\ reply \in [to : Reads, data : Answers \cup {Zero, Debris}]
  /\ servo_on \in BOOLEAN
  /\ late \in BOOLEAN
  /\ silent \in 0..Patience + 2

(* The servo is cut off only after more than Patience + 1 passes in a row   *)
(* without an intact answer: one good read between makes the count start    *)
(* again.                                                                   *)
CutOffMeansSilence == servo_on => silent = Patience + 2

(* Battery, docking and gpio values are only published from an answer whose *)
(* LRC was right, whatever a failed read has left in the variables.         *)
PublishedIntact == shown = Zero \/ shown.good

(* As long as every answer comes in time, or not at all, or damaged, nobody *)
(* gets the answer to somebody else's request.                              *)
InStepUnlessLate ==
  late \/ /\ shown.of \in {"zero", "tetra"}
          /\ reply.data.of \in {"zero", reply.to}

(* When the board stays silent, the node ends up commanding servo off with  *)
(* every pass, unless it ends, however many late answers it still reads and *)
(* whatever services it serves.                                             *)
DisconnectCutsServo ==
  <>[]~on => <>[](servo_on \/ pc \in {"stopped", "crashed"})

(* The node keeps the promise of PowerWatch: no service call, late, lost or *)
(* damaged answer, and no end of the node makes it cut the servo off early, *)
(* nor skip a pass while the board is silent.                               *)
PW == INSTANCE PowerWatch WITH up <- pc \in {"boot", "loop"}, cut <- servo_on

KeepsWatch == PW!Spec
=============================================================================
