------------------------ MODULE TetraInterfaceProofs ------------------------
(* TLAPS proofs about the tetra_interface node: about TetraInterface, for   *)
(* any requests, any tolerance and any number of unread answers; then about *)
(* SerialRequests, byte by byte, for numbers and speeds of any size in int, *)
(* lists of any length and any answers.                                     *)
EXTENDS TetraInterface, SerialRequests, SequenceTheorems, WellFoundedInduction, FiniteSetTheorems,
        TLAPS

Links == [arrived : Seq(Answers), owed : Seq(Answers)]

(* What a read gets from a buffer of answers. *)
LEMMA ReadFacts ==
  ASSUME NEW kind \in Kinds, NEW buffer \in Seq(Answers), NEW r \in Read(kind, buffer)
  PROVE  /\ r.ret \in Int
         /\ r.data \in Answers \cup {Zero, Debris}
         /\ r.rest \in Seq(Answers)
         /\ kind # "ack" /\ r.ret >= 0 =>
              r.data \in Answers /\ r.data.good /\ r.ret \in Leftover
         /\ kind # "ack" /\ r.data.good => r.ret \in Leftover
         /\ Len(buffer) <= 1 => r.rest = <<>>
         /\ buffer = <<>> => r.data.of = "zero"
         /\ kind # "ack" /\ buffer # <<>> /\ Head(buffer).of = kind => r.data = Head(buffer)
<1> USE LeftoverAssumption
<1>1. CASE buffer = <<>>
  <2>1. r = Result(-1, Zero, <<>>) \/ r = Result(-10, Zero, <<>>)
    BY <1>1 DEF Read, get_response, get_response2
  <2>2. (r.ret = -1 \/ r.ret = -10) /\ r.data = Zero /\ r.rest = <<>>
    BY <2>1 DEF Result
  <2>3. Zero.of = "zero" /\ Zero.good = FALSE
    BY DEF Zero, Answer
  <2>4. <<>> \in Seq(Answers)
    OBVIOUS
  <2> QED
    BY <1>1, <2>2, <2>3, <2>4
<1>2. CASE buffer # <<>>
  <2>1. /\ Head(buffer) \in Answers /\ Tail(buffer) \in Seq(Answers)
        /\ Len(Tail(buffer)) = Len(buffer) - 1 /\ Len(buffer) \in Nat
    BY <1>2, HeadTailProperties, LenProperties
  <2>2. Len(buffer) <= 1 => Tail(buffer) = <<>>
    BY <2>1, EmptySeq
  <2>3. <<>> \in Seq(Answers)
    OBVIOUS
  <2>4. CASE kind = "ack"
    <3>1. r = Result(IF Head(buffer) = Answer("ack", TRUE) THEN 0 ELSE -1,
                     Head(buffer), Tail(buffer))
      BY <1>2, <2>4 DEF Read, get_response
    <3>2. r.ret \in {0, -1} /\ r.data = Head(buffer) /\ r.rest = Tail(buffer)
      BY <3>1 DEF Result
    <3> QED
      BY <1>2, <2>1, <2>2, <2>4, <3>2
  <2>5. CASE kind # "ack"
    <3>1. CASE Head(buffer).of = "ack"
      <4>1. r = Result(-11, Debris, <<>>)
        BY <1>2, <2>5, <3>1 DEF Read, get_response2
      <4>2. r.ret = -11 /\ r.data = Debris /\ r.rest = <<>>
        BY <4>1 DEF Result
      <4>3. Debris.good = FALSE
        BY DEF Debris, Answer
      <4> QED
        BY <1>2, <2>3, <2>5, <3>1, <4>2, <4>3
    <3>2. CASE Head(buffer).of # "ack" /\ ~Head(buffer).good
      BY <1>2, <2>1, <2>2, <2>5, <3>2 DEF Read, get_response2, Result
    <3>3. CASE Head(buffer).of # "ack" /\ Head(buffer).good
      BY <1>2, <2>1, <2>2, <2>5, <3>3 DEF Read, get_response2, Result
    <3> QED
      BY <3>1, <3>2, <3>3
  <2> QED
    BY <2>4, <2>5
<1> QED
  BY <1>1, <1>2

(* What an exchange leaves on the link and brings back. *)
LEMMA ExchangeFacts ==
  ASSUME NEW kind \in Kinds, NEW l \in Links, NEW x \in Exchanges(l, kind, on)
  PROVE  /\ x.link \in Links
         /\ x.ret \in Int
         /\ x.data \in Answers \cup {Zero, Debris}
         /\ kind # "ack" /\ x.ret >= 0 =>
              x.data \in Answers /\ x.data.good /\ x.ret \in Leftover
         /\ kind # "ack" /\ x.data.good => x.ret \in Leftover
         /\ l = Idle /\ x.link.owed = <<>> =>
              x.link = Idle /\ (kind # "ack" => x.data.of \in {"zero", kind})
<1> DEFINE Record(owed, n, r) ==
             [ret |-> r.ret, data |-> r.data,
              link |-> [arrived |-> r.rest, owed |-> SubSeq(owed, n + 1, Len(owed))]]
           Records(owed, n) ==
             {Record(owed, n, r) : r \in Read(kind, l.arrived \o SubSeq(owed, 1, n))}
<1>a. x \in UNION {UNION {Records(owed, n) : n \in 0..Len(owed)} : owed \in Owed(l, kind, on)}
  BY DEF Exchanges
<1> HIDE DEF Records
<1>b. PICK owed \in Owed(l, kind, on) : x \in UNION {Records(owed, n) : n \in 0..Len(owed)}
  BY <1>a
<1>1. PICK n \in 0..Len(owed) : x \in Records(owed, n)
  BY <1>b
<1> DEFINE buffer == l.arrived \o SubSeq(owed, 1, n)
           rest   == SubSeq(owed, n + 1, Len(owed))
<1>2. PICK r \in Read(kind, buffer) : x = Record(owed, n, r)
  BY <1>1 DEF Records
<1>3. l.arrived \in Seq(Answers) /\ l.owed \in Seq(Answers)
  BY DEF Links
<1>4. \/ owed = l.owed
      \/ \E good \in BOOLEAN : owed = Append(l.owed, Answer(kind, good))
  BY DEF Owed
<1>5. \A good \in BOOLEAN : Answer(kind, good) \in Answers
  BY DEF Answer, Answers
<1>6. owed \in Seq(Answers)
  BY <1>3, <1>4, <1>5
<1>7. Len(owed) \in Nat /\ \A i \in 1..Len(owed) : owed[i] \in Answers
  BY <1>6, LenProperties, ElementOfSeq
<1>8. SubSeq(owed, 1, n) \in Seq(Answers) /\ rest \in Seq(Answers)
  BY <1>7, SubSeqProperties
<1>9. buffer \in Seq(Answers)
  BY <1>3, <1>8, ConcatProperties
<1>10. l = Idle /\ n = Len(owed) =>
         /\ rest = <<>>
         /\ buffer = <<>> \/ \E good \in BOOLEAN : buffer = <<Answer(kind, good)>>
  <2> SUFFICES ASSUME l = Idle, n = Len(owed)
               PROVE  /\ rest = <<>>
                      /\ buffer = <<>> \/ \E good \in BOOLEAN : buffer = <<Answer(kind, good)>>
    OBVIOUS
  <2>1. rest = <<>>
    BY <1>7, SubSeqEmpty
  <2>2. SubSeq(owed, 1, n) = owed
    BY <1>6, SubSeqFull
  <2>3. l.arrived = <<>> /\ l.owed = <<>>
    BY DEF Idle
  <2>4. buffer = owed
    BY <1>6, <2>2, <2>3, ConcatEmptySeq
  <2>5. owed = <<>> \/ \E good \in BOOLEAN : owed = <<Answer(kind, good)>>
    BY <1>4, <2>3
  <2> QED
    BY <2>1, <2>4, <2>5
<1>11. \A good \in BOOLEAN :
          /\ Head(<<Answer(kind, good)>>).of = kind
          /\ Len(<<Answer(kind, good)>>) = 1
          /\ <<Answer(kind, good)>> # <<>>
  BY DEF Answer
<1> HIDE DEF buffer, rest
<1>12. /\ x.ret = r.ret /\ x.data = r.data
       /\ x.link = [arrived |-> r.rest, owed |-> rest]
  BY <1>2 DEF rest
<1>13. x.link \in Links
  <2>1. r.rest \in Seq(Answers)
    BY <1>9, ReadFacts
  <2> QED
    BY <1>8, <1>12, <2>1 DEF Links
<1>14. x.link.owed = <<>> => n = Len(owed)
  <2>1. n \in Nat /\ n <= Len(owed)
    BY <1>7
  <2>2. Len(rest) = IF n + 1 <= Len(owed) THEN Len(owed) - (n + 1) + 1 ELSE 0
    BY <1>7, <2>1, SubSeqProperties DEF rest
  <2>3. Len(<<>>) = 0
    OBVIOUS
  <2>4. x.link.owed = rest
    BY <1>12
  <2> QED
    BY <1>7, <2>1, <2>2, <2>3, <2>4
<1>15. l = Idle /\ x.link.owed = <<>> =>
         x.link = Idle /\ (kind # "ack" => x.data.of \in {"zero", kind})
  <2> SUFFICES ASSUME l = Idle, x.link.owed = <<>>
               PROVE  x.link = Idle /\ (kind # "ack" => x.data.of \in {"zero", kind})
    OBVIOUS
  <2>1. rest = <<>> /\ (buffer = <<>> \/ \E good \in BOOLEAN : buffer = <<Answer(kind, good)>>)
    BY <1>10, <1>14
  <2>2. Len(buffer) <= 1
    <3>1. buffer = <<>> => Len(buffer) = 0
      OBVIOUS
    <3>2. \A good \in BOOLEAN : buffer = <<Answer(kind, good)>> => Len(buffer) = 1
      BY <1>11
    <3>3. Len(buffer) = 0 \/ Len(buffer) = 1
      BY <2>1, <3>1, <3>2, Zenon
    <3>4. \A m : m = 0 \/ m = 1 => m <= 1
      OBVIOUS
    <3> QED
      BY <3>3, <3>4, Zenon
  <2>3. r.rest = <<>>
    BY <1>9, <2>2, ReadFacts
  <2>4. buffer # <<>> => Head(buffer).of = kind
    BY <1>11, <2>1
  <2>5. kind # "ack" => r.data.of \in {"zero", kind}
    BY <1>9, <2>4, ReadFacts
  <2> QED
    BY <1>12, <2>1, <2>3, <2>5 DEF Idle
<1> QED
  <2>1. /\ r.ret \in Int
        /\ r.data \in Answers \cup {Zero, Debris}
        /\ kind # "ack" /\ r.ret >= 0 =>
             r.data \in Answers /\ r.data.good /\ r.ret \in Leftover
        /\ kind # "ack" /\ r.data.good => r.ret \in Leftover
    BY <1>9, ReadFacts
  <2> QED
    BY <1>12, <1>13, <1>15, <2>1

(* The same for what a handler calls, whether the port is open or not. *)
LEMMA CallFacts ==
  ASSUME NEW kind \in Kinds, NEW l \in Links, Backlog(l) <= Behind,
         NEW x \in Call(kind, l)
  PROVE  /\ x.link \in Links /\ Backlog(x.link) <= Behind
         /\ x.ret \in Int
         /\ x.data \in Answers \cup {Zero, Debris}
         /\ kind # "ack" /\ x.ret >= 0 =>
              x.data \in Answers /\ x.data.good /\ x.ret \in Leftover
         /\ kind # "ack" /\ x.data.good => x.ret \in Leftover
         /\ l = Idle /\ ~Late(x) =>
              x.link = Idle /\ (kind # "ack" => x.data.of \in {"zero", kind})
<1>1. CASE opened
  <2>1. x \in Exchanges(l, kind, on) /\ Backlog(x.link) <= Behind
    BY <1>1 DEF Call
  <2> QED
    BY <2>1, ExchangeFacts DEF Late
<1>2. CASE ~opened
  <2>1. x = [ret |-> -2, data |-> Zero, link |-> l]
    BY <1>2 DEF Call
  <2>2. x.ret = -2 /\ x.data = Zero /\ x.link = l
    BY <2>1
  <2>3. Zero.good = FALSE /\ Zero.of = "zero"
    BY DEF Zero, Answer
  <2> QED
    BY <2>2, <2>3
<1> QED
  BY <1>1, <1>2

LEMMA KindsKnown == {"ack", "tetra", "samples"} \subseteq Kinds /\ Reads \subseteq Kinds
BY DEF Kinds

-----------------------------------------------------------------------------
(* Parts of TypeOK that the handlers touch separately. *)
NodeTypeOK ==
  /\ pc \in {"boot", "loop", "stopped", "crashed"}
  /\ opened \in BOOLEAN /\ logs \in BOOLEAN /\ on \in BOOLEAN
  /\ m_iFlag_PowerCheck_cnt \in 0..Patience + 1
  /\ servo_on \in BOOLEAN
  /\ late \in BOOLEAN
  /\ silent \in 0..Patience + 2

ShownTypeOK ==
  /\ status \in Leftover \cup {0}
  /\ shown \in Answers \cup {Zero}
  /\ reply \in [to : Reads, data : Answers \cup {Zero, Debris}]

LEMMA TypeParts == TypeOK <=> NodeTypeOK /\ ShownTypeOK /\ LinkTypeOK
BY DEF TypeOK, NodeTypeOK, ShownTypeOK

(* Every step keeps the link well typed. *)
LEMMA NextKeepsLink ==
  ASSUME LinkTypeOK, [Next]_vars
  PROVE  LinkTypeOK'
<1>0. link \in Links /\ Backlog(link) <= Behind
  BY DEF LinkTypeOK, Links
<1>a. ASSUME NEW kind \in Kinds, NEW l \in Links, Backlog(l) <= Behind,
             NEW x \in Call(kind, l), link' = x.link
      PROVE  LinkTypeOK'
  BY <1>a, CallFacts DEF LinkTypeOK, Links, Backlog
<1>b. ASSUME NEW kind \in Kinds, NEW x \in Call(kind, link), Transfer(x)
      PROVE  LinkTypeOK'
  BY <1>0, <1>a, <1>b DEF Transfer
<1>1. CASE Boot
  BY <1>1, <1>b, KindsKnown DEF Boot
<1>2. CASE MainLoop
  BY <1>2, <1>b, KindsKnown DEF MainLoop
<1>3. ASSUME NEW kind \in Reads, Read_Command(kind) PROVE LinkTypeOK'
  BY <1>3, <1>b, KindsKnown DEF Read_Command
<1>4. CASE Set_Command
  BY <1>4, <1>b, KindsKnown DEF Set_Command
<1>5. CASE Parameter_Write
  <2>1. PICK x \in Call("ack", link) :
          IF x.ret # 0 THEN Transfer(x)
          ELSE \E y \in Call("ack", x.link) :
                 link' = y.link /\ late' = (late \/ Late(x) \/ Late(y))
    BY <1>5 DEF Parameter_Write
  <2>2. x.link \in Links /\ Backlog(x.link) <= Behind
    BY <1>0, KindsKnown, CallFacts
  <2>3. CASE x.ret # 0
    BY <1>b, <2>1, <2>3, KindsKnown
  <2>4. CASE x.ret = 0
    BY <1>a, <2>1, <2>2, <2>4, KindsKnown
  <2> QED
    BY <2>3, <2>4
<1>6. CASE Integrallog_Command
  BY <1>6, <1>b, KindsKnown DEF Integrallog_Command
<1>7. CASE Stop
  BY <1>7, <1>b, KindsKnown DEF Stop
<1>10. CASE Overrun
  <2>1. PICK kind \in {"ack", "tetra"} \cup Reads : \E x \in Call(kind, link) : Transfer(x)
    BY <1>10 DEF Overrun
  <2> QED
    BY <1>b, <2>1, KindsKnown
<1>8. CASE Board
  <2> DEFINE cleared == [arrived |-> link.arrived, owed |-> <<>>]
  <2>1. link' = cleared
    BY <1>8 DEF Board
  <2>2. link.arrived \in Seq(Answers) /\ link.owed \in Seq(Answers) /\ <<>> \in Seq(Answers)
    BY <1>0 DEF Links
  <2>3. Len(link.arrived) \in Nat /\ Len(link.owed) \in Nat /\ Len(<<>>) = 0
    BY <2>2, LenProperties
  <2>4. cleared \in Links
    BY <2>2 DEF Links
  <2>5. \A m, n \in Nat : m + n <= Behind => m + 0 <= Behind
    BY InterfaceAssumption
  <2>6. Len(link.arrived) + 0 <= Behind
    BY <1>0, <2>3, <2>5 DEF Backlog
  <2>7. cleared.arrived = link.arrived /\ Len(cleared.owed) = 0
    BY <2>3
  <2>8. Backlog(cleared) <= Behind
    BY <2>6, <2>7 DEF Backlog
  <2> HIDE DEF cleared
  <2> QED
    BY <2>1, <2>4, <2>8 DEF LinkTypeOK, Links, Backlog
<1>9. CASE UNCHANGED vars
  BY <1>9 DEF vars, LinkTypeOK, Backlog
<1> QED
  BY <1>1, <1>2, <1>3, <1>4, <1>5, <1>6, <1>7, <1>8, <1>9, <1>10 DEF Next

(* Every step keeps the flags and counters well typed. *)
LEMMA NextKeepsNode ==
  ASSUME NodeTypeOK, [Next]_vars
  PROVE  NodeTypeOK'
<1> USE InterfaceAssumption DEF NodeTypeOK, config
<1>a. ASSUME NEW x, Transfer(x) PROVE late' \in BOOLEAN
  BY <1>a DEF Transfer
<1>1. CASE Boot
  BY <1>1, <1>a DEF Boot
<1>2. CASE MainLoop
  <2>1. PICK x \in Call("tetra", link) :
          /\ Transfer(x)
          /\ IF x.ret < 0 THEN Failed ELSE Succeeded(x)
          /\ silent' = IF x.data.good THEN 0 ELSE Capped(silent)
    BY <1>2 DEF MainLoop
  <2>2. late' \in BOOLEAN
    BY <1>a, <2>1
  <2>3. silent' \in 0..Patience + 2
    BY <2>1 DEF Capped
  <2>4. CASE Failed
    <3>1. m_iFlag_PowerCheck_cnt' \in 0..Patience + 1
      BY <2>4 DEF Failed
    <3>2. servo_on' \in BOOLEAN /\ pc' \in {"boot", "loop", "stopped", "crashed"}
      BY <2>4 DEF Failed, Error_Log_write
    <3> QED
      BY <1>2, <2>2, <2>3, <3>1, <3>2 DEF MainLoop
  <2>5. CASE Succeeded(x)
    <3>1. m_iFlag_PowerCheck_cnt' \in 0..Patience + 1
      BY <2>5 DEF Succeeded
    <3>2. servo_on' \in BOOLEAN /\ pc' \in {"boot", "loop", "stopped", "crashed"}
      BY <2>5 DEF Succeeded
    <3> QED
      BY <1>2, <2>2, <2>3, <3>1, <3>2 DEF MainLoop
  <2> QED
    BY <2>1, <2>4, <2>5
<1>3. ASSUME NEW kind \in Reads, Read_Command(kind) PROVE NodeTypeOK'
  BY <1>3, <1>a DEF Read_Command
<1>4. CASE Set_Command
  BY <1>4, <1>a DEF Set_Command
<1>5. CASE Parameter_Write
  <2>1. late' \in BOOLEAN
    BY <1>5, <1>a DEF Parameter_Write
  <2> QED
    BY <1>5, <2>1 DEF Parameter_Write
<1>6. CASE Integrallog_Command
  BY <1>6, <1>a DEF Integrallog_Command
<1>7. CASE Stop
  BY <1>7, <1>a DEF Stop
<1>10. CASE Overrun
  BY <1>10, <1>a DEF Overrun
<1>8. CASE Board
  BY <1>8 DEF Board
<1>9. CASE UNCHANGED vars
  BY <1>9 DEF vars
<1> QED
  BY <1>1, <1>2, <1>3, <1>4, <1>5, <1>6, <1>7, <1>8, <1>9, <1>10 DEF Next

(* Published and answered values keep their types. *)
LEMMA NextKeepsShown ==
  ASSUME LinkTypeOK, ShownTypeOK, [Next]_vars
  PROVE  ShownTypeOK'
<1>0. link \in Links /\ Backlog(link) <= Behind
  BY DEF LinkTypeOK, Links
<1>1. CASE MainLoop
  <2>1. PICK x \in Call("tetra", link) : IF x.ret < 0 THEN Failed ELSE Succeeded(x)
    BY <1>1 DEF MainLoop
  <2>2. x.ret \in Int /\ (x.ret >= 0 => x.data \in Answers /\ x.ret \in Leftover)
    BY <1>0, KindsKnown, CallFacts
  <2>3. CASE x.ret < 0
    BY <1>1, <2>1, <2>3 DEF MainLoop, Failed, ShownTypeOK
  <2>4. CASE x.ret >= 0
    BY <1>1, <2>1, <2>2, <2>4 DEF MainLoop, Succeeded, ShownTypeOK
  <2> QED
    BY <2>2, <2>3, <2>4
<1>2. ASSUME NEW kind \in Reads, Read_Command(kind) PROVE ShownTypeOK'
  <2>1. PICK x \in Call(kind, link) : reply' = [to |-> kind, data |-> x.data]
    BY <1>2 DEF Read_Command
  <2>2. x.data \in Answers \cup {Zero, Debris}
    BY <1>0, KindsKnown, CallFacts
  <2> QED
    BY <1>2, <2>1, <2>2 DEF Read_Command, ShownTypeOK
<1>3. CASE UNCHANGED <<status, shown, reply>>
  BY <1>3 DEF ShownTypeOK
<1> QED
  BY <1>1, <1>2, <1>3
     DEF Next, vars, Boot, Set_Command, Parameter_Write, Integrallog_Command, Overrun, Stop,
         Board

(* Every reachable state is well typed: the unread answers stay within      *)
(* their bound and the failure counter in its range.                        *)
THEOREM TypeCorrect == Spec => []TypeOK
<1>1. Init => TypeOK
  <2> SUFFICES ASSUME Init PROVE TypeOK
    OBVIOUS
  <2>1. <<>> \in Seq(Answers) /\ Len(<<>>) = 0
    OBVIOUS
  <2>2. Idle \in Links /\ Backlog(Idle) = 0
    BY <2>1 DEF Idle, Links, Backlog
  <2>3. LinkTypeOK
    BY <2>2, InterfaceAssumption DEF Init, LinkTypeOK, Links
  <2>4. NodeTypeOK
    <3>1. 0 \in 0..Patience + 1 /\ 0 \in 0..Patience + 2
      BY InterfaceAssumption, SMT
    <3>2. /\ opened \in BOOLEAN /\ logs \in BOOLEAN /\ on \in BOOLEAN
          /\ servo_on \in BOOLEAN /\ late \in BOOLEAN
      BY Zenon DEF Init
    <3> QED
      BY <3>1, <3>2, Zenon DEF Init, NodeTypeOK
  <2>5. ShownTypeOK
    <3>1. status = 0 /\ shown = Zero
      BY DEF Init
    <3>2. reply \in [to : Reads, data : {Zero}]
      BY DEF Init
    <3>3. {Zero} \subseteq Answers \cup {Zero, Debris}
      OBVIOUS
    <3>4. reply \in [to : Reads, data : Answers \cup {Zero, Debris}]
      BY <3>2, <3>3
    <3> QED
      BY <3>1, <3>4 DEF ShownTypeOK
  <2> QED
    BY <2>3, <2>4, <2>5, TypeParts
<1>2. TypeOK /\ [Next]_vars => TypeOK'
  BY TypeParts, NextKeepsLink, NextKeepsNode, NextKeepsShown
     DEF TypeOK, NodeTypeOK, ShownTypeOK
<1> QED
  BY <1>1, <1>2, PTL DEF Spec

-----------------------------------------------------------------------------
(* Battery, docking and gpio are only ever published from intact answers,   *)
(* whatever a broken-off read leaves behind.                                *)
THEOREM OnlyIntactPublished == Spec => []PublishedIntact
<1>1. Init => PublishedIntact
  BY DEF Init, PublishedIntact
<1>2. TypeOK /\ PublishedIntact /\ [Next]_vars => PublishedIntact'
  <2> SUFFICES ASSUME TypeOK, PublishedIntact, [Next]_vars PROVE PublishedIntact'
    OBVIOUS
  <2>1. CASE MainLoop
    <3>1. PICK x \in Call("tetra", link) : IF x.ret < 0 THEN Failed ELSE Succeeded(x)
      BY <2>1 DEF MainLoop
    <3>2. link \in Links /\ Backlog(link) <= Behind
      BY DEF TypeOK, LinkTypeOK, Links
    <3>3. x.ret \in Int /\ (x.ret >= 0 => x.data.good)
      BY <3>2, KindsKnown, CallFacts
    <3> QED
      BY <3>1, <3>3 DEF Failed, Succeeded, PublishedIntact
  <2>2. CASE UNCHANGED shown
    BY <2>2 DEF PublishedIntact
  <2> QED
    BY <2>1, <2>2
       DEF Next, vars, Boot, Read_Command, Set_Command, Parameter_Write,
         Integrallog_Command, Overrun, Stop, Board
<1> QED
  BY <1>1, <1>2, TypeCorrect, PTL DEF Spec

-----------------------------------------------------------------------------
(* Why nobody gets somebody else's answer: until an answer comes late, no   *)
(* answer is left over between two exchanges.                               *)
InStep == shown.of \in {"zero", "tetra"} /\ reply.data.of \in {"zero", reply.to}

Synchronous == late \/ (link = Idle /\ InStep)

(* Unless an answer has come too late, what is published is of the board's  *)
(* state and every read service answers its own request.                    *)
THEOREM NoMixUp == Spec => []InStepUnlessLate
<1>1. Init => Synchronous
  <2>1. Zero.of = "zero"
    BY DEF Zero, Answer
  <2> QED
    BY <2>1 DEF Init, Synchronous, InStep
<1>2. TypeOK /\ Synchronous /\ [Next]_vars => Synchronous'
  <2> SUFFICES ASSUME TypeOK, Synchronous, [Next]_vars, ~late' PROVE Synchronous'
    BY DEF Synchronous
  <2>0. link \in Links /\ Backlog(link) <= Behind
    BY DEF TypeOK, LinkTypeOK, Links
  <2>a. ASSUME NEW kind \in Kinds, NEW x \in Call(kind, link), Transfer(x)
        PROVE  link' = Idle /\ InStep /\ (kind # "ack" => x.data.of \in {"zero", kind})
    <3>1. ~late /\ ~Late(x)
      BY <2>a, Zenon DEF Transfer
    <3>2. link = Idle /\ InStep
      BY <3>1 DEF Synchronous
    <3> QED
      BY <2>0, <2>a, <3>1, <3>2, CallFacts DEF Transfer
  <2>b. link' = Idle /\ InStep /\ UNCHANGED <<shown, reply>> => Synchronous'
    BY DEF Synchronous, InStep
  <2>1. CASE Boot
    BY <2>1, <2>a, <2>b, KindsKnown DEF Boot
  <2>2. CASE MainLoop
    <3>1. PICK x \in Call("tetra", link) :
            Transfer(x) /\ IF x.ret < 0 THEN Failed ELSE Succeeded(x)
      BY <2>2 DEF MainLoop
    <3>2. link' = Idle /\ InStep /\ x.data.of \in {"zero", "tetra"}
      BY <2>a, <3>1, KindsKnown
    <3>3. shown' \in {shown, x.data} /\ reply' = reply
      BY <2>2, <3>1 DEF MainLoop, Failed, Succeeded
    <3> QED
      BY <3>2, <3>3 DEF Synchronous, InStep
  <2>3. ASSUME NEW kind \in Reads, Read_Command(kind) PROVE Synchronous'
    <3>1. PICK x \in Call(kind, link) :
            Transfer(x) /\ reply' = [to |-> kind, data |-> x.data]
      BY <2>3 DEF Read_Command
    <3>2. kind \in Kinds /\ kind # "ack"
      BY KindsKnown, InterfaceAssumption
    <3>3. link' = Idle /\ InStep /\ x.data.of \in {"zero", kind}
      BY <2>a, <3>1, <3>2
    <3>4. shown' = shown /\ reply'.to = kind /\ reply'.data = x.data
      BY <2>3, <3>1 DEF Read_Command
    <3> QED
      BY <3>3, <3>4 DEF Synchronous, InStep
  <2>4. CASE Set_Command
    BY <2>4, <2>a, <2>b, KindsKnown DEF Set_Command
  <2>5. CASE Parameter_Write
    <3>1. PICK x \in Call("ack", link) :
            IF x.ret # 0 THEN Transfer(x)
            ELSE \E y \in Call("ack", x.link) :
                   link' = y.link /\ late' = (late \/ Late(x) \/ Late(y))
      BY <2>5 DEF Parameter_Write
    <3>2. UNCHANGED <<shown, reply>>
      BY <2>5 DEF Parameter_Write
    <3>3. CASE x.ret # 0
      BY <2>a, <2>b, <3>1, <3>2, <3>3, KindsKnown
    <3>4. CASE x.ret = 0
      <4>1. PICK y \in Call("ack", x.link) :
              link' = y.link /\ late' = (late \/ Late(x) \/ Late(y))
        BY <3>1, <3>4
      <4>2. ~late /\ ~Late(x) /\ ~Late(y)
        BY <4>1, Zenon
      <4>3. link = Idle /\ InStep
        BY <4>2 DEF Synchronous
      <4>4. x.link = Idle /\ x.link \in Links /\ Backlog(x.link) <= Behind
        BY <2>0, <4>2, <4>3, KindsKnown, CallFacts
      <4>5. y.link = Idle
        BY <4>2, <4>4, KindsKnown, CallFacts
      <4> QED
        BY <2>b, <3>2, <4>1, <4>3, <4>5
    <3> QED
      BY <3>3, <3>4
  <2>6. CASE Integrallog_Command
    BY <2>6, <2>a, <2>b, KindsKnown DEF Integrallog_Command
  <2>7. CASE Stop
    BY <2>7, <2>a, <2>b, KindsKnown DEF Stop
  <2>10. CASE Overrun
    <3>1. PICK kind \in {"ack", "tetra"} \cup Reads : \E x \in Call(kind, link) : Transfer(x)
      BY <2>10 DEF Overrun
    <3>2. link' = Idle /\ InStep
      BY <2>a, <3>1, KindsKnown
    <3> QED
      BY <2>10, <2>b, <3>2 DEF Overrun
  <2>8. CASE Board
    <3>1. link = Idle /\ InStep
      BY <2>8 DEF Board, Synchronous
    <3>2. link' = Idle /\ UNCHANGED <<shown, reply>>
      BY <2>8, <3>1 DEF Board, Idle
    <3> QED
      BY <2>b, <3>1, <3>2
  <2>9. CASE UNCHANGED vars
    BY <2>9, <2>b DEF vars, Synchronous
  <2> QED
    BY <2>1, <2>2, <2>3, <2>4, <2>5, <2>6, <2>7, <2>8, <2>9, <2>10 DEF Next
<1>3. Synchronous => InStepUnlessLate
  BY DEF Synchronous, InStep, InStepUnlessLate
<1> QED
  BY <1>1, <1>2, <1>3, TypeCorrect, PTL DEF Spec

-----------------------------------------------------------------------------
(* The failure counter is the number of silent passes, up to Patience + 1.  *)
CountsSilence ==
  /\ m_iFlag_PowerCheck_cnt = IF silent <= Patience THEN silent ELSE Patience + 1
  /\ servo_on => silent = Patience + 2

(* With the byte that unoptimised code returns, a pass fails exactly when   *)
(* it has no intact answer.                                                 *)
LEMMA PassFacts ==
  ASSUME Leftover \subseteq Nat, TypeOK, CountsSilence, MainLoop
  PROVE  \/ silent' = 0 /\ servo_on' = FALSE /\ m_iFlag_PowerCheck_cnt' = 0 /\ UNCHANGED pc
         \/ /\ silent <= Patience
            /\ silent' = silent + 1
            /\ servo_on' = FALSE
            /\ m_iFlag_PowerCheck_cnt' = m_iFlag_PowerCheck_cnt + 1
            /\ UNCHANGED pc
         \/ /\ silent > Patience
            /\ silent' = Patience + 2
            /\ servo_on' = logs
            /\ pc' = IF logs THEN pc ELSE "crashed"
            /\ UNCHANGED m_iFlag_PowerCheck_cnt
<1>1. PICK x \in Call("tetra", link) :
        /\ IF x.ret < 0 THEN Failed ELSE Succeeded(x)
        /\ silent' = IF x.data.good THEN 0 ELSE Capped(silent)
  BY DEF MainLoop
<1>2. link \in Links /\ Backlog(link) <= Behind
  BY DEF TypeOK, LinkTypeOK, Links
<1>3. x.ret \in Int /\ (x.ret >= 0 => x.data.good) /\ (x.data.good => x.ret \in Leftover)
  BY <1>2, KindsKnown, CallFacts
<1>4. x.data.good => x.ret >= 0
  BY <1>3
<1>5. silent \in 0..Patience + 2 /\ Patience \in Nat
  BY InterfaceAssumption DEF TypeOK
<1>6. CASE x.data.good
  BY <1>1, <1>3, <1>4, <1>6 DEF Succeeded
<1>7. CASE ~x.data.good
  <2>1. Failed /\ silent' = Capped(silent)
    BY <1>1, <1>3, <1>7
  <2>2. CASE silent <= Patience
    <3>1. ~(m_iFlag_PowerCheck_cnt > Patience)
      BY <1>5, <2>2 DEF CountsSilence
    <3>2. silent' = silent + 1
      BY <1>5, <2>1, <2>2 DEF Capped
    <3> QED
      BY <2>1, <2>2, <3>1, <3>2 DEF Failed
  <2>3. CASE silent > Patience
    <3>1. m_iFlag_PowerCheck_cnt > Patience
      BY <1>5, <2>3 DEF CountsSilence
    <3>2. silent' = Patience + 2
      BY <1>5, <2>1, <2>3 DEF Capped
    <3> QED
      BY <2>1, <2>3, <3>1, <3>2 DEF Failed, Error_Log_write
  <2>4. silent <= Patience \/ silent > Patience
    BY <1>5
  <2> QED
    BY <2>2, <2>3, <2>4, Zenon
<1> QED
  BY <1>6, <1>7

LEMMA CountingInductive ==
  ASSUME Leftover \subseteq Nat, TypeOK, CountsSilence, [Next]_vars
  PROVE  CountsSilence'
<1>1. silent \in 0..Patience + 2 /\ Patience \in Nat
  BY InterfaceAssumption DEF TypeOK
<1>2. CASE MainLoop
  <2>1. CASE silent' = 0 /\ servo_on' = FALSE /\ m_iFlag_PowerCheck_cnt' = 0
    BY <1>1, <2>1 DEF CountsSilence
  <2>2. CASE /\ silent <= Patience
             /\ silent' = silent + 1
             /\ servo_on' = FALSE
             /\ m_iFlag_PowerCheck_cnt' = m_iFlag_PowerCheck_cnt + 1
    BY <1>1, <2>2 DEF CountsSilence
  <2>3. CASE /\ silent > Patience
             /\ silent' = Patience + 2
             /\ UNCHANGED m_iFlag_PowerCheck_cnt
    BY <1>1, <2>3 DEF CountsSilence
  <2> QED
    BY <1>2, <2>1, <2>2, <2>3, PassFacts
<1>3. CASE UNCHANGED <<m_iFlag_PowerCheck_cnt, servo_on, silent>>
  BY <1>3 DEF CountsSilence
<1> QED
  BY <1>2, <1>3
     DEF Next, vars, Boot, Read_Command, Set_Command, Parameter_Write,
         Integrallog_Command, Overrun, Stop, Board

(* The servo is cut off only after more than Patience + 1 passes in a row   *)
(* without an intact answer, if get_response2 never returns a negative      *)
(* leftover for a good answer.                                              *)
THEOREM NoEarlyCutOff ==
  ASSUME Leftover \subseteq Nat
  PROVE  Spec => [](CountsSilence /\ CutOffMeansSilence)
<1>1. Init => CountsSilence
  BY InterfaceAssumption DEF Init, CountsSilence
<1>2. TypeOK /\ CountsSilence /\ [Next]_vars => CountsSilence'
  BY CountingInductive
<1>3. CountsSilence => CutOffMeansSilence
  BY DEF CountsSilence, CutOffMeansSilence
<1> QED
  BY <1>1, <1>2, <1>3, TypeCorrect, PTL DEF Spec

(* The node keeps the promise of PowerWatch: every step of it is a step of  *)
(* PowerWatch or changes nothing that PowerWatch speaks of.                 *)
THEOREM WatchKept ==
  ASSUME Leftover \subseteq Nat
  PROVE  Spec => KeepsWatch
<1>1. Init => PW!Init
  BY DEF Init, PW!Init
<1>2. ASSUME TypeOK, CountsSilence, [Next]_vars
      PROVE  [PW!Next]_<<pc \in {"boot", "loop"}, silent, servo_on>>
  <2>0. silent \in 0..Patience + 2 /\ Patience \in Nat
    BY <1>2, InterfaceAssumption DEF TypeOK
  <2>1. CASE MainLoop
    <3>0. pc = "loop"
      BY <2>1 DEF MainLoop
    <3>1. CASE silent' = 0 /\ servo_on' = FALSE /\ UNCHANGED pc
      BY <3>0, <3>1 DEF PW!Next, PW!Pass, PW!Answered
    <3>2. CASE /\ silent <= Patience /\ silent' = silent + 1
               /\ servo_on' = FALSE /\ UNCHANGED pc
      <4>1. silent < Patience + 2 /\ (silent' = Patience + 2) = FALSE
        BY <2>0, <3>2
      <4> QED
        BY <3>0, <3>2, <4>1 DEF PW!Next, PW!Pass, PW!Missed
    <3>3. CASE /\ silent > Patience /\ silent' = Patience + 2
               /\ servo_on' = logs /\ pc' = IF logs THEN pc ELSE "crashed"
      <4>1. CASE logs
        <5>1. silent' = IF silent < Patience + 2 THEN silent + 1 ELSE silent
          BY <2>0, <3>3
        <5>2. servo_on' = (silent' = Patience + 2)
          BY <1>2, <3>3, <4>1, Zenon DEF TypeOK
        <5> QED
          BY <3>0, <3>3, <4>1, <5>1, <5>2 DEF PW!Next, PW!Pass, PW!Missed
      <4>2. CASE ~logs
        <5>1. servo_on' = FALSE
          BY <1>2, <3>3, <4>2, Zenon DEF TypeOK
        <5> QED
          BY <3>0, <3>3, <4>2, <5>1 DEF PW!Next, PW!End
      <4> QED
        BY <4>1, <4>2
    <3> QED
      BY <1>2, <2>1, <3>1, <3>2, <3>3, PassFacts
  <2>2. CASE Boot
    BY <2>2 DEF Boot
  <2>3. CASE Integrallog_Command \/ Overrun \/ Stop
    <3>1. /\ UNCHANGED <<silent, servo_on>> /\ pc = "loop"
          /\ pc' \in {"loop", "crashed", "stopped"}
      BY <2>3 DEF Integrallog_Command, Overrun, Stop
    <3> QED
      BY <3>1 DEF PW!Next, PW!End
  <2>4. CASE UNCHANGED <<pc, silent, servo_on>>
    BY <2>4
  <2> QED
    BY <1>2, <2>1, <2>2, <2>3, <2>4
       DEF Next, vars, Read_Command, Set_Command, Parameter_Write, Board
<1> QED
  BY <1>1, <1>2, TypeCorrect, NoEarlyCutOff, PTL DEF Spec, KeepsWatch, PW!Spec

----------------------------------------------------------------------------
(* The requests of the services and of the drive node (SerialRequests).     *)
(*                                                                          *)
(* What the recursive functions compute is shown by induction over data: a  *)
(* set of numbers has a smallest one, which needs no operator parameter.    *)

(* Of a set of numbers, one is the smallest.                                *)
LEMMA Least ==
  ASSUME NEW S \in SUBSET Nat, S # {}
  PROVE  \E n \in S : \A m \in S : ~(m < n)
<1> DEFINE R == {ss \in Nat \X Nat : ss[1] < ss[2]}
<1>1. IsWellFoundedOn(R, Nat)
  BY NatLessThanWellFounded DEF OpToRel
<1>2. PICK n \in S : \A m \in S : <<m, n>> \notin R
  <2> HIDE DEF R
  <2> QED
    BY <1>1, WFMin, Zenon
<1> QED
  BY <1>2

(* Induction, of a set.                                                     *)
LEMMA Induction ==
  ASSUME NEW n \in Nat, NEW S, 0 \in S, \A i \in 0..n - 1 : i \in S => i + 1 \in S
  PROVE  \A i \in 0..n : i \in S
<1> SUFFICES ASSUME NEW k \in 0..n, k \notin S PROVE FALSE
  OBVIOUS
<1> DEFINE Rest == {i \in 0..n : i \notin S}
<1>1. Rest \in SUBSET Nat /\ k \in Rest
  OBVIOUS
<1>2. PICK least \in Rest : \A m \in Rest : ~(m < least)
  <2> HIDE DEF Rest
  <2> QED
    BY <1>1, Least
<1>3. least \in 0..n /\ least \notin S
  BY <1>2
<1>4. least # 0
  BY <1>3
<1>5. least - 1 \in 0..n - 1 /\ least - 1 < least /\ least = (least - 1) + 1
  BY <1>3, <1>4
<1>6. least - 1 \in S
  BY <1>2, <1>5
<1> QED
  BY <1>3, <1>5, <1>6

(* A function defined by recursion over 0..n exists, ...                    *)
Stepwise(n, V, first, step) == first \in V /\ step \in [V \X (1..n) -> V]

(* f is what the recursion defines.                                         *)
Recursive(f, n, V, first, step) ==
  f \in [0..n -> V] /\ f[0] = first /\ \A i \in 1..n : f[i] = step[<<f[i - 1], i>>]

LEMMA Recursion ==
  ASSUME NEW n \in Nat, NEW V, NEW first, NEW step, Stepwise(n, V, first, step)
  PROVE  \E f : Recursive(f, n, V, first, step)
<1> USE DEF Stepwise
<1> DEFINE Upto(k, f) == f[0] = first /\ \A i \in 1..k : f[i] = step[<<f[i - 1], i>>]
           S == {k \in 0..n : \E f \in [0..k -> V] : Upto(k, f)}
<1>1. 0 \in S
  <2>1. [i \in 0..0 |-> first] \in [0..0 -> V] /\ Upto(0, [i \in 0..0 |-> first])
    OBVIOUS
  <2>2. \E f \in [0..0 -> V] : Upto(0, f)
    BY <2>1
  <2> QED
    BY <2>2
<1>2. ASSUME NEW k \in 0..n - 1, k \in S
      PROVE  k + 1 \in S
  <2>1. PICK f \in [0..k -> V] : Upto(k, f)
    BY <1>2
  <2> DEFINE g == [i \in 0..k + 1 |-> IF i <= k THEN f[i] ELSE step[<<f[k], k + 1>>]]
  <2>2. f[k] \in V /\ k + 1 \in 1..n
    OBVIOUS
  <2>3. step[<<f[k], k + 1>>] \in V
    BY <2>2
  <2>4. g \in [0..k + 1 -> V]
    BY <2>3
  <2>5. g[0] = first
    BY <2>1
  <2>6. ASSUME NEW i \in 1..k + 1
        PROVE  g[i] = step[<<g[i - 1], i>>]
    <3>1. CASE i = k + 1
      <4>1. i - 1 = k /\ i - 1 \in 0..k + 1 /\ ~(i <= k) /\ k <= k
        BY <3>1
      <4> QED
        BY <3>1, <4>1
    <3>2. CASE i # k + 1
      <4>1. i \in 1..k /\ i - 1 \in 0..k + 1 /\ i - 1 <= k /\ i <= k
        BY <3>2
      <4> QED
        BY <2>1, <4>1
    <3> QED
      BY <3>1, <3>2
  <2>7. Upto(k + 1, g)
    BY <2>5, <2>6
  <2>8. \E h \in [0..k + 1 -> V] : Upto(k + 1, h)
    BY <2>4, <2>7
  <2> QED
    BY <2>8
<1>3. n \in S
  <2> HIDE DEF S
  <2>1. \A i \in 0..n : i \in S
    BY <1>1, <1>2, Induction
  <2> QED
    BY <2>1
<1> QED
  BY <1>3 DEF Recursive

(* ... and only one does.                                                   *)
SameSteps(f, g, n) == f[0] = g[0] /\ \A i \in 1..n : f[i - 1] = g[i - 1] => f[i] = g[i]

(* f and g are the same up to n.                                            *)
Same(f, g, n) == \A i \in 0..n : f[i] = g[i]

LEMMA Agreement ==
  ASSUME NEW n \in Nat, NEW f, NEW g, SameSteps(f, g, n)
  PROVE  Same(f, g, n)
<1> DEFINE S == {i \in 0..n : f[i] = g[i]}
<1>1. 0 \in S
  BY DEF SameSteps
<1>2. ASSUME NEW i \in 0..n - 1, i \in S
      PROVE  i + 1 \in S
  <2>1. i + 1 \in 1..n /\ (i + 1) - 1 = i /\ i + 1 \in 0..n
    OBVIOUS
  <2>2. f[i + 1] = g[i + 1]
    BY <1>2, <2>1 DEF SameSteps
  <2> QED
    BY <2>1, <2>2
<1>3. \A i \in 0..n : i \in S
  <2> HIDE DEF S
  <2> QED
    BY <1>1, <1>2, Induction
<1> QED
  BY <1>3 DEF Same

(* A byte.                                                                  *)
Octet == {n \in Nat : n < 256}

(* The exclusive or of bytes is a byte, and 0 for equal ones.               *)
LEMMA XorByte ==
  ASSUME NEW a \in Octet, NEW b \in Octet
  PROVE  Xor[a][b] \in Octet /\ Xor[a][a] = 0
<1>1. ASSUME NEW c \in Octet, NEW d \in Octet
      PROVE  Xor[c][d] = Value([i \in 0..7 |-> (Bit(c, i) + Bit(d, i)) % 2])
  <2>1. c \in 0..255 /\ d \in 0..255
    BY DEF Octet
  <2> QED
    BY <2>1, Zenon DEF Xor
<1>2. \A n \in Nat, i \in 0..7 : Bit(n, i) \in {0, 1}
  BY DEF Bit, Power
<1>3. ASSUME NEW f \in [0..7 -> {0, 1}]
      PROVE  Value(f) \in Octet
  <2>1. \A i \in 0..7 : f[i] = 0 \/ f[i] = 1
    OBVIOUS
  <2>2. Value(f) = f[0] + 2 * f[1] + 4 * f[2] + 8 * f[3] + 16 * f[4] + 32 * f[5] + 64 * f[6]
                     + 128 * f[7]
    BY <2>1 DEF Value, Total, Power
  <2> QED
    BY <2>1, <2>2 DEF Octet
<1>4. [i \in 0..7 |-> (Bit(a, i) + Bit(b, i)) % 2] \in [0..7 -> {0, 1}]
  BY <1>2 DEF Octet
<1>5. Value([i \in 0..7 |-> (Bit(a, i) + Bit(a, i)) % 2]) = 0
  <2>1. \A i \in 0..7 : (Bit(a, i) + Bit(a, i)) % 2 = 0
    BY <1>2 DEF Octet
  <2> QED
    BY <2>1 DEF Value, Total, Power
<1> QED
  BY <1>1, <1>3, <1>4, <1>5

(* Taking a byte apart and putting it together gives the byte.              *)
LEMMA ValueOfBits ==
  ASSUME NEW a \in Octet
  PROVE  Value(decimal2binary(a)) = a
<1>1. PICK b : b = decimal2binary(a)
  OBVIOUS
<1>2. /\ b[0] = (a \div 1) % 2 /\ b[1] = (a \div 2) % 2 /\ b[2] = (a \div 4) % 2
      /\ b[3] = (a \div 8) % 2 /\ b[4] = (a \div 16) % 2 /\ b[5] = (a \div 32) % 2
      /\ b[6] = (a \div 64) % 2 /\ b[7] = (a \div 128) % 2
  BY <1>1 DEF decimal2binary, Bit, Power
<1>3. \A i \in 0..7 : b[i] \in Nat
  BY <1>2 DEF Octet
<1>4. Value(b) = b[0] + 2 * b[1] + 4 * b[2] + 8 * b[3] + 16 * b[4] + 32 * b[5] + 64 * b[6]
                   + 128 * b[7]
  BY <1>3 DEF Value, Total, Power
<1>5. PICK v0, v1, v2, v3, v4, v5, v6, v7 :
        /\ v0 = b[0] /\ v1 = b[1] /\ v2 = b[2] /\ v3 = b[3]
        /\ v4 = b[4] /\ v5 = b[5] /\ v6 = b[6] /\ v7 = b[7]
  OBVIOUS
<1>6. v0 + 2 * v1 + 4 * v2 + 8 * v3 + 16 * v4 + 32 * v5 + 64 * v6 + 128 * v7 = a
  <2>1. PICK q1 \in Nat, q2 \in Nat, q3 \in Nat, q4 \in Nat, q5 \in Nat, q6 \in Nat, q7 \in Nat :
          /\ q1 = a \div 2 /\ q2 = a \div 4 /\ q3 = a \div 8 /\ q4 = a \div 16
          /\ q5 = a \div 32 /\ q6 = a \div 64 /\ q7 = a \div 128
    BY DEF Octet
  <2>2. /\ a = 2 * q1 + (a % 2) /\ q1 = 2 * q2 + (q1 % 2) /\ q2 = 2 * q3 + (q2 % 2)
        /\ q3 = 2 * q4 + (q3 % 2) /\ q4 = 2 * q5 + (q4 % 2) /\ q5 = 2 * q6 + (q5 % 2)
        /\ q6 = 2 * q7 + (q6 % 2) /\ q7 = q7 % 2
    BY <2>1 DEF Octet
  <2>3. /\ v0 = a % 2 /\ v1 = q1 % 2 /\ v2 = q2 % 2 /\ v3 = q3 % 2 /\ v4 = q4 % 2
        /\ v5 = q5 % 2 /\ v6 = q6 % 2 /\ v7 = q7 % 2
    <3>1. a \div 1 = a
      BY DEF Octet
    <3> QED
      BY <1>2, <1>5, <2>1, <3>1, Zenon
  <2> QED
    BY <2>1, <2>2, <2>3 DEF Octet
<1> QED
  BY <1>1, <1>4, <1>5, <1>6

(* make_lrc goes over the bytes one by one.                                 *)
LEMMA LrcOf ==
  ASSUME NEW s \in Seq(Octet), NEW n \in Nat, n = Len(s)
  PROVE  \E f \in [0..n -> Octet] :
           /\ f[0] = 0 /\ \A i \in 1..n : f[i] = Xor[f[i - 1]][s[i]]
           /\ make_lrc(s) = f[n]
<1> DEFINE step == [p \in Octet \X (1..n) |-> Xor[p[1]][s[p[2]]]]
           Is(f) == f = [i \in 0..n |-> IF i = 0 THEN 0 ELSE Xor[f[i - 1]][s[i]]]
           g == CHOOSE f : Is(f)
<1>1. \A i \in 1..n : s[i] \in Octet
  BY ElementOfSeq
<1>2. step \in [Octet \X (1..n) -> Octet]
  <2>1. ASSUME NEW p \in Octet \X (1..n)
        PROVE  Xor[p[1]][s[p[2]]] \in Octet
    <3>1. p[1] \in Octet /\ s[p[2]] \in Octet
      BY <1>1
    <3>2. \A c, d \in Octet : Xor[c][d] \in Octet
      BY XorByte, Zenon
    <3> QED
      BY <3>1, <3>2, Zenon
  <2> QED
    BY <2>1
<1>3. Stepwise(n, Octet, 0, step)
  BY <1>2 DEF Stepwise, Octet
<1>4. \E h : Recursive(h, n, Octet, 0, step)
  <2> HIDE DEF step
  <2> QED
    BY <1>3, Recursion
<1>5. PICK h \in [0..n -> Octet] : Recursive(h, n, Octet, 0, step)
  BY <1>4 DEF Recursive
<1>6. h[0] = 0 /\ \A i \in 1..n : h[i] = Xor[h[i - 1]][s[i]]
  <2>1. \A i \in 1..n : h[i] = step[<<h[i - 1], i>>]
    <3> HIDE DEF step
    <3> QED
      BY <1>5, Zenon DEF Recursive
  <2>2. ASSUME NEW i \in 1..n PROVE h[i - 1] \in Octet
    <3>1. i - 1 \in 0..n
      OBVIOUS
    <3> QED
      BY <3>1
  <2>3. \A i \in 1..n : step[<<h[i - 1], i>>] = Xor[h[i - 1]][s[i]]
    BY <2>2
  <2> HIDE DEF step
  <2> QED
    BY <1>5, <2>1, <2>3 DEF Recursive
<1>7. Is(h)
  <2>1. \A i \in 0..n : h[i] = IF i = 0 THEN 0 ELSE Xor[h[i - 1]][s[i]]
    BY <1>6
  <2> QED
    BY <2>1
<1>8. Is(g)
  <2> HIDE DEF Is
  <2> QED
    BY <1>7
<1>9. Same(g, h, n)
  <2>1. SameSteps(g, h, n)
    <3> HIDE DEF g
    <3> QED
      BY <1>6, <1>8 DEF SameSteps
  <2> HIDE DEF g
  <2> QED
    BY <2>1, Agreement
<1>10. make_lrc(s) = g[n]
  BY DEF make_lrc
<1>11. make_lrc(s) = h[n]
  <2> HIDE DEF g
  <2> QED
    BY <1>9, <1>10 DEF Same
<1> QED
  BY <1>6, <1>11

(* One byte more changes the LRC by its exclusive or.                       *)
LEMMA LrcAppend ==
  ASSUME NEW s \in Seq(Octet), NEW b \in Octet
  PROVE  make_lrc(s) \in Octet /\ make_lrc(Append(s, b)) = Xor[make_lrc(s)][b]
<1> DEFINE t == Append(s, b)
<1>1. PICK n \in Nat : n = Len(s)
  BY LenProperties
<1>2. t \in Seq(Octet) /\ Len(t) = n + 1 /\ t[n + 1] = b /\ \A i \in 1..n : t[i] = s[i]
  BY <1>1, AppendProperties
<1>3. PICK f \in [0..n -> Octet] :
        /\ f[0] = 0 /\ \A i \in 1..n : f[i] = Xor[f[i - 1]][s[i]]
        /\ make_lrc(s) = f[n]
  BY <1>1, LrcOf
<1> HIDE DEF t
<1>4. PICK m \in Nat : m = n + 1
  OBVIOUS
<1>5. PICK g \in [0..m -> Octet] :
        /\ g[0] = 0 /\ \A i \in 1..m : g[i] = Xor[g[i - 1]][t[i]]
        /\ make_lrc(t) = g[m]
  BY <1>2, <1>4, LrcOf
<1>6. Same(f, g, n)
  <2>1. ASSUME NEW i \in 1..n, f[i - 1] = g[i - 1] PROVE f[i] = g[i]
    <3>1. i \in 1..m /\ t[i] = s[i]
      BY <1>2, <1>4
    <3>2. f[i] = Xor[f[i - 1]][s[i]] /\ g[i] = Xor[g[i - 1]][t[i]]
      BY <1>3, <1>5, <3>1, Zenon
    <3> QED
      BY <2>1, <3>1, <3>2, Zenon
  <2>2. SameSteps(f, g, n)
    BY <1>3, <1>5, <2>1, Zenon DEF SameSteps
  <2> QED
    BY <2>2, Agreement
<1>7. make_lrc(t) = Xor[f[n]][b]
  <2>1. m \in 1..m /\ m - 1 = n /\ n \in 0..n
    BY <1>4
  <2>2. f[n] = g[n]
    BY <1>6 DEF Same
  <2> QED
    BY <1>2, <1>4, <1>5, <2>1, <2>2
<1>8. f[n] \in Octet
  OBVIOUS
<1> QED
  BY <1>3, <1>7, <1>8 DEF t

-----------------------------------------------------------------------------
(* The requests, by the form of what they carry.                            *)
Lists == {<<"L", "I">>, <<"P", "o">>, <<"P", "e">>, <<"L", "T">>, <<"L", "D">>,
          <<"C", "W">>, <<"C", "F">>, <<"C", "X">>}

NumberLists == {Listed(letters, numbers) : letters \in Lists, numbers \in Seq(Bounded)}

Switches == {<<"P", "S">>, <<"P", "M">>, <<"C", "N">>, <<"P", "C">>, <<"C", "C">>}

Digits == {Request(letters, <<digit>>, <<48 + digit>>) : letters \in Switches, digit \in 0..2}

OutputBytes ==
  {Outputs(letters, ports) : letters \in {<<"P", "O">>, <<"P", "E">>},
                             ports \in [0..7 -> 0..1]}

Positions == {drvm_set_position(type, data) : type \in {0, 2}, data \in Bounded}

(* The parameters that two digits can name.                                 *)
TwoDigits == {n \in Nat : 1 <= n /\ n <= 99}

Parameters == {drvm_set_parameter(param, value) : param \in TwoDigits, value \in Bounded}

Servos == {drvm_set_servo(mode) : mode \in 0..1}

Velocities == {drvm_set_velocity2(left, right) : left \in Bounded, right \in Bounded}

(* All that set something, ...                                              *)
Orders ==
  NumberLists \cup Digits \cup OutputBytes \cup Positions \cup Parameters \cup Servos
    \cup Velocities

(* ... and all that ask for words.                                          *)
ReadRequests ==
  {power_parameter_read, conveyor_parameter_read, conveyor_data_read, power_data_read,
   power_adc_read, power_version_read, power_sonar_read}

(* Requests of numbers are orders, as many as the code sends.               *)
LEMMA ListsAreOrders ==
  /\ \A letters \in Lists, a, b, c, d, e \in Bounded :
       /\ Listed(letters, <<a>>) \in Orders /\ Listed(letters, <<a, b>>) \in Orders
       /\ Listed(letters, <<a, b, c>>) \in Orders /\ Listed(letters, <<a, b, c, d, e>>) \in Orders
  /\ Listed(<<"C", "F">>, <<>>) \in Orders
<1>1. \A letters \in Lists, numbers \in Seq(Bounded) : Listed(letters, numbers) \in Orders
  BY DEF Orders, NumberLists
<1>2. /\ \A a, b, c, d, e \in Bounded :
           /\ <<a>> \in Seq(Bounded) /\ <<a, b>> \in Seq(Bounded)
           /\ <<a, b, c>> \in Seq(Bounded) /\ <<a, b, c, d, e>> \in Seq(Bounded)
      /\ <<>> \in Seq(Bounded)
  OBVIOUS
<1>3. <<"C", "F">> \in Lists
  BY DEF Lists
<1> QED
  BY <1>1, <1>2, <1>3, Zenon

(* So are switches, whatever their argument.                                *)
LEMMA SwitchesAreOrders ==
  ASSUME NEW letters \in Switches, NEW wanted
  PROVE  Switch(letters, wanted) \in Orders
<1>1. PICK digit \in 0..2 : digit = IF wanted = 1 THEN 1 ELSE 0
  OBVIOUS
<1>2. Switch(letters, wanted) = Request(letters, <<digit>>, <<48 + digit>>)
  BY <1>1 DEF Switch
<1> QED
  BY <1>2 DEF Orders, Digits

(* And so are the requests of the drive node.                               *)
LEMMA DriveOrders ==
  Drive_Command => \E request \in Orders : Order(request)
<1> SUFFICES ASSUME Drive_Command PROVE \E request \in Orders : Order(request)
  OBVIOUS
<1>1. /\ \A left, right \in Bounded : drvm_set_velocity2(left, right) \in Orders
      /\ \A type \in {0, 2}, data \in Bounded : drvm_set_position(type, data) \in Orders
      /\ \A param \in TwoDigits, value \in Bounded : drvm_set_parameter(param, value) \in Orders
      /\ \A mode \in 0..1 : drvm_set_servo(mode) \in Orders
  <2>1. \A left, right \in Bounded : drvm_set_velocity2(left, right) \in Velocities
    BY DEF Velocities
  <2>2. \A type \in {0, 2}, data \in Bounded : drvm_set_position(type, data) \in Positions
    BY DEF Positions
  <2>3. \A param \in TwoDigits, value \in Bounded : drvm_set_parameter(param, value) \in Parameters
    BY DEF Parameters
  <2>4. \A mode \in 0..1 : drvm_set_servo(mode) \in Servos
    BY DEF Servos
  <2> QED
    BY <2>1, <2>2, <2>3, <2>4 DEF Orders
<1>2. Numbers \subseteq Bounded /\ Speeds \subseteq Bounded /\ Params \subseteq TwoDigits
  <2>1. Numbers \subseteq Bounded /\ Speeds \subseteq Bounded /\ Params \subseteq 1..99
    BY RequestAssumption, Zenon
  <2>2. Params \subseteq TwoDigits
    BY <2>1 DEF TwoDigits
  <2> QED
    BY <2>1, <2>2
<1>3. CASE \E left, right \in Speeds : Order(drvm_set_velocity2(left, right))
  BY <1>1, <1>2, <1>3, Zenon
<1>4. CASE \E x, y, theta \in Numbers : Order(drvm_set_odometry(x, y, theta))
  <2>1. <<"C", "X">> \in Lists
    BY DEF Lists
  <2> QED
    BY <1>2, <1>4, <2>1, ListsAreOrders, Zenon DEF drvm_set_odometry
<1>5. CASE \E type \in {0, 2}, data \in Numbers : Order(drvm_set_position(type, data))
  BY <1>1, <1>2, <1>5, Zenon
<1>6. CASE \E param \in Params, value \in Numbers : Order(drvm_set_parameter(param, value))
  BY <1>1, <1>2, <1>6, Zenon
<1>7. CASE \E mode \in 0..1 : Order(drvm_set_servo(mode))
  BY <1>1, <1>7, Zenon
<1> QED
  BY <1>3, <1>4, <1>5, <1>6, <1>7 DEF Drive_Command

(* Every step of a service or of the loop sends an order, or a read request *)
(* whose answer it takes, or asks nothing.                                  *)
LEMMA RequestSteps ==
  ASSUME RequestNext
  PROVE  \/ \E request \in Orders : Order(request)
         \/ \E read \in ReadRequests : ReadService(read, read.words)
         \/ \E input, output \in 0..255 :
              power_read_tetra(Meets(<<0, 0, 0, 0, input, output>>))
         \/ \E meeting \in Otherwise : power_read_tetra(meeting)
         \/ Power_Get_IO_Status_Command
<1>1. Numbers \subseteq Bounded /\ Settings \subseteq [0..7 -> 0..1] /\ Inports \subseteq 0..255
  BY RequestAssumption, Zenon
<1>2. CASE \E a, b \in Numbers :
             \/ LED_Control_Command(a, b) \/ Power_Set_Single_Outport_Command(a, b)
             \/ Power_Set_Single_Enable_Command(a, b) \/ Power_Paramter_Write_Command(a, b)
             \/ Conveyor_Parameter_Write_Command(a, b)
             \/ \E c \in Numbers : LED_Toggle_Command(a, b, c, a, b)
  <2>1. {<<"L", "I">>, <<"P", "o">>, <<"P", "e">>, <<"L", "D">>, <<"C", "W">>} \subseteq Lists
    BY DEF Lists
  <2>2. PICK a \in Bounded, b \in Bounded :
             \/ LED_Control_Command(a, b) \/ Power_Set_Single_Outport_Command(a, b)
             \/ Power_Set_Single_Enable_Command(a, b) \/ WriteParameter(a, b)
             \/ \E c \in Bounded : LED_Toggle_Command(a, b, c, a, b)
    BY <1>1, <1>2, Zenon DEF Power_Paramter_Write_Command, Conveyor_Parameter_Write_Command
  <2>3. CASE LED_Control_Command(a, b)
    BY <2>1, <2>3, ListsAreOrders, Zenon DEF LED_Control_Command, power_set_light
  <2>4. CASE Power_Set_Single_Outport_Command(a, b)
    BY <2>1, <2>4, ListsAreOrders, Zenon
       DEF Power_Set_Single_Outport_Command, power_set_Single_OutputPort
  <2>5. CASE Power_Set_Single_Enable_Command(a, b)
    BY <2>1, <2>5, ListsAreOrders, Zenon
       DEF Power_Set_Single_Enable_Command, power_set_Single_Enable
  <2>6. CASE WriteParameter(a, b)
    <3>1. \/ Order(Listed(<<"C", "F">>, <<>>))
          \/ Order(Listed(<<"C", "W">>, <<a, b>>))
      BY <2>6 DEF WriteParameter, conveyor_parameter_write
    <3> QED
      BY <2>1, <3>1, ListsAreOrders, Zenon
  <2>7. CASE \E c \in Bounded : LED_Toggle_Command(a, b, c, a, b)
    BY <2>1, <2>7, ListsAreOrders, Zenon DEF LED_Toggle_Command, power_set_light_toggle
  <2> QED
    BY <2>2, <2>3, <2>4, <2>5, <2>6, <2>7, Zenon
<1>3. CASE \E a \in Numbers : Toggle_On_Command(a)
  <2>1. <<"L", "T">> \in Lists
    BY DEF Lists
  <2> QED
    BY <1>1, <1>3, <2>1, ListsAreOrders, Zenon DEF Toggle_On_Command, power_toggle_on
<1>4. CASE \E ports \in Settings :
             Power_Set_Outport_Command(ports) \/ Power_Set_Enable_Command(ports)
  <2>1. \A ports \in [0..7 -> 0..1] :
          Outputs(<<"P", "O">>, ports) \in Orders /\ Outputs(<<"P", "E">>, ports) \in Orders
    BY DEF Orders, OutputBytes
  <2> QED
    BY <1>1, <1>4, <2>1, Zenon
       DEF Power_Set_Outport_Command, Power_Set_Enable_Command, power_set_OutputPort,
           power_set_Enable
<1>5. CASE \E mode \in 0..3 :
             \/ Power_Wheel_Enable_Command(mode) \/ Conveyor_Auto_Movement_Command(mode)
             \/ Conveyor_Manual_Movement_Command(mode) \/ Power_Sonar_Command(mode)
  <2>1. {<<"P", "S">>, <<"P", "M">>, <<"C", "N">>} \subseteq Switches
    BY DEF Switches
  <2>2. PICK mode \in 0..3 :
             \/ Power_Wheel_Enable_Command(mode) \/ Conveyor_Auto_Movement_Command(mode)
             \/ Conveyor_Manual_Movement_Command(mode) \/ Power_Sonar_Command(mode)
    BY <1>5
  <2>3. CASE Power_Wheel_Enable_Command(mode)
    BY <2>1, <2>3, SwitchesAreOrders, Zenon
       DEF Power_Wheel_Enable_Command, power_wheel_enable
  <2>4. CASE Conveyor_Auto_Movement_Command(mode)
    BY <2>1, <2>4, SwitchesAreOrders, Zenon
       DEF Conveyor_Auto_Movement_Command, power_conveyor_movement
  <2>5. CASE Power_Sonar_Command(mode)
    BY <2>1, <2>5, SwitchesAreOrders, Zenon DEF Power_Sonar_Command, power_set_Ultrasonic
  <2>6. CASE Conveyor_Manual_Movement_Command(mode)
    <3>1. PICK digit \in 0..2 : digit = IF mode \in 1..2 THEN mode ELSE 0
      OBVIOUS
    <3>2. power_conveyor_manual_movement(mode) = Request(<<"C", "C">>, <<digit>>, <<48 + digit>>)
      BY <3>1 DEF power_conveyor_manual_movement
    <3>3. <<"C", "C">> \in Switches
      BY DEF Switches
    <3>4. power_conveyor_manual_movement(mode) \in Orders
      BY <3>2, <3>3 DEF Orders, Digits
    <3> QED
      BY <2>6, <3>4, Zenon DEF Conveyor_Manual_Movement_Command
  <2> QED
    BY <2>2, <2>3, <2>4, <2>5, <2>6, Zenon
<1>6. CASE Drive_Command
  BY <1>6, DriveOrders, Zenon
<1>7. CASE \/ Power_Paramter_Read_Command \/ Conveyor_Parameter_Read_Command
           \/ Conveyor_Data_Read_Command \/ Power_Data_Read_Command \/ Power_ADC_Read_Command
           \/ Power_Version_Read_Command \/ Power_Sonar_Read_Command
  <2>1. /\ power_parameter_read.words = 32 /\ conveyor_parameter_read.words = 21
        /\ conveyor_data_read.words = 14 /\ power_data_read.words = 12
        /\ power_adc_read.words = 8 /\ power_version_read.words = 8
        /\ power_sonar_read.words = 6
    BY DEF power_parameter_read, conveyor_parameter_read, conveyor_data_read, power_data_read,
           power_adc_read, power_version_read, power_sonar_read, Asking
  <2>2. /\ power_parameter_read \in ReadRequests /\ conveyor_parameter_read \in ReadRequests
        /\ conveyor_data_read \in ReadRequests /\ power_data_read \in ReadRequests
        /\ power_adc_read \in ReadRequests /\ power_version_read \in ReadRequests
        /\ power_sonar_read \in ReadRequests
    BY DEF ReadRequests
  <2> QED
    BY <1>7, <2>1, <2>2, Zenon
       DEF Power_Paramter_Read_Command, Conveyor_Parameter_Read_Command,
           Conveyor_Data_Read_Command, Power_Data_Read_Command, Power_ADC_Read_Command,
           Power_Version_Read_Command, Power_Sonar_Read_Command
<1>8. CASE \E input, output \in Inports :
             power_read_tetra(Meets(<<0, 0, 0, 0, input, output>>))
  <2>1. PICK input \in Inports, output \in Inports :
          power_read_tetra(Meets(<<0, 0, 0, 0, input, output>>))
    BY <1>8, Zenon
  <2>2. input \in 0..255 /\ output \in 0..255
    BY <1>1
  <2> QED
    BY <2>1, <2>2, Zenon
<1>9. CASE \E meeting \in Otherwise : power_read_tetra(meeting)
  BY <1>9, Zenon
<1>10. CASE Power_Get_IO_Status_Command
  BY <1>10, Zenon
<1> QED
  BY <1>2, <1>3, <1>4, <1>5, <1>6, <1>7, <1>8, <1>9, <1>10, Zenon DEF RequestNext

(* An order has one of seven forms.                                         *)
LEMMA OrderForms ==
  ASSUME NEW request \in Orders
  PROVE  \/ \E letters \in Lists, numbers \in Seq(Bounded) : request = Listed(letters, numbers)
         \/ \E letters \in Switches, digit \in 0..2 :
              request = Request(letters, <<digit>>, <<48 + digit>>)
         \/ \E letters \in {<<"P", "O">>, <<"P", "E">>}, ports \in [0..7 -> 0..1] :
              request = Outputs(letters, ports)
         \/ \E type \in {0, 2}, data \in Bounded : request = drvm_set_position(type, data)
         \/ \E param \in TwoDigits, value \in Bounded : request = drvm_set_parameter(param, value)
         \/ \E mode \in 0..1 : request = drvm_set_servo(mode)
         \/ \E left, right \in Bounded : request = drvm_set_velocity2(left, right)
<1>1. CASE request \in NumberLists
  BY <1>1 DEF NumberLists
<1>2. CASE request \in Digits
  BY <1>2 DEF Digits
<1>3. CASE request \in OutputBytes
  BY <1>3 DEF OutputBytes
<1>4. CASE request \in Positions
  BY <1>4 DEF Positions
<1>5. CASE request \in Parameters
  BY <1>5 DEF Parameters
<1>6. CASE request \in Servos
  BY <1>6 DEF Servos
<1>7. CASE request \in Velocities
  BY <1>7 DEF Velocities
<1> QED
  BY <1>1, <1>2, <1>3, <1>4, <1>5, <1>6, <1>7 DEF Orders

(* Only the loop asks for the state with PQ.                                *)
LEMMA ConcatParts ==
  ASSUME NEW S, NEW a \in Seq(S), NEW b \in Seq(S)
  PROVE  /\ a \o b \in Seq(S) /\ Len(a \o b) = Len(a) + Len(b)
         /\ \A i \in 1..Len(a) : (a \o b)[i] = a[i]
         /\ \A i \in 1..Len(b) : (a \o b)[Len(a) + i] = b[i]
  BY ConcatProperties

(* No order has the letters of the loop's own request.                      *)
LEMMA OnlyTheLoop ==
  /\ \A request \in Orders : request.letters # <<"P", "Q">>
  /\ \A read \in ReadRequests : read.letters # <<"P", "Q">> /\ read.words \in 1..32
<1> DEFINE All == Lists \cup Switches
                   \cup {<<"P", "O">>, <<"P", "E">>, <<"B", "D">>, <<"X", "B">>, <<"D", "B">>,
                         <<"B", "V">>}
<1>1. \A letters \in All : letters # <<"P", "Q">>
  BY DEF Lists, Switches
<1>2. ASSUME NEW letters \in All, NEW numbers, NEW body
      PROVE  Request(letters, numbers, body).letters \in All
  <2> HIDE DEF All
  <2> QED
    BY DEF Request
<1>3. ASSUME NEW request \in Orders
      PROVE  request.letters # <<"P", "Q">>
  <2>1. \E letters \in All : \E numbers, body : request = Request(letters, numbers, body)
    <3>1. \A letters \in Lists \cup Switches : letters \in All
      OBVIOUS
    <3>2. /\ <<"P", "O">> \in All /\ <<"P", "E">> \in All /\ <<"B", "D">> \in All
          /\ <<"X", "B">> \in All /\ <<"D", "B">> \in All /\ <<"B", "V">> \in All
      OBVIOUS
    <3> HIDE DEF All
    <3>3. CASE \E letters \in Lists, numbers \in Seq(Bounded) : request = Listed(letters, numbers)
      BY <3>1, <3>3 DEF Listed
    <3>4. CASE \E letters \in Switches, digit \in 0..2 :
                 request = Request(letters, <<digit>>, <<48 + digit>>)
      BY <3>1, <3>4
    <3>5. CASE \E letters \in {<<"P", "O">>, <<"P", "E">>}, ports \in [0..7 -> 0..1] :
                 request = Outputs(letters, ports)
      BY <3>2, <3>5 DEF Outputs
    <3>6. CASE \E type \in {0, 2}, data \in Bounded : request = drvm_set_position(type, data)
      BY <3>2, <3>6 DEF drvm_set_position
    <3>7. CASE \E param \in TwoDigits, value \in Bounded :
                 request = drvm_set_parameter(param, value)
      BY <3>2, <3>7 DEF drvm_set_parameter
    <3>8. CASE \E mode \in 0..1 : request = drvm_set_servo(mode)
      BY <3>2, <3>8 DEF drvm_set_servo
    <3>9. CASE \E left, right \in Bounded : request = drvm_set_velocity2(left, right)
      BY <3>2, <3>9 DEF drvm_set_velocity2
    <3> QED
      BY <3>3, <3>4, <3>5, <3>6, <3>7, <3>8, <3>9, OrderForms, Zenon
  <2> HIDE DEF All
  <2>2. request.letters \in All
    BY <1>2, <2>1
  <2> QED
    BY <1>1, <2>2
<1>4. \A read \in ReadRequests : read.letters # <<"P", "Q">> /\ read.words \in 1..32
  BY DEF ReadRequests, power_parameter_read, conveyor_parameter_read, conveyor_data_read,
         power_data_read, power_adc_read, power_version_read, power_sonar_read, Asking
<1> QED
  BY <1>3, <1>4

(* What is copied into the globals and from there into the reply.           *)
LEMMA CopiedOut ==
  ASSUME NEW n \in 1..32, NEW globals, NEW answer \in Seq(Nat), Len(answer) = n,
         \A k \in 0..31 : k < n => globals[k] = answer[k + 1]
  PROVE  [k \in 1..n |-> globals[k - 1]] = answer
<1>1. ASSUME NEW k \in 1..n
      PROVE  globals[k - 1] = answer[k]
  <2>1. k - 1 \in 0..31 /\ k - 1 < n /\ (k - 1) + 1 = k
    OBVIOUS
  <2> QED
    BY <2>1
<1> QED
  BY <1>1

(* Globals that are 0 give a reply of zeros.                                *)
LEMMA ZerosOut ==
  ASSUME NEW n \in 1..32, NEW globals, \A k \in 0..31 : k < n => globals[k] = 0
  PROVE  \A j \in DOMAIN [k \in 1..n |-> globals[k - 1]] : [k \in 1..n |-> globals[k - 1]][j] = 0
<1>1. ASSUME NEW k \in 1..n
      PROVE  globals[k - 1] = 0
  <2>1. k - 1 \in 0..31 /\ k - 1 < n
    OBVIOUS
  <2> QED
    BY <2>1
<1> QED
  BY <1>1

(* The bytes of an answer, by what they frame.                              *)
Around(data, size, lrc) == <<STX, 0, size>> \o data \o <<ETX, lrc>>

Concat(c, S, a, b) ==
  /\ c \in Seq(S) /\ Len(c) = Len(a) + Len(b)
  /\ \A i \in 1..Len(a) : c[i] = a[i]
  /\ \A i \in 1..Len(b) : c[Len(a) + i] = b[i]

LEMMA ConcatOf ==
  ASSUME NEW S, NEW a \in Seq(S), NEW b \in Seq(S)
  PROVE  Concat(a \o b, S, a, b)
  BY ConcatProperties DEF Concat

Frames(b, data, m, lrc) ==
  /\ b \in Seq(Octet) /\ Len(b) = m + 5
  /\ b[1] = STX /\ b[2] = 0 /\ b[3] = m /\ b[m + 5] = lrc
  /\ \A i \in 1..m : b[3 + i] = data[i]

LEMMA AroundBytes ==
  ASSUME NEW data \in Seq(Octet), NEW m \in 0..255, Len(data) = m, NEW lrc \in Octet
  PROVE  Frames(Around(data, m, lrc), data, m, lrc)
<1>1. PICK a \in Seq(Octet) :
        a = <<STX, 0, m>> /\ Len(a) = 3 /\ a[1] = STX /\ a[2] = 0 /\ a[3] = m
  <2>1. STX \in Octet /\ 0 \in Octet /\ m \in Octet
    BY DEF STX, Octet
  <2>2. /\ <<STX, 0, m>> \in Seq(Octet) /\ Len(<<STX, 0, m>>) = 3
        /\ <<STX, 0, m>>[1] = STX /\ <<STX, 0, m>>[2] = 0 /\ <<STX, 0, m>>[3] = m
    BY <2>1
  <2> QED
    BY <2>2, Zenon
<1>2. PICK c \in Seq(Octet) : c = <<ETX, lrc>> /\ Len(c) = 2 /\ c[2] = lrc
  <2>1. ETX \in Octet
    BY DEF ETX, Octet
  <2>2. <<ETX, lrc>> \in Seq(Octet) /\ Len(<<ETX, lrc>>) = 2 /\ <<ETX, lrc>>[2] = lrc
    BY <2>1
  <2> QED
    BY <2>2, Zenon
<1>3. PICK b : b = a \o data /\ Concat(b, Octet, a, data)
  BY ConcatOf, Zenon
<1>4. PICK d : d = b \o c /\ Concat(d, Octet, b, c)
  <2>1. b \in Seq(Octet)
    BY <1>3, Zenon DEF Concat
  <2> QED
    BY <2>1, ConcatOf, Zenon
<1>8. b \in Seq(Octet) /\ Len(b) = 3 + m /\ d \in Seq(Octet) /\ Len(d) = (3 + m) + 2
  BY <1>1, <1>2, <1>3, <1>4 DEF Concat
<1>5. d = Around(data, m, lrc)
  BY <1>1, <1>2, <1>3, <1>4, Zenon DEF Around
<1>6. d[1] = STX /\ d[2] = 0 /\ d[3] = m /\ d[m + 5] = lrc
  <2>1. 1 \in 1..3 + m /\ 2 \in 1..3 + m /\ 3 \in 1..3 + m /\ (3 + m) + 2 = m + 5
    OBVIOUS
  <2> QED
    BY <1>1, <1>2, <1>3, <1>4, <1>8, <2>1 DEF Concat
<1>7. ASSUME NEW i \in 1..m PROVE d[3 + i] = data[i]
  <2>1. 3 + i \in 1..3 + m
    OBVIOUS
  <2>2. d[3 + i] = b[3 + i]
    BY <1>4, <1>8, <2>1, Zenon DEF Concat
  <2>3. b[3 + i] = data[i]
    BY <1>1, <1>3, Zenon DEF Concat
  <2> QED
    BY <2>2, <2>3, Zenon
<1>9. Len(d) = m + 5
  BY <1>8
<1> QED
  BY <1>5, <1>6, <1>7, <1>8, <1>9, Zenon DEF Frames

(* A read that meets such bytes takes them all, since the first is STX and  *)
(* the length is right, ...                                                 *)
LEMMA TakenWhole ==
  ASSUME NEW b \in Seq(Octet), NEW m \in 0..255, Len(b) = m + 5,
         b[1] = STX, b[2] = 0, b[3] = m
  PROVE  Taken(b) = b /\ Length(b) = m /\ ~Passed(b)
<1> DEFINE I == {i \in 1..Len(b) : b[i] = STX}
<1>1. Begin(b) = IF I # {} THEN Min(I) ELSE 0
  BY Zenon DEF Begin, SelectInSeq
<1>2. Min(I) = 1 /\ I # {}
  <2>1. 1 \in I /\ \A i \in I : 1 =< i
    OBVIOUS
  <2>2. \A i \in I : (\A j \in I : i =< j) => i = 1
    BY <2>1
  <2> HIDE DEF I
  <2> QED
    BY <2>1, <2>2, Zenon DEF Min
<1>3. Length(b) = m /\ Byte(b, 1) = 0
  BY DEF Length, Byte
<1>4. SubSeq(b, 1, Len(b)) = b
  BY SubSeqFull
<1>5. Length(b) + 5 = Len(b) /\ Len(b) \in Nat
  BY <1>3
<1>6. Taken(b) = SubSeq(b, 1, IF Length(b) + 5 < Len(b) THEN Length(b) + 5 ELSE Len(b))
  <2>1. Begin(b) = 1 /\ ~(Begin(b) = 0)
    BY <1>1, <1>2
  <2>2. SubSeq(b, Begin(b), Len(b)) = b
    BY <1>4, <2>1, Zenon
  <2> QED
    BY <2>1, <2>2, Zenon DEF Taken
<1>7. Taken(b) = b
  BY <1>4, <1>5, <1>6
<1> QED
  BY <1>3, <1>7 DEF Passed, STX

(* ... and finds the LRC right.                                             *)
LEMMA CheckedWhole ==
  ASSUME NEW data \in Seq(Octet), NEW m \in 0..255, Len(data) = m
  PROVE  Checked(Around(data, m, make_lrc(data)))
<1>1. PICK lrc \in Octet : lrc = make_lrc(data)
  <2>1. 0 \in Octet
    BY DEF Octet
  <2> QED
    BY <2>1, LrcAppend
<1>2. PICK b : b = Around(data, m, lrc) /\ Frames(b, data, m, lrc)
  BY AroundBytes, Zenon
<1>3. Length(b) = m
  BY <1>2, TakenWhole, Zenon DEF Frames
<1>4. SubSeq(b, 4, m + 3) = data
  <2>1. SubSeq(b, 4, m + 3) = [i \in 1..m |-> b[3 + i]]
    <3>1. SubSeq(b, 4, m + 3) = [i \in 1..(1 + (m + 3) - 4) |-> b[4 + i - 1]]
      BY <1>2 DEF Frames
    <3>2. 1 + (m + 3) - 4 = m /\ \A i \in 1..m : 4 + i - 1 = 3 + i
      OBVIOUS
    <3> QED
      BY <3>1, <3>2
  <2>2. data = [i \in 1..m |-> data[i]]
    OBVIOUS
  <2> QED
    BY <1>2, <2>1, <2>2 DEF Frames
<1> QED
  BY <1>1, <1>2, <1>3, <1>4 DEF Checked, Frames

(* Two bytes for every word.                                                *)
Halves(data, words, n) ==
  /\ data \in Seq(Octet) /\ Len(data) = 2 * n
  /\ \A k \in 0..31 : k < n => /\ data[2 * k + 1] = words[k + 1] \div 256
                               /\ data[2 * k + 2] = words[k + 1] % 256

LEMMA DataBytes ==
  ASSUME NEW n \in 0..32, NEW words \in [1..n -> Short]
  PROVE  /\ words \in Seq(Nat) /\ Len(words) = n
         /\ Halves(Data(words), words, n)
<1>1. words \in Seq(Nat) /\ Len(words) = n
  <2>1. words \in [1..n -> Nat] /\ n \in Nat
    BY DEF Short
  <2> QED
    BY <2>1
<1>2. PICK m \in Nat : m = 2 * n
  OBVIOUS
<1>3. Data(words) = [j \in 1..m |-> IF j % 2 = 1 THEN words[(j + 1) \div 2] \div 256
                                    ELSE words[j \div 2] % 256]
  BY <1>1, <1>2, Zenon DEF Data
<1>4. ASSUME NEW j \in 1..m
      PROVE  (IF j % 2 = 1 THEN words[(j + 1) \div 2] \div 256 ELSE words[j \div 2] % 256) \in Octet
  <2>0. \A w \in Short : w \div 256 \in Octet /\ w % 256 \in Octet
    BY DEF Short, Octet
  <2>1. CASE j % 2 = 1
    <3>1. (j + 1) \div 2 \in 1..n
      BY <1>2, <2>1
    <3>2. words[(j + 1) \div 2] \in Short
      BY <3>1
    <3> QED
      BY <2>0, <2>1, <3>2
  <2>2. CASE j % 2 # 1
    <3>1. j \div 2 \in 1..n
      BY <1>2, <2>2
    <3>2. words[j \div 2] \in Short
      BY <3>1
    <3> QED
      BY <2>0, <2>2, <3>2
  <2> QED
    BY <2>1, <2>2
<1>5. Data(words) \in [1..m -> Octet]
  BY <1>3, <1>4
<1>6. Data(words) \in Seq(Octet) /\ Len(Data(words)) = m
  BY <1>5
<1>7. ASSUME NEW k \in 0..31, k < n
      PROVE  /\ Data(words)[2 * k + 1] = words[k + 1] \div 256
             /\ Data(words)[2 * k + 2] = words[k + 1] % 256
  <2>1. /\ 2 * k + 1 \in 1..m /\ 2 * k + 2 \in 1..m
        /\ (2 * k + 1) % 2 = 1 /\ ((2 * k + 1) + 1) \div 2 = k + 1
        /\ (2 * k + 2) % 2 = 0 /\ (2 * k + 2) \div 2 = k + 1
    BY <1>2, <1>7
  <2> QED
    BY <1>3, <2>1
<1> QED
  BY <1>1, <1>2, <1>6, <1>7, Zenon DEF Halves

(* A read that meets its own answer gets the words as they were sent.       *)
LEMMA WordOfAnswer ==
  ASSUME NEW n \in 0..32, NEW words \in [1..n -> Short]
  PROVE  /\ ~Passed(Taken(Answered(words))) /\ Checked(Taken(Answered(words)))
         /\ \A k \in 0..31 : k < n => Word(Taken(Answered(words)), k) = words[k + 1]
<1>1. PICK m \in 0..255 : m = 2 * n
  OBVIOUS
<1>2. PICK data : data = Data(words) /\ Halves(data, words, n)
  BY DataBytes, Zenon
<1>9. data \in Seq(Octet) /\ Len(data) = m
  BY <1>1, <1>2, Zenon DEF Halves
<1>3. Answered(words) = Around(data, m, make_lrc(data))
  <2>1. m \div 256 = 0 /\ m % 256 = m
    OBVIOUS
  <2> QED
    BY <1>2, <1>9, <2>1, Zenon DEF Answered, Around
<1>4. make_lrc(data) \in Octet
  <2>1. 0 \in Octet
    BY DEF Octet
  <2> QED
    BY <1>9, <2>1, LrcAppend
<1>5. PICK b : b = Around(data, m, make_lrc(data)) /\ Frames(b, data, m, make_lrc(data))
  BY <1>4, <1>9, AroundBytes, Zenon
<1>6. Taken(b) = b /\ ~Passed(b)
  BY <1>5, TakenWhole, Zenon DEF Frames
<1>7. Checked(b)
  BY <1>5, <1>9, CheckedWhole, Zenon
<1>8. ASSUME NEW k \in 0..31, k < n
      PROVE  Word(b, k) = words[k + 1]
  <2>0. Len(b) = m + 5
    BY <1>5, Zenon DEF Frames
  <2>1. /\ 3 + 2 * k < Len(b) /\ 4 + 2 * k < Len(b)
        /\ 2 * k + 1 \in 1..m /\ 2 * k + 2 \in 1..m
        /\ (3 + 2 * k) + 1 = 3 + (2 * k + 1) /\ (4 + 2 * k) + 1 = 3 + (2 * k + 2)
    BY <1>1, <1>8, <2>0
  <2>2. Byte(b, 3 + 2 * k) = data[2 * k + 1] /\ Byte(b, 4 + 2 * k) = data[2 * k + 2]
    BY <1>5, <2>1, Zenon DEF Byte, Frames
  <2>3. PICK w \in Nat : w = words[k + 1]
    <3>1. k + 1 \in 1..n
      BY <1>8
    <3> QED
      BY <3>1 DEF Short
  <2>4. (w % 256) + 256 * (w \div 256) = w
    OBVIOUS
  <2>5. data[2 * k + 1] = w \div 256 /\ data[2 * k + 2] = w % 256
    BY <1>2, <1>8, <2>3, Zenon DEF Halves
  <2>6. Word(b, k) = (w % 256) + 256 * (w \div 256)
    BY <2>2, <2>5, Zenon DEF Word
  <2> QED
    BY <2>3, <2>4, <2>6, Zenon
<1> QED
  BY <1>3, <1>5, <1>6, <1>7, <1>8, Zenon

(* A read that meets silence finds the zeros of the cleared buffer.         *)
LEMMA WordOfSilence ==
  /\ ~Passed(Taken(<<>>)) /\ \A k \in 0..31 : Word(Taken(<<>>), k) = 0
<1> DEFINE I == {i \in 1..Len(<<>>) : <<>>[i] = STX}
<1>1. Begin(<<>>) = IF I # {} THEN Min(I) ELSE 0
  BY Zenon DEF Begin, SelectInSeq
<1>2. I = {}
  OBVIOUS
<1>3. Taken(<<>>) = <<>>
  BY <1>1, <1>2 DEF Taken
<1>4. \A i \in Nat : Byte(Taken(<<>>), i) = 0
  BY <1>3 DEF Byte
<1> HIDE DEF I
<1>5. \A k \in 0..31 : Word(Taken(<<>>), k) = 0
  <2>1. \A k \in 0..31 : 4 + 2 * k \in Nat /\ 3 + 2 * k \in Nat
    OBVIOUS
  <2>2. \A k \in 0..31 :
          Byte(Taken(<<>>), 4 + 2 * k) = 0 /\ Byte(Taken(<<>>), 3 + 2 * k) = 0
    BY <1>4, <2>1, Zenon
  <2>3. 0 + 256 * 0 = 0
    OBVIOUS
  <2> QED
    BY <2>2, <2>3, Zenon DEF Word
<1>6. 1 \in Nat /\ 0 # STX
  BY DEF STX
<1>7. ~Passed(Taken(<<>>))
  BY <1>4, <1>6, Zenon DEF Passed
<1> QED
  BY <1>5, <1>7, Zenon

(* A read service replies with its own answer, or with zeros.               *)
LEMMA ReplyStep ==
  ASSUME NEW read \in ReadRequests, ReadService(read, read.words)
  PROVE  RepliesAreAnswers'
<1>1. PICK n \in 1..32 : n = read.words
  BY OnlyTheLoop
<1>2. ASSUME NEW meeting, Reply(read, meeting, n)
      PROVE  /\ asked'.letters # <<"P", "Q">>
             /\ board' = meeting.words /\ met' = meeting.kind
             /\ response' = [k \in 1..n |-> m_iParam'[k - 1]]
             /\ ~Passed(meeting.buffer)
                  => \A k \in 0..31 : k < n => m_iParam'[k] = Word(meeting.buffer, k)
  BY <1>1, <1>2, OnlyTheLoop DEF Reply, Ask, Request
<1>3. ASSUME NEW answer \in AnswersTo(read), Reply(read, Meets(answer), n)
      PROVE  RepliesAreAnswers'
  <2>1. answer \in [1..n -> Short]
    <3>1. PICK words \in Words : answer = [k \in 1..n |-> words[k]]
      BY <1>1 DEF AnswersTo
    <3>2. words \in [1..32 -> Short]
      BY RequestAssumption, Zenon
    <3>3. \A k \in 1..n : words[k] \in Short
      BY <3>2
    <3> QED
      BY <3>1, <3>3
  <2>2. n \in 0..32 /\ answer \in Seq(Nat) /\ Len(answer) = n
    <3>1. n \in 0..32
      OBVIOUS
    <3> QED
      BY <2>1, <3>1, DataBytes, Zenon
  <2>3. /\ Meets(answer).buffer = Taken(Answered(answer)) /\ Meets(answer).words = answer
        /\ Meets(answer).kind = "answer"
    BY DEF Meets, Meeting
  <2>4. PICK globals : globals = m_iParam'
    OBVIOUS
  <2>5. \A k \in 0..31 : k < n => globals[k] = answer[k + 1]
    <3>1. /\ ~Passed(Meets(answer).buffer)
          /\ \A k \in 0..31 : k < n => Word(Meets(answer).buffer, k) = answer[k + 1]
      BY <2>1, <2>2, <2>3, WordOfAnswer, Zenon
    <3>2. \A k \in 0..31 : k < n => globals[k] = Word(Meets(answer).buffer, k)
      BY <1>2, <1>3, <2>4, <3>1, Zenon
    <3> QED
      BY <3>1, <3>2, Zenon
  <2>6. [k \in 1..n |-> globals[k - 1]] = answer
    BY <2>2, <2>5, CopiedOut
  <2>7. response' = answer /\ board' = answer /\ met' = "answer"
    BY <1>2, <1>3, <2>3, <2>4, <2>6, Zenon
  <2> QED
    BY <1>2, <1>3, <2>7 DEF RepliesAreAnswers
<1>4. ASSUME NEW meeting \in Otherwise, Reply(read, meeting, n)
      PROVE  RepliesAreAnswers'
  <2>1. CASE meeting = Meeting("silence", <<>>, <<>>)
    <3>1. meeting.buffer = Taken(<<>>) /\ meeting.kind = "silence"
      BY <2>1 DEF Meeting
    <3>2. PICK globals : globals = m_iParam'
      OBVIOUS
    <3>3. \A k \in 0..31 : k < n => globals[k] = 0
      BY <1>2, <1>4, <3>1, <3>2, WordOfSilence, Zenon
    <3>5. \A j \in DOMAIN [k \in 1..n |-> globals[k - 1]] : [k \in 1..n |-> globals[k - 1]][j] = 0
      BY <3>3, ZerosOut, Zenon
    <3>6. response' = [k \in 1..n |-> globals[k - 1]]
      BY <1>2, <1>4, <3>2, Zenon
    <3>7. \A k \in DOMAIN response' : response'[k] = 0
      BY <3>5, <3>6, Zenon
    <3>4. met' = "silence"
      BY <1>2, <1>4, <3>1
    <3> QED
      BY <3>4, <3>7 DEF RepliesAreAnswers
  <2>2. CASE \E bytes \in Strays : meeting = Meeting("stray", <<>>, bytes)
    <3>1. met' = "stray"
      BY <1>2, <1>4, <2>2 DEF Meeting
    <3> QED
      BY <3>1 DEF RepliesAreAnswers
  <2> QED
    BY <2>1, <2>2 DEF Otherwise
<1>5. CASE Unwritten(read, n)
  BY <1>5 DEF Unwritten, RepliesAreAnswers
<1> QED
  BY <1>1, <1>3, <1>4, <1>5 DEF ReadService

(* The loop takes inputs and outputs from its own answer.                   *)
LEMMA StateStep ==
  ASSUME NEW input \in 0..255, NEW output \in 0..255,
         power_read_tetra(Meets(<<0, 0, 0, 0, input, output>>))
  PROVE  RepliesAreAnswers'
<1>1. PICK answer \in [1..6 -> Short] : /\ answer = <<0, 0, 0, 0, input, output>>
                                        /\ answer[5] = input /\ answer[6] = output
  BY DEF Short
<1>2. PICK buffer : buffer = Taken(Answered(answer))
  OBVIOUS
<1>3. /\ Meets(answer).buffer = buffer /\ Meets(answer).words = answer
      /\ Meets(answer).kind = "answer"
  BY <1>2 DEF Meets, Meeting
<1>4. /\ ~Passed(buffer) /\ Checked(buffer)
      /\ Word(buffer, 4) = input /\ Word(buffer, 5) = output
  <2>1. 6 \in 0..32 /\ 4 \in 0..31 /\ 5 \in 0..31 /\ 4 < 6 /\ 5 < 6 /\ 4 + 1 = 5 /\ 5 + 1 = 6
    OBVIOUS
  <2>2. /\ ~Passed(buffer) /\ Checked(buffer)
        /\ \A k \in 0..31 : k < 6 => Word(buffer, k) = answer[k + 1]
    BY <1>2, <2>1, WordOfAnswer
  <2> QED
    BY <1>1, <2>1, <2>2
<1>5. power_read_tetra(Meets(answer))
  BY <1>1, Zenon
<1>6. Publishable(Meets(answer))
  BY <1>3, <1>4 DEF Publishable
<1>7. /\ asked'.letters = <<"P", "Q">> /\ board' = answer /\ response' = <<>>
      /\ met' = "answer"
      /\ gpio_msg' = [input |-> decimal2binary(input), output |-> decimal2binary(output)]
  BY <1>3, <1>4, <1>5, <1>6 DEF power_read_tetra, Ask, Request
<1>8. Value(decimal2binary(input)) = input /\ Value(decimal2binary(output)) = output
  BY ValueOfBits DEF Octet
<1> QED
  BY <1>1, <1>7, <1>8 DEF RepliesAreAnswers

(* A read that meets its answer replies with it, and one that meets silence *)
(* with zeros, whatever other services have left in the shared globals, for *)
(* any answers and whatever the reads between have met; and the bits of     *)
(* inputs and outputs that the loop publishes are those of the words it was *)
(* answered.                                                                *)
THEOREM NoStaleReply == RequestSpec => []RepliesAreAnswers
<1>1. RequestInit => RepliesAreAnswers
  BY DEF RequestInit, RepliesAreAnswers
<1>2. RepliesAreAnswers /\ [RequestNext]_requestVars => RepliesAreAnswers'
  <2> SUFFICES ASSUME RepliesAreAnswers, [RequestNext]_requestVars PROVE RepliesAreAnswers'
    OBVIOUS
  <2>1. ASSUME NEW request \in Orders, Order(request)
        PROVE  RepliesAreAnswers'
    BY <2>1 DEF Order, RepliesAreAnswers
  <2>2. ASSUME NEW meeting \in Otherwise, power_read_tetra(meeting)
        PROVE  RepliesAreAnswers'
    <3>1. met' = meeting.kind /\ response' = <<>>
      BY <2>2, Zenon DEF power_read_tetra
    <3>2. meeting.kind \in {"silence", "stray"}
      BY DEF Otherwise, Meeting
    <3> QED
      BY <3>1, <3>2 DEF RepliesAreAnswers
  <2>3. CASE Power_Get_IO_Status_Command
    BY <2>3 DEF Power_Get_IO_Status_Command, RepliesAreAnswers
  <2>4. CASE UNCHANGED requestVars
    BY <2>4 DEF requestVars, RepliesAreAnswers
  <2>5. CASE RequestNext
    BY <2>1, <2>2, <2>3, <2>5, RequestSteps, ReplyStep, StateStep, Zenon
  <2> QED
    BY <2>4, <2>5
<1> QED
  BY <1>1, <1>2, PTL DEF RequestSpec

(* Short sequences: of one element, ...                                     *)
LEMMA One ==
  ASSUME NEW S, NEW a \in S
  PROVE  <<a>> \in Seq(S) /\ Len(<<a>>) = 1 /\ <<a>>[1] = a
  OBVIOUS

(* ... and of two.                                                          *)
LEMMA Two ==
  ASSUME NEW S, NEW a \in S, NEW b \in S
  PROVE  <<a, b>> \in Seq(S) /\ Len(<<a, b>>) = 2 /\ <<a, b>>[1] = a /\ <<a, b>>[2] = b
  OBVIOUS

(* c is a, of m elements, followed by b, of n.                              *)
Follows(c, a, m, b, n) ==
  /\ Len(c) = m + n
  /\ \A i \in 1..m : c[i] = a[i]
  /\ \A i \in 1..n : c[m + i] = b[i]

LEMMA ConcatAt ==
  ASSUME NEW S, NEW a \in Seq(S), NEW b \in Seq(S), NEW m \in Nat, m = Len(a),
         NEW n \in Nat, n = Len(b)
  PROVE  a \o b \in Seq(S) /\ Follows(a \o b, a, m, b, n)
  BY ConcatParts DEF Follows

(* Concatenation of bytes is associative.                                   *)
LEMMA Associative ==
  \A s, t, u \in Seq(Octet) : (s \o t) \o u = s \o (t \o u)
  BY ConcatAssociative

(* Behind its first element, a sequence is the rest.                        *)
LEMMA TailOfConcat ==
  ASSUME NEW S, NEW x \in S, NEW s \in Seq(S)
  PROVE  Tail(<<x>> \o s) = s
<1>1. <<x>> \in Seq(S) /\ Len(<<x>>) = 1 /\ <<x>> # <<>>
  OBVIOUS
<1>2. PICK t \in Seq(S) : t = <<x>> \o s
  BY <1>1, ConcatParts
<1>3. Len(t) = 1 + Len(s) /\ \A i \in 1..Len(s) : t[1 + i] = s[i]
  BY <1>1, <1>2, ConcatParts
<1>4. Len(s) \in Nat /\ t # <<>>
  BY <1>3, LenProperties
<1>5. Tail(t) \in Seq(S) /\ Len(Tail(t)) = Len(s) /\ \A i \in 1..Len(s) : Tail(t)[i] = t[i + 1]
  BY <1>3, <1>4, HeadTailProperties
<1>6. \A i \in 1..Len(s) : Tail(t)[i] = s[i]
  BY <1>3, <1>4, <1>5
<1>7. Tail(t) = s
  BY <1>5, <1>6, SeqEqual
<1> QED
  BY <1>2, <1>7

(* bytes carry a body of n bytes.                                           *)
Carries(bytes, letters, body, n) ==
  /\ bytes \in Seq(Octet) /\ Len(bytes) = n + 5
  /\ bytes[1] = STX /\ bytes[n + 4] = ETX
  /\ bytes[2] = Ascii[letters[1]] /\ bytes[3] = Ascii[letters[2]]
  /\ \A i \in 1..n : bytes[3 + i] = body[i]
  /\ make_lrc(Tail(bytes)) = 0

(* Where the bytes of a framed body are, and that the LRC closes it.        *)
LEMMA FramedFacts ==
  ASSUME NEW letters, NEW body \in Seq(Octet),
         Ascii[letters[1]] \in Octet, Ascii[letters[2]] \in Octet,
         NEW n \in Nat, n = Len(body)
  PROVE  Carries(Framed(letters, body), letters, body, n)
<1>1. STX \in Octet /\ ETX \in Octet
  BY DEF Octet, STX, ETX
<1>2. PICK a \in Octet, b \in Octet : a = Ascii[letters[1]] /\ b = Ascii[letters[2]]
  BY <1>1
<1>3. Len(body) = n
  OBVIOUS
<1>4. PICK pair : pair = <<a, b>>
  OBVIOUS
<1>5. pair \in Seq(Octet) /\ Len(pair) = 2 /\ pair[1] = a /\ pair[2] = b
  BY <1>4, Two, Zenon
<1>6. PICK end : end = <<ETX>>
  OBVIOUS
<1>7. end \in Seq(Octet) /\ Len(end) = 1 /\ end[1] = ETX
  BY <1>1, <1>6, One, Zenon
<1>8. PICK front : front = pair \o body
  OBVIOUS
<1>9. front \in Seq(Octet) /\ Follows(front, pair, 2, body, n)
  <2>1. 2 \in Nat /\ 2 = Len(pair)
    BY <1>5
  <2>2. pair \in Seq(Octet)
    BY <1>5
  <2> QED
    BY <1>3, <1>8, <2>1, <2>2, ConcatAt, Zenon
<1>10. PICK text : text = front \o end
  OBVIOUS
<1>11. text \in Seq(Octet) /\ Follows(text, front, 2 + n, end, 1)
  <2>1. 2 + n \in Nat /\ 2 + n = Len(front) /\ 1 \in Nat /\ 1 = Len(end)
    BY <1>7, <1>9 DEF Follows
  <2>2. front \in Seq(Octet) /\ end \in Seq(Octet)
    BY <1>7, <1>9
  <2> QED
    BY <1>10, <2>1, <2>2, ConcatAt, Zenon
<1>12. PICK lrc \in Octet : lrc = make_lrc(text)
  BY <1>11, LrcAppend, Zenon
<1>13. PICK rest : rest = Append(text, lrc)
  OBVIOUS
<1>14. /\ rest \in Seq(Octet) /\ Len(rest) = n + 4
       /\ \A i \in 1..n + 3 : rest[i] = text[i]
  BY <1>11, <1>13, AppendProperties DEF Follows
<1>15. PICK start : start = <<STX>>
  OBVIOUS
<1>16. start \in Seq(Octet) /\ Len(start) = 1 /\ start[1] = STX
  BY <1>1, <1>15, One, Zenon
<1>17. PICK bytes : bytes = start \o rest
  OBVIOUS
<1>18. bytes \in Seq(Octet) /\ Follows(bytes, start, 1, rest, n + 4)
  <2>1. n + 4 \in Nat /\ 1 \in Nat /\ start \in Seq(Octet) /\ rest \in Seq(Octet)
    BY <1>14, <1>16
  <2>2. n + 4 = Len(rest) /\ 1 = Len(start)
    BY <1>14, <1>16
  <2> QED
    BY <1>17, <2>1, <2>2, ConcatAt, Zenon
<1>19. Framed(letters, body) = bytes
  <2>1. PICK last : last = <<lrc>>
    OBVIOUS
  <2>2. last \in Seq(Octet)
    BY <2>1, One, Zenon
  <2>3. (start \o text) \o last = start \o (text \o last)
    <3>1. start \in Seq(Octet) /\ text \in Seq(Octet)
      BY <1>11, <1>16, Zenon
    <3> QED
      BY <2>2, <3>1, Associative, Zenon
  <2>4. text \o last = rest
    BY <1>11, <1>13, <2>1, AppendIsConcat, Zenon
  <2>5. Framed(letters, body) = <<STX>> \o text \o <<lrc>>
    BY <1>2, <1>4, <1>6, <1>8, <1>10, <1>12, Zenon DEF Framed
  <2> QED
    BY <1>15, <1>17, <2>1, <2>3, <2>4, <2>5, Zenon
<1>20. Tail(bytes) = rest
  BY <1>1, <1>14, <1>15, <1>17, TailOfConcat, Zenon
<1>21. make_lrc(rest) = 0
  <2>1. make_lrc(rest) = Xor[make_lrc(text)][lrc]
    BY <1>11, <1>13, LrcAppend
  <2> QED
    BY <1>12, <2>1, XorByte
<1>22. bytes[1] = STX /\ \A i \in 1..n + 4 : bytes[1 + i] = rest[i]
  BY <1>16, <1>18 DEF Follows
<1>23. \A i \in 1..n + 3 : bytes[1 + i] = text[i]
  BY <1>14, <1>22
<1>24. text[1] = a /\ text[2] = b /\ text[n + 3] = ETX
  <2>1. text[1] = front[1] /\ text[2] = front[2] /\ text[(2 + n) + 1] = end[1]
    BY <1>11 DEF Follows
  <2>2. front[1] = pair[1] /\ front[2] = pair[2]
    BY <1>9 DEF Follows
  <2> QED
    BY <1>5, <1>7, <2>1, <2>2
<1>25. bytes[2] = a /\ bytes[3] = b /\ bytes[n + 4] = ETX
  BY <1>23, <1>24
<1>26. ASSUME NEW i \in 1..n PROVE bytes[3 + i] = body[i]
  <2>1. bytes[1 + (2 + i)] = text[2 + i]
    BY <1>23
  <2>2. text[2 + i] = front[2 + i]
    BY <1>11 DEF Follows
  <2>3. front[2 + i] = body[i]
    BY <1>9 DEF Follows
  <2> QED
    BY <2>1, <2>2, <2>3
<1>27. Len(bytes) = n + 5
  BY <1>18 DEF Follows
<1> QED
  BY <1>2, <1>18, <1>19, <1>20, <1>21, <1>22, <1>25, <1>26, <1>27, Zenon DEF Carries

-----------------------------------------------------------------------------
(* The bytes of numbers.                                                    *)
Printed == {n \in Nat : n = Minus \/ n = Semicolon \/ (48 <= n /\ n <= 57)}

(* What is left of an int without its sign.                                 *)
Magnitude == {n \in Nat : n <= 2147483647}

(* The powers of ten, ...                                                   *)
LEMMA TenPowers ==
  /\ Power(10, 0) = 1 /\ Power(10, 1) = 10 /\ Power(10, 2) = 100 /\ Power(10, 3) = 1000
  /\ Power(10, 4) = 10000 /\ Power(10, 5) = 100000 /\ Power(10, 6) = 1000000
  /\ Power(10, 7) = 10000000 /\ Power(10, 8) = 100000000 /\ Power(10, 9) = 1000000000
  /\ Power(10, 10) = 10000000000
  BY DEF Power

(* ... which are never 0.                                                   *)
LEMMA PowerFacts ==
  ASSUME NEW e \in 0..10
  PROVE  Power(10, e) \in Nat /\ Power(10, e) > 0
  BY TenPowers

(* A quotient is known by its remainder.                                    *)
LEMMA Quotient ==
  ASSUME NEW s \in Nat, NEW d \in Nat, d > 0, NEW q \in Nat, NEW r \in Nat,
         s = d * q + r, r < d
  PROVE  s \div d = q
  OBVIOUS

(* Another digit: the number so far, times ten, and the next one.           *)
LEMMA NextDigit ==
  ASSUME NEW s \in Nat, NEW d \in Nat, d > 0
  PROVE  10 * (s \div (10 * d)) + ((s \div d) % 10) = s \div d
<1>1. PICK q \in Nat, r \in Nat : s = d * q + r /\ r < d
  <2>1. s \div d \in Nat /\ s % d \in Nat /\ s = d * (s \div d) + (s % d) /\ s % d < d
    OBVIOUS
  <2> QED
    BY <2>1
<1>2. PICK t \in Nat, u \in Nat : q = 10 * t + u /\ u < 10
  <2>1. q \div 10 \in Nat /\ q % 10 \in Nat /\ q = 10 * (q \div 10) + (q % 10) /\ q % 10 < 10
    OBVIOUS
  <2> QED
    BY <2>1
<1>3. s \div d = q
  BY <1>1, Quotient
<1>4. d * u + r < 10 * d /\ d * u + r \in Nat /\ 10 * d \in Nat /\ 10 * d > 0
  <2>1. u + 1 <= 10 /\ u \in Nat
    BY <1>2
  <2>2. d * (u + 1) <= d * 10
    BY <2>1
  <2> QED
    BY <1>1, <2>1, <2>2
<1>5. s = (10 * d) * t + (d * u + r)
  BY <1>1, <1>2
<1>6. s \div (10 * d) = t
  BY <1>4, <1>5, Quotient
<1>7. q % 10 = u
  BY <1>2
<1> QED
  BY <1>2, <1>3, <1>6, <1>7

(* The same for a power of ten, as int2str divides.                         *)
LEMMA DigitStep ==
  ASSUME NEW size \in Nat, NEW e \in 0..9
  PROVE  10 * (size \div Power(10, e + 1)) + ((size \div Power(10, e)) % 10)
           = size \div Power(10, e)
<1>1. Power(10, e + 1) = 10 * Power(10, e)
  BY TenPowers
<1>2. Power(10, e) \in Nat /\ Power(10, e) > 0
  <2>1. e \in 0..10
    OBVIOUS
  <2> QED
    BY <2>1, PowerFacts
<1>3. PICK d \in Nat : d = Power(10, e) /\ d > 0
  BY <1>2
<1>4. 10 * (size \div (10 * d)) + ((size \div d) % 10) = size \div d
  BY <1>3, NextDigit
<1> QED
  BY <1>1, <1>3, <1>4, Zenon

(* As many digits as the number has.                                        *)
LEMMA Significance ==
  ASSUME NEW size \in Magnitude, size # 0
  PROVE  \E c \in 1..10 :
           /\ {i \in 0..9 : size \div Power(10, i) > 0} = 0..c - 1
           /\ size \div Power(10, c) = 0
           /\ c = 1 <=> size < 10
           /\ c = 2 <=> 10 <= size /\ size <= 99
<1> DEFINE P(i) == size \div Power(10, i) > 0
<1>1. /\ P(0) /\ (P(1) <=> size >= 10) /\ (P(2) <=> size >= 100) /\ (P(3) <=> size >= 1000)
      /\ (P(4) <=> size >= 10000) /\ (P(5) <=> size >= 100000) /\ (P(6) <=> size >= 1000000)
      /\ (P(7) <=> size >= 10000000) /\ (P(8) <=> size >= 100000000)
      /\ (P(9) <=> size >= 1000000000) /\ ~P(10)
  BY TenPowers DEF Magnitude
<1>2. \A i, j \in 0..10 : i <= j /\ P(j) => P(i)
  <2> HIDE DEF P
  <2>1. /\ (P(1) => P(0)) /\ (P(2) => P(1)) /\ (P(3) => P(2)) /\ (P(4) => P(3))
        /\ (P(5) => P(4)) /\ (P(6) => P(5)) /\ (P(7) => P(6)) /\ (P(8) => P(7))
        /\ (P(9) => P(8)) /\ (P(10) => P(9))
    BY <1>1 DEF Magnitude
  <2> QED
    BY <2>1
<1>3. PICK c \in 1..10 : P(c - 1) /\ ~P(c)
  <2>1. P(0) /\ ~P(10)
    BY <1>1
  <2> HIDE DEF P
  <2> QED
    BY <2>1
<1>4. {i \in 0..9 : P(i)} = 0..c - 1
  <2>1. ASSUME NEW i \in 0..9 PROVE P(i) <=> i \in 0..c - 1
    <3> HIDE DEF P
    <3>1. CASE i <= c - 1
      <4>1. i \in 0..10 /\ c - 1 \in 0..10
        OBVIOUS
      <4> QED
        BY <1>2, <1>3, <3>1, <4>1
    <3>2. CASE c <= i
      <4>1. i \in 0..10 /\ c \in 0..10 /\ i \notin 0..c - 1
        BY <3>2
      <4> QED
        BY <1>2, <1>3, <3>2, <4>1
    <3> QED
      BY <3>1, <3>2
  <2> HIDE DEF P
  <2> QED
    BY <2>1
<1>5. size \div Power(10, c) = 0
  <2>1. Power(10, c) \in Nat /\ Power(10, c) > 0
    BY PowerFacts
  <2> QED
    BY <1>3, <2>1 DEF Magnitude
<1>6. (c = 1 <=> size < 10) /\ (c = 2 <=> 10 <= size /\ size <= 99)
  <2>1. c = 1 <=> ~P(1)
    <3>1. 1 \in 0..10 /\ c \in 0..10 /\ c - 1 \in 0..10
      OBVIOUS
    <3> HIDE DEF P
    <3> QED
      BY <1>2, <1>3, <3>1
  <2>2. c = 2 <=> P(1) /\ ~P(2)
    <3>1. 1 \in 0..10 /\ 2 \in 0..10 /\ c \in 0..10 /\ c - 1 \in 0..10
      OBVIOUS
    <3> HIDE DEF P
    <3> QED
      BY <1>2, <1>3, <3>1
  <2> HIDE DEF P
  <2>3. 10 <= size /\ size <= 99 <=> size >= 10 /\ ~(size >= 100)
    BY DEF Magnitude
  <2> QED
    BY <1>1, <2>1, <2>2, <2>3 DEF Magnitude
<1> QED
  BY <1>4, <1>5, <1>6

(* digits are those of a number of c digits.                                *)
Numeral(digits, c, size) ==
  /\ digits = [k \in 1..c |-> 48 + ((size \div Power(10, c - k)) % 10)]
  /\ size \div Power(10, c) = 0

(* Its digits are printed bytes.                                            *)
LEMMA NumeralBytes ==
  ASSUME NEW size \in Magnitude, NEW c \in 1..10, NEW digits, Numeral(digits, c, size)
  PROVE  digits \in Seq(Printed) /\ Len(digits) = c
<1>1. ASSUME NEW k \in 1..c PROVE 48 + ((size \div Power(10, c - k)) % 10) \in Printed
  <2>1. PICK d \in Nat : d = Power(10, c - k) /\ d > 0
    <3>1. c - k \in 0..10
      OBVIOUS
    <3> QED
      BY <3>1, PowerFacts
  <2>2. size \div d \in Nat
    BY <2>1 DEF Magnitude
  <2>3. (size \div d) % 10 \in 0..9
    BY <2>2
  <2> QED
    BY <2>1, <2>3 DEF Printed
<1>2. digits \in [1..c -> Printed]
  BY <1>1 DEF Numeral
<1> QED
  BY <1>2

(* What int2str writes of any number but 0: a sign, if any, and its digits. *)
LEMMA WrittenForm ==
  ASSUME NEW num \in Bounded, num # 0
  PROVE  \E c \in 1..10, digits \in Seq(Printed) :
           /\ Numeral(digits, c, Size(num))
           /\ Written(num) = IF num < 0 THEN <<Minus>> \o digits ELSE digits
           /\ Counted(num) = Written(num)
           /\ c = 1 <=> Size(num) < 10
           /\ c = 2 <=> 10 <= Size(num) /\ Size(num) <= 99
<1>1. PICK size \in Magnitude : size = Size(num) /\ size # 0
  BY DEF Magnitude, Size, Bounded
<1> DEFINE significant == {i \in 0..9 : size \div Power(10, i) > 0}
<1>2. PICK c \in 1..10 :
        /\ significant = 0..c - 1 /\ size \div Power(10, c) = 0
        /\ c = 1 <=> size < 10
        /\ c = 2 <=> 10 <= size /\ size <= 99
  BY <1>1, Significance
<1>3. Cardinality(significant) = c
  <2>1. Cardinality(0..c - 1) = (c - 1) - 0 + 1
    BY FS_Interval
  <2> HIDE DEF significant
  <2> QED
    BY <1>2, <2>1
<1>4. PICK digits : digits = [k \in 1..c |-> 48 + ((size \div Power(10, c - k)) % 10)]
  OBVIOUS
<1>5. Numeral(digits, c, size)
  BY <1>2, <1>4, Zenon DEF Numeral
<1>6. digits \in Seq(Printed) /\ Len(digits) = c
  BY <1>5, NumeralBytes, Zenon
<1>7. size = IF num < 0 THEN -num ELSE num
  BY <1>1 DEF Size
<1>8. int2str(num) = [text |-> IF num = 0 THEN <<48>>
                                ELSE IF num < 0 THEN <<Minus>> \o digits ELSE digits,
                      count |-> IF num < 0 THEN c + 1 ELSE c]
  BY <1>3, <1>4, <1>7, Zenon DEF int2str
<1>9. PICK minus : minus = <<Minus>> \o digits
  OBVIOUS
<1>10. minus \in Seq(Printed) /\ Len(minus) = c + 1
  <2>1. PICK sign \in Seq(Printed) : sign = <<Minus>> /\ Len(sign) = 1
    <3>1. Minus \in Printed
      BY DEF Printed, Minus
    <3> QED
      BY <3>1, One
  <2> QED
    BY <1>6, <1>9, <2>1, ConcatParts
<1>11. SubSeq(minus, 1, c + 1) = minus /\ SubSeq(digits, 1, c) = digits
  BY <1>6, <1>10, SubSeqFull
<1>12. Counted(num) = IF num < 0 THEN minus ELSE digits
  BY <1>8, <1>9, <1>11 DEF Counted
<1>13. Written(num) = Counted(num)
  BY DEF Written
<1> QED
  BY <1>1, <1>2, <1>5, <1>6, <1>9, <1>12, <1>13, Zenon

(* What is written of a number is printed.                                  *)
LEMMA WrittenBytes ==
  ASSUME NEW num \in Bounded
  PROVE  Written(num) \in Seq(Printed)
<1>1. CASE num = 0
  <2>1. Written(num) = <<48>>
    BY <1>1 DEF Written, int2str
  <2>2. 48 \in Printed
    BY DEF Printed
  <2> QED
    BY <2>1, <2>2, One, Zenon
<1>2. CASE num # 0
  <2>1. PICK c \in 1..10, digits \in Seq(Printed) :
          /\ Numeral(digits, c, Size(num))
          /\ Written(num) = IF num < 0 THEN <<Minus>> \o digits ELSE digits
    BY <1>2, WrittenForm
  <2>2. Size(num) \in Magnitude
    BY DEF Size, Bounded, Magnitude
  <2>3. digits \in Seq(Printed)
    BY <2>1, <2>2, NumeralBytes, Zenon
  <2>4. PICK sign \in Seq(Printed) : sign = <<Minus>>
    <3>1. Minus \in Printed
      BY DEF Printed, Minus
    <3> QED
      BY <3>1, One
  <2>5. sign \o digits \in Seq(Printed)
    BY <2>3, <2>4, ConcatParts
  <2> QED
    BY <2>1, <2>3, <2>4, <2>5
<1> QED
  BY <1>1, <1>2

(* So is a separator with another number.                                   *)
LEMMA SeparatedBytes ==
  ASSUME NEW text \in Seq(Printed), NEW num \in Bounded
  PROVE  text \o <<Semicolon>> \o Written(num) \in Seq(Printed)
<1>1. PICK one : one = <<Semicolon>>
  OBVIOUS
<1>2. one \in Seq(Printed)
  <2>1. Semicolon \in Printed
    BY DEF Printed, Semicolon
  <2> QED
    BY <1>1, <2>1, One, Zenon
<1>3. PICK written : written = Written(num)
  OBVIOUS
<1>4. written \in Seq(Printed)
  BY <1>3, WrittenBytes, Zenon
<1>5. text \o one \in Seq(Printed)
  BY <1>2, ConcatParts, Zenon
<1>6. (text \o one) \o written \in Seq(Printed)
  BY <1>4, <1>5, ConcatParts, Zenon
<1> QED
  BY <1>1, <1>3, <1>6, Zenon

(* f joins the numbers one by one.                                          *)
JoinStep(f, numbers, n) ==
  /\ f[0] = <<>>
  /\ \A i \in 1..n : f[i] = IF i = 1 THEN Written(numbers[1])
                            ELSE f[i - 1] \o <<Semicolon>> \o Written(numbers[i])

(* Joined does.                                                             *)
LEMMA JoinedOf ==
  ASSUME NEW numbers \in Seq(Bounded), NEW n \in Nat, n = Len(numbers)
  PROVE  \E f \in [0..n -> Seq(Printed)] : JoinStep(f, numbers, n) /\ Joined(numbers) = f[n]
<1> DEFINE T == Seq(Printed)
           step == [p \in T \X (1..n) |->
                      IF p[2] = 1 THEN Written(numbers[1])
                      ELSE p[1] \o <<Semicolon>> \o Written(numbers[p[2]])]
           Is(f) == f = [i \in 0..n |-> IF i = 0 THEN <<>>
                                        ELSE IF i = 1 THEN Written(numbers[1])
                                        ELSE f[i - 1] \o <<Semicolon>> \o Written(numbers[i])]
           g == CHOOSE f : Is(f)
<1>1. \A i \in 1..n : numbers[i] \in Bounded
  BY ElementOfSeq
<1>2. step \in [T \X (1..n) -> T]
  <2>1. ASSUME NEW p \in T \X (1..n)
        PROVE  (IF p[2] = 1 THEN Written(numbers[1])
                ELSE p[1] \o <<Semicolon>> \o Written(numbers[p[2]])) \in T
    <3>1. p[1] \in T /\ p[2] \in 1..n /\ numbers[p[2]] \in Bounded
      BY <1>1
    <3>2. CASE p[2] = 1
      <4>1. Written(numbers[p[2]]) \in T
        BY <3>1, WrittenBytes, Zenon
      <4> QED
        BY <3>2, <4>1, Zenon
    <3>3. CASE p[2] # 1
      <4>1. p[1] \o <<Semicolon>> \o Written(numbers[p[2]]) \in T
        BY <3>1, SeparatedBytes, Zenon
      <4> QED
        BY <3>3, <4>1, Zenon
    <3> QED
      BY <3>2, <3>3
  <2> HIDE DEF T
  <2> QED
    BY <2>1, Zenon
<1>3. Stepwise(n, T, <<>>, step)
  <2>1. <<>> \in T
    OBVIOUS
  <2> HIDE DEF T, step
  <2> QED
    BY <1>2, <2>1 DEF Stepwise
<1>4. \E h : Recursive(h, n, T, <<>>, step)
  <2> HIDE DEF step, T
  <2> QED
    BY <1>3, Recursion
<1>5. PICK h \in [0..n -> T] : Recursive(h, n, T, <<>>, step)
  <2> HIDE DEF step, T
  <2> QED
    BY <1>4 DEF Recursive
<1>6. JoinStep(h, numbers, n)
  <2>1. h[0] = <<>> /\ \A i \in 1..n : h[i] = step[<<h[i - 1], i>>]
    <3> HIDE DEF step, T
    <3> QED
      BY <1>5, Zenon DEF Recursive
  <2>2. ASSUME NEW i \in 1..n PROVE h[i - 1] \in T
    <3>1. i - 1 \in 0..n
      OBVIOUS
    <3> HIDE DEF T
    <3> QED
      BY <3>1
  <2>3. ASSUME NEW i \in 1..n
        PROVE  step[<<h[i - 1], i>>] = IF i = 1 THEN Written(numbers[1])
                            ELSE h[i - 1] \o <<Semicolon>> \o Written(numbers[i])
    <3>1. <<h[i - 1], i>> \in T \X (1..n)
      BY <2>2, Zenon
    <3> HIDE DEF T
    <3> QED
      BY <3>1
  <2> HIDE DEF step, T
  <2> QED
    BY <2>1, <2>3, Zenon DEF JoinStep
<1>7. Is(h)
  <2>1. ASSUME NEW i \in 0..n
        PROVE  h[i] = IF i = 0 THEN <<>>
                      ELSE IF i = 1 THEN Written(numbers[1])
                      ELSE h[i - 1] \o <<Semicolon>> \o Written(numbers[i])
    <3>1. CASE i = 0
      BY <1>6, <3>1, Zenon DEF JoinStep
    <3>2. CASE i # 0
      <4>1. i \in 1..n
        BY <3>2
      <4> QED
        BY <1>6, <3>2, <4>1, Zenon DEF JoinStep
    <3> QED
      BY <3>1, <3>2
  <2> HIDE DEF T
  <2> QED
    BY <2>1
<1>8. Is(g)
  <2> HIDE DEF Is
  <2> QED
    BY <1>7
<1>9. Same(g, h, n)
  <2>1. SameSteps(g, h, n)
    <3>1. g[0] = h[0]
      <4>1. 0 \in 0..n
        OBVIOUS
      <4>2. g[0] = <<>>
        <5> HIDE DEF g
        <5> QED
          BY <1>8, <4>1
      <4> QED
        BY <1>6, <4>2, Zenon DEF JoinStep
    <3>2. ASSUME NEW i \in 1..n, g[i - 1] = h[i - 1] PROVE g[i] = h[i]
      <4>1. i \in 0..n /\ i # 0
        OBVIOUS
      <4>2. g[i] = IF i = 1 THEN Written(numbers[1])
                   ELSE g[i - 1] \o <<Semicolon>> \o Written(numbers[i])
        <5> HIDE DEF g
        <5> QED
          BY <1>8, <4>1, Zenon
      <4> HIDE DEF g
      <4> QED
        BY <1>6, <3>2, <4>2, Zenon DEF JoinStep
    <3> HIDE DEF g
    <3> QED
      BY <3>1, <3>2, Zenon DEF SameSteps
  <2> HIDE DEF g
  <2> QED
    BY <2>1, Agreement
<1>10. Joined(numbers) = g[n]
  BY DEF Joined
<1>11. Joined(numbers) = h[n]
  <2> HIDE DEF g
  <2> QED
    BY <1>9, <1>10 DEF Same
<1> QED
  BY <1>6, <1>11

(* A list of numbers is printed.                                            *)
LEMMA JoinedBytes ==
  ASSUME NEW numbers \in Seq(Bounded)
  PROVE  Joined(numbers) \in Seq(Printed)
<1>1. PICK n \in Nat : n = Len(numbers)
  BY LenProperties
<1>2. PICK f \in [0..n -> Seq(Printed)] : Joined(numbers) = f[n]
  BY <1>1, JoinedOf
<1>3. n \in 0..n
  OBVIOUS
<1> QED
  BY <1>2, <1>3, Zenon

(* The letters of requests that ask for words.                              *)
ReadLetters == {<<"P", "R">>, <<"C", "R">>, <<"C", "D">>, <<"P", "D">>, <<"P", "A">>,
                <<"V", "R">>, <<"P", "N">>, <<"P", "Q">>}

(* The letters of all requests.                                             *)
Letters == Lists \cup Switches \cup ReadLetters \cup Binary
             \cup {<<"B", "D">>, <<"X", "B">>, <<"D", "B">>}

(* Bytes above digits and separators.                                       *)
Letter == {n \in Nat : 60 <= n /\ n < 256}

(* Letters are such bytes.                                                  *)
LEMMA LetterBytes ==
  ASSUME NEW letters \in Letters
  PROVE  Ascii[letters[1]] \in Letter /\ Ascii[letters[2]] \in Letter
<1> DEFINE Names == {"A", "B", "C", "D", "E", "I", "L", "M", "N", "O", "P", "Q", "R", "S", "T",
                     "V", "W", "X", "F", "e", "o"}
<1>1. ASSUME NEW x \in Names PROVE Ascii[x] \in Letter
  BY DEF Ascii, Letter
<1>2. letters[1] \in Names /\ letters[2] \in Names
  <2>1. CASE letters \in Lists
    BY <2>1 DEF Lists
  <2>2. CASE letters \in Switches
    BY <2>2 DEF Switches
  <2>3. CASE letters \in ReadLetters
    BY <2>3 DEF ReadLetters
  <2>4. CASE letters \in Binary
    BY <2>4 DEF Binary
  <2>5. CASE letters \in {<<"B", "D">>, <<"X", "B">>, <<"D", "B">>}
    BY <2>5
  <2> HIDE DEF Names
  <2> QED
    BY <2>1, <2>2, <2>3, <2>4, <2>5, Zenon DEF Letters
<1> HIDE DEF Names
<1> QED
  BY <1>1, <1>2, Zenon

(* Printed bytes are bytes.                                                 *)
LEMMA PrintedOctets ==
  ASSUME NEW s \in Seq(Printed)
  PROVE  s \in Seq(Octet)
  BY DEF Printed, Octet, Minus, Semicolon

(* A request whose letters are letters, and whose body is bytes: printed    *)
(* ones, unless it is known for raw bytes.                                  *)
Formed(request) ==
  \E letters \in Letters, body \in Seq(Octet) :
    /\ \E numbers : request = Request(letters, numbers, body)
    /\ letters \notin Binary => body \in Seq(Printed)

(* A frame: STX, ETX, and an LRC that makes the exclusive or 0.             *)
Bytes(bytes) ==
  \E n \in Nat :
     /\ Len(bytes) = n + 5
     /\ bytes[1] = STX /\ bytes[n + 4] = ETX
     /\ make_lrc(Tail(bytes)) = 0

(* Neither STX nor ETX in between.                                          *)
Plain(bytes) ==
  \A i \in 2..Len(bytes) - 2 : bytes[i] \notin {STX, ETX}

(* A formed request is a frame, and plain unless it carries raw bytes.      *)
LEMMA FormedBytes ==
  ASSUME NEW request, Formed(request)
  PROVE  Bytes(request.bytes) /\ (request.letters \notin Binary => Plain(request.bytes))
<1>1. PICK letters \in Letters, body \in Seq(Octet) :
        /\ \E numbers : request = Request(letters, numbers, body)
        /\ letters \notin Binary => body \in Seq(Printed)
  BY DEF Formed
<1>2. PICK n \in Nat : n = Len(body)
  BY LenProperties
<1>3. PICK bytes : bytes = Framed(letters, body)
  OBVIOUS
<1>4. Ascii[letters[1]] \in Letter /\ Ascii[letters[2]] \in Letter
  BY LetterBytes
<1>5. Ascii[letters[1]] \in Octet /\ Ascii[letters[2]] \in Octet
  BY <1>4 DEF Letter, Octet
<1>6. Carries(bytes, letters, body, n)
  BY <1>2, <1>3, <1>5, FramedFacts, Zenon
<1>7. request.bytes = bytes /\ request.letters = letters
  BY <1>1, <1>3 DEF Request
<1>8. Bytes(bytes)
  BY <1>6 DEF Bytes, Carries
<1>9. ASSUME letters \notin Binary PROVE Plain(bytes)
  <2>1. body \in Seq(Printed)
    BY <1>1, <1>9
  <2>2. \A i \in 1..n : body[i] \in Printed
    BY <1>2, <2>1, ElementOfSeq
  <2>3. ASSUME NEW i \in 2..n + 3 PROVE bytes[i] \in Letter \cup Printed
    <3>1. CASE i = 2
      BY <1>4, <1>6, <3>1 DEF Carries
    <3>2. CASE i = 3
      BY <1>4, <1>6, <3>2 DEF Carries
    <3>3. CASE i > 3
      <4>1. i - 3 \in 1..n /\ 3 + (i - 3) = i
        BY <3>3
      <4>2. bytes[i] = body[i - 3]
        BY <1>6, <4>1, Zenon DEF Carries
      <4> QED
        BY <2>2, <4>1, <4>2
    <3> QED
      BY <3>1, <3>2, <3>3
  <2>4. \A x \in Letter \cup Printed : x \notin {STX, ETX}
    BY DEF Letter, Printed, STX, ETX, Minus, Semicolon
  <2>5. Len(bytes) - 2 = n + 3
    BY <1>6 DEF Carries
  <2> QED
    BY <2>3, <2>4, <2>5 DEF Plain
<1> QED
  BY <1>7, <1>8, <1>9, Zenon

(* The digits of a number of eight binary digits are these.                 *)
LEMMA OutputValue ==
  ASSUME NEW ports \in [0..7 -> 0..1]
  PROVE  /\ binaryToDecimal(Decimal(ports)) \in Nat
         /\ binaryToDecimal(Decimal(ports)) < 256
<1> DEFINE Level == {n \in Nat : n < 2}
<1>1. PICK p0 \in Level, p1 \in Level, p2 \in Level, p3 \in Level,
           p4 \in Level, p5 \in Level, p6 \in Level, p7 \in Level :
        /\ p0 = ports[0] /\ p1 = ports[1] /\ p2 = ports[2] /\ p3 = ports[3]
        /\ p4 = ports[4] /\ p5 = ports[5] /\ p6 = ports[6] /\ p7 = ports[7]
  OBVIOUS
<1>2. PICK d0 \in Nat, d1 \in Nat, d2 \in Nat, d3 \in Nat, d4 \in Nat, d5 \in Nat, d6 \in Nat :
        /\ d6 = p6 + 10 * p7 /\ d5 = p5 + 10 * d6 /\ d4 = p4 + 10 * d5 /\ d3 = p3 + 10 * d4
        /\ d2 = p2 + 10 * d3 /\ d1 = p1 + 10 * d2 /\ d0 = p0 + 10 * d1
  OBVIOUS
<1>3. Decimal(ports) = d0
  BY <1>1, <1>2 DEF Decimal, Total, Power
<1>4. /\ d0 \div 10 = d1 /\ d0 % 10 = p0 /\ d1 \div 10 = d2 /\ d1 % 10 = p1
      /\ d2 \div 10 = d3 /\ d2 % 10 = p2 /\ d3 \div 10 = d4 /\ d3 % 10 = p3
      /\ d4 \div 10 = d5 /\ d4 % 10 = p4 /\ d5 \div 10 = d6 /\ d5 % 10 = p5
      /\ d6 \div 10 = p7 /\ d6 % 10 = p6
  BY <1>2
<1>5. /\ d0 \div Power(10, 0) = d0 /\ d0 \div Power(10, 1) = d1 /\ d0 \div Power(10, 2) = d2
      /\ d0 \div Power(10, 3) = d3 /\ d0 \div Power(10, 4) = d4 /\ d0 \div Power(10, 5) = d5
      /\ d0 \div Power(10, 6) = d6 /\ d0 \div Power(10, 7) = p7
  BY <1>2, TenPowers
<1>6. PICK bits : bits = [i \in 0..7 |-> (d0 \div Power(10, i)) % 10]
  OBVIOUS
<1>7. /\ bits[0] = p0 /\ bits[1] = p1 /\ bits[2] = p2 /\ bits[3] = p3
      /\ bits[4] = p4 /\ bits[5] = p5 /\ bits[6] = p6 /\ bits[7] = p7
  BY <1>4, <1>5, <1>6
<1>8. Value(bits) = p0 + 2 * p1 + 4 * p2 + 8 * p3 + 16 * p4 + 32 * p5 + 64 * p6 + 128 * p7
  BY <1>7 DEF Value, Total, Power
<1>9. binaryToDecimal(Decimal(ports)) = Value(bits)
  BY <1>3, <1>6, Zenon DEF binaryToDecimal
<1> QED
  BY <1>8, <1>9

(* Two sequences of one element make one of two.                            *)
LEMMA PairOfOnes ==
  ASSUME NEW S, NEW a \in S, NEW b \in S
  PROVE  <<a>> \o <<b>> = <<a, b>>
<1>1. PICK s \in Seq(S), t \in Seq(S) : s = <<a>> /\ t = <<b>>
  BY One
<1>2. Len(s) = 1 /\ s[1] = a /\ Len(t) = 1 /\ t[1] = b
  BY <1>1
<1>3. PICK u \in Seq(S) : u = s \o t
  BY ConcatParts
<1>4. Len(u) = 2 /\ u[1] = a /\ u[2] = b
  BY <1>2, <1>3, ConcatParts
<1>5. u = <<a, b>>
  BY <1>4
<1> QED
  BY <1>1, <1>3, <1>5

(* Nothing in front changes nothing.                                        *)
LEMMA ConcatEmpty ==
  ASSUME NEW S, NEW s \in Seq(S)
  PROVE  <<>> \o s = s
  BY ConcatEmptySeq

(* A parameter is asked for with two digits, and these are its own.         *)
LEMMA ParameterDigits ==
  ASSUME NEW param \in TwoDigits
  PROVE  \E a, b \in 0..9 :
           /\ (IF param <= 9 THEN <<48>> ELSE <<>>) \o Counted(param) = <<48 + a, 48 + b>>
           /\ 10 * a + b = param
<1>1. param \in Nat /\ 1 <= param /\ param <= 99
  BY DEF TwoDigits
<1>2. param \in Bounded /\ param # 0 /\ Size(param) = param
  BY <1>1 DEF Bounded, Size
<1>3. PICK c \in 1..10, digits \in Seq(Printed) :
        /\ Numeral(digits, c, Size(param))
        /\ Written(param) = IF param < 0 THEN <<Minus>> \o digits ELSE digits
        /\ Counted(param) = Written(param)
        /\ c = 1 <=> Size(param) < 10
        /\ c = 2 <=> 10 <= Size(param) /\ Size(param) <= 99
  BY <1>2, WrittenForm
<1>4. /\ Numeral(digits, c, param) /\ Counted(param) = digits
      /\ c = 1 <=> param < 10
      /\ c = 2 <=> 10 <= param /\ param <= 99
  BY <1>1, <1>2, <1>3
<1>5. param \in Magnitude
  BY <1>1 DEF Magnitude
<1>6. digits \in Seq(Printed) /\ Len(digits) = c
  BY <1>4, <1>5, NumeralBytes, Zenon
<1>7. CASE param <= 9
  <2>1. c = 1
    BY <1>1, <1>4, <1>7
  <2>2. digits[1] = 48 + param
    <3>1. digits[1] = 48 + ((param \div Power(10, 0)) % 10)
      BY <1>4, <2>1 DEF Numeral
    <3>2. Power(10, 0) = 1
      BY TenPowers
    <3>3. param \div 1 = param /\ param % 10 = param
      BY <1>1, <1>7
    <3> QED
      BY <3>1, <3>2, <3>3
  <2>3. PICK b \in 0..9 : b = param
    BY <1>1, <1>7
  <2>4. digits = <<48 + b>>
    BY <1>6, <2>1, <2>2, <2>3
  <2>5. <<48>> \o <<48 + b>> = <<48 + 0, 48 + b>>
    <3>1. 48 \in Nat /\ 48 + b \in Nat /\ 48 + 0 = 48
      OBVIOUS
    <3>2. <<48>> \o <<48 + b>> = <<48, 48 + b>>
      BY <3>1, PairOfOnes, Zenon
    <3> QED
      BY <3>2
  <2>6. (IF param <= 9 THEN <<48>> ELSE <<>>) \o Counted(param) = <<48 + 0, 48 + b>>
    BY <1>4, <1>7, <2>4, <2>5, Zenon
  <2>7. 10 * 0 + b = param /\ 0 \in 0..9
    BY <2>3
  <2> QED
    BY <2>6, <2>7, Zenon
<1>8. CASE param > 9
  <2>1. c = 2
    BY <1>1, <1>4, <1>8
  <2>2. PICK a \in 0..9, b \in 0..9 : a = param \div 10 /\ b = param % 10 /\ 10 * a + b = param
    BY <1>1, <1>8
  <2>3. digits[1] = 48 + a /\ digits[2] = 48 + b
    <3>1. digits[1] = 48 + ((param \div Power(10, 1)) % 10)
      BY <1>4, <2>1 DEF Numeral
    <3>2. digits[2] = 48 + ((param \div Power(10, 0)) % 10)
      BY <1>4, <2>1 DEF Numeral
    <3>3. (param \div 10) % 10 = a /\ (param \div 1) % 10 = b
      BY <1>1, <2>2
    <3> QED
      BY <3>1, <3>2, <3>3, TenPowers
  <2>4. digits = <<48 + a, 48 + b>>
    BY <1>6, <2>1, <2>3
  <2>5. <<>> \o digits = digits
    BY <1>6, ConcatEmpty, Zenon
  <2>6. ~(param <= 9)
    BY <1>1, <1>8
  <2>7. (IF param <= 9 THEN <<48>> ELSE <<>>) \o Counted(param) = <<48 + a, 48 + b>>
    BY <1>4, <2>4, <2>5, <2>6, Zenon
  <2> QED
    BY <2>2, <2>7, Zenon
<1>9. param <= 9 \/ param > 9
  BY <1>1
<1> QED
  BY <1>7, <1>8, <1>9, Zenon

(* Requests that carry nothing.                                             *)
Questions == {Request(letters, <<>>, <<>>) : letters \in ReadLetters}

(* Concatenation stays in the set.                                          *)
LEMMA PairOf ==
  ASSUME NEW S, NEW a \in Seq(S), NEW b \in Seq(S)
  PROVE  a \o b \in Seq(S)
  BY ConcatParts

(* Bodies of a few bytes.                                                   *)
LEMMA BodyBytes ==
  /\ \A a, b \in Printed : <<a>> \in Seq(Printed) /\ <<a, b>> \in Seq(Printed)
  /\ \A a, b, c, d \in Octet : <<a>> \in Seq(Octet) /\ <<a, b>> \o <<c, d>> \in Seq(Octet)
  /\ <<>> \in Seq(Printed) /\ <<>> \in Seq(Octet)
<1>1. \A a, b \in Printed : <<a>> \in Seq(Printed) /\ <<a, b>> \in Seq(Printed)
  OBVIOUS
<1>2. \A a, b \in Octet : <<a>> \in Seq(Octet) /\ <<a, b>> \in Seq(Octet)
  OBVIOUS
<1>3. ASSUME NEW a \in Octet, NEW b \in Octet, NEW c \in Octet, NEW d \in Octet
      PROVE  <<a, b>> \o <<c, d>> \in Seq(Octet)
  BY <1>2, PairOf, Zenon
<1>4. <<>> \in Seq(Printed) /\ <<>> \in Seq(Octet)
  OBVIOUS
<1> QED
  BY <1>1, <1>2, <1>3, <1>4

(* A value that is set bit by bit fits a byte.                              *)
LEMMA PackedBytes ==
  ASSUME NEW speed \in Bounded
  PROVE  \E high, low \in Octet : Packed(speed) = <<high, low>>
<1>1. PICK size \in Nat : size = IF speed < 0 THEN -speed ELSE speed
  BY DEF Bounded
<1>2. PICK mag \in Nat : mag = (IF size > 32767 THEN 32767 ELSE size) /\ mag <= 32767
  OBVIOUS
<1>3. PICK high : high = mag \div 256 + (IF speed < 0 THEN 128 ELSE 0)
  OBVIOUS
<1>4. PICK low : low = mag % 256
  OBVIOUS
<1>5. high \in Octet /\ low \in Octet
  BY <1>2, <1>3, <1>4 DEF Octet
<1>6. Packed(speed) = <<high, low>>
  BY <1>1, <1>2, <1>3, <1>4 DEF Packed
<1> QED
  BY <1>5, <1>6

(* A request whose body is printed, ...                                     *)
PrintedBody(request) ==
  \E letters \in Letters, body \in Seq(Printed) :
     \E numbers : request = Request(letters, numbers, body)

(* ... which is formed.                                                     *)
LEMMA PrintedFormed ==
  ASSUME NEW request, PrintedBody(request)
  PROVE  Formed(request)
  BY PrintedOctets DEF PrintedBody, Formed

(* Requests that carry nothing are formed, ...                              *)
LEMMA QuestionsFormed ==
  ASSUME NEW request \in Questions
  PROVE  Formed(request)
<1>1. PICK letters \in ReadLetters : request = Request(letters, <<>>, <<>>)
  BY DEF Questions
<1>2. letters \in Letters
  BY DEF Letters
<1>3. PrintedBody(request)
  BY <1>1, <1>2, BodyBytes DEF PrintedBody
<1> QED
  BY <1>3, PrintedFormed

(* ... and so is every order.                                               *)
LEMMA OrdersFormed ==
  ASSUME NEW request \in Orders
  PROVE  Formed(request)
<1>1. CASE \E letters \in Lists, numbers \in Seq(Bounded) : request = Listed(letters, numbers)
  <2>1. PICK letters \in Lists, numbers \in Seq(Bounded) :
          request = Request(letters, numbers, Joined(numbers))
    BY <1>1 DEF Listed
  <2>2. letters \in Letters
    BY DEF Letters
  <2>3. Joined(numbers) \in Seq(Printed)
    BY JoinedBytes
  <2>4. PrintedBody(request)
    BY <2>1, <2>2, <2>3, Zenon DEF PrintedBody
  <2> QED
    BY <2>4, PrintedFormed
<1>2. CASE \E letters \in Switches, digit \in 0..2 :
             request = Request(letters, <<digit>>, <<48 + digit>>)
  <2>1. PICK letters \in Switches, digit \in 0..2 :
          request = Request(letters, <<digit>>, <<48 + digit>>)
    BY <1>2
  <2>2. letters \in Letters
    BY DEF Letters
  <2>3. 48 + digit \in Printed
    BY DEF Printed
  <2>4. <<48 + digit>> \in Seq(Printed)
    BY <2>3, One, Zenon
  <2>5. PrintedBody(request)
    BY <2>1, <2>2, <2>4, Zenon DEF PrintedBody
  <2> QED
    BY <2>5, PrintedFormed
<1>3. CASE \E letters \in {<<"P", "O">>, <<"P", "E">>}, ports \in [0..7 -> 0..1] :
             request = Outputs(letters, ports)
  <2>1. PICK letters \in {<<"P", "O">>, <<"P", "E">>}, ports \in [0..7 -> 0..1] :
          request = Outputs(letters, ports)
    BY <1>3
  <2>2. letters \in Letters /\ letters \in Binary
    BY DEF Letters, Binary
  <2>3. PICK value : value = binaryToDecimal(Decimal(ports))
    OBVIOUS
  <2>4. value \in Nat
    BY <2>3, OutputValue
  <2>5. (value + 48) % 256 \in Octet
    BY <2>4 DEF Octet
  <2>6. <<(value + 48) % 256>> \in Seq(Octet)
    BY <2>5, One, Zenon
  <2>7. request = Request(letters, <<value>>, <<(value + 48) % 256>>)
    BY <2>1, <2>3 DEF Outputs
  <2> QED
    BY <2>2, <2>6, <2>7, Zenon DEF Formed
<1>4. CASE \E type \in {0, 2}, data \in Bounded : request = drvm_set_position(type, data)
  <2>1. PICK type \in {0, 2}, data \in Bounded : request = drvm_set_position(type, data)
    BY <1>4
  <2>2. 48 + type \in Printed /\ 48 \in Printed
    BY DEF Printed
  <2>3. <<48 + type, 48>> \in Seq(Printed)
    BY <2>2, BodyBytes, Zenon
  <2>4. Written(data) \in Seq(Printed)
    BY WrittenBytes
  <2>5. <<48 + type, 48>> \o Written(data) \in Seq(Printed)
    BY <2>3, <2>4, PairOf, Zenon
  <2>6. <<"B", "D">> \in Letters
    BY DEF Letters
  <2>7. PrintedBody(request)
    BY <2>1, <2>5, <2>6, Zenon DEF PrintedBody, drvm_set_position
  <2> QED
    BY <2>7, PrintedFormed
<1>5. CASE \E param \in TwoDigits, value \in Bounded : request = drvm_set_parameter(param, value)
  <2>1. PICK param \in TwoDigits, value \in Bounded : request = drvm_set_parameter(param, value)
    BY <1>5
  <2>2. PICK digits \in Seq(Printed) :
          digits = (IF param <= 9 THEN <<48>> ELSE <<>>) \o Counted(param)
    <3>1. PICK a, b \in 0..9 :
            /\ (IF param <= 9 THEN <<48>> ELSE <<>>) \o Counted(param) = <<48 + a, 48 + b>>
            /\ 10 * a + b = param
      BY ParameterDigits, Zenon
    <3>2. 48 + a \in Printed /\ 48 + b \in Printed
      BY DEF Printed
    <3>3. <<48 + a, 48 + b>> \in Seq(Printed)
      BY <3>2, BodyBytes, Zenon
    <3> QED
      BY <3>1, <3>3, Zenon
  <2>3. Written(value) \in Seq(Printed)
    BY WrittenBytes
  <2>4. digits \o Written(value) \in Seq(Printed)
    BY <2>3, PairOf, Zenon
  <2>5. <<"X", "B">> \in Letters
    BY DEF Letters
  <2>6. request = Request(<<"X", "B">>, <<param, value>>, digits \o Written(value))
    BY <2>1, <2>2 DEF drvm_set_parameter
  <2>7. PrintedBody(request)
    BY <2>4, <2>5, <2>6, Zenon DEF PrintedBody
  <2> QED
    BY <2>7, PrintedFormed
<1>6. CASE \E mode \in 0..1 : request = drvm_set_servo(mode)
  <2>1. PICK digit \in 0..1 :
          request = Request(<<"D", "B">>, <<digit, digit>>, <<48 + digit, 48 + digit>>)
    BY <1>6 DEF drvm_set_servo
  <2>2. 48 + digit \in Printed
    BY DEF Printed
  <2>3. <<48 + digit, 48 + digit>> \in Seq(Printed)
    BY <2>2, BodyBytes, Zenon
  <2>4. <<"D", "B">> \in Letters
    BY DEF Letters
  <2>5. PrintedBody(request)
    BY <2>1, <2>3, <2>4, Zenon DEF PrintedBody
  <2> QED
    BY <2>5, PrintedFormed
<1>7. CASE \E left, right \in Bounded : request = drvm_set_velocity2(left, right)
  <2>1. PICK left \in Bounded, right \in Bounded : request = drvm_set_velocity2(left, right)
    BY <1>7
  <2>2. PICK a \in Octet, b \in Octet : Packed(left) = <<a, b>>
    BY PackedBytes
  <2>3. PICK c \in Octet, d \in Octet : Packed(right) = <<c, d>>
    BY PackedBytes
  <2>4. Packed(left) \o Packed(right) \in Seq(Octet)
    BY <2>2, <2>3, BodyBytes, Zenon
  <2>5. <<"B", "V">> \in Letters /\ <<"B", "V">> \in Binary
    BY DEF Letters, Binary
  <2> QED
    BY <2>1, <2>4, <2>5, Zenon DEF Formed, drvm_set_velocity2
<1> QED
  BY <1>1, <1>2, <1>3, <1>4, <1>5, <1>6, <1>7, OrderForms, Zenon

(* What was sent is one of the requests, byte by byte.                      *)
SentAs(request) ==
  /\ packet = request.bytes
  /\ asked = [letters |-> request.letters, numbers |-> request.numbers]

(* The inductive invariant: what was asked and the bytes are of one request. *)
Sent == packet # <<>> => \E request \in Orders \cup Questions : SentAs(request)

(* The read services send such requests.                                    *)
LEMMA ReadsAreQuestions ==
  ASSUME NEW read \in ReadRequests
  PROVE  Request(read.letters, <<>>, <<>>) \in Questions
<1>1. read.letters \in ReadLetters
  BY DEF ReadRequests, ReadLetters, Asking, power_parameter_read, conveyor_parameter_read,
         conveyor_data_read, power_data_read, power_adc_read, power_version_read,
         power_sonar_read
<1> QED
  BY <1>1 DEF Questions

(* A request function sends its request, or nothing.                        *)
LEMMA AskSends ==
  ASSUME NEW request \in Orders \cup Questions, NEW written, Ask(request, written)
  PROVE  Sent'
<1>1. asked' = [letters |-> request.letters, numbers |-> request.numbers]
  BY DEF Ask
<1>2. packet' = request.bytes \/ packet' = <<>>
  BY DEF Ask
<1> QED
  BY <1>1, <1>2 DEF Sent, SentAs

(* Whatever is called, what is on the line is a request.                    *)
LEMMA SentInvariant == RequestSpec => []Sent
<1>1. RequestInit => Sent
  <2> SUFFICES ASSUME RequestInit PROVE Sent
    OBVIOUS
  <2>1. power_charging_ready(1) \in Orders
    <3>1. <<"P", "C">> \in Switches
      BY DEF Switches
    <3> QED
      BY <3>1, SwitchesAreOrders, Zenon DEF power_charging_ready
  <2>2. power_charging_ready(1).letters = <<"P", "C">> /\ power_charging_ready(1).numbers = <<1>>
    BY DEF power_charging_ready, Switch, Request
  <2>3. packet # <<>> => packet = power_charging_ready(1).bytes
    BY DEF RequestInit
  <2>4. asked = [letters |-> <<"P", "C">>, numbers |-> <<1>>]
    BY DEF RequestInit
  <2>5. packet # <<>> => SentAs(power_charging_ready(1))
    BY <2>2, <2>3, <2>4, Zenon DEF SentAs
  <2> QED
    BY <2>1, <2>5, Zenon DEF Sent
<1>2. Sent /\ [RequestNext]_requestVars => Sent'
  <2> SUFFICES ASSUME Sent, [RequestNext]_requestVars PROVE Sent'
    OBVIOUS
  <2>1. ASSUME NEW request \in Orders, Order(request)
        PROVE  Sent'
    <3>1. \E written \in BOOLEAN : Ask(request, written)
      BY <2>1 DEF Order
    <3> QED
      BY <3>1, AskSends
  <2>2. ASSUME NEW read \in ReadRequests, ReadService(read, read.words)
        PROVE  Sent'
    <3>1. \E written : Ask(Request(read.letters, <<>>, <<>>), written)
      BY <2>2, Zenon DEF ReadService, Reply, Unwritten
    <3>2. Request(read.letters, <<>>, <<>>) \in Orders \cup Questions
      BY ReadsAreQuestions
    <3> QED
      BY <3>1, <3>2, AskSends, Zenon
  <2>3. ASSUME NEW meeting, power_read_tetra(meeting)
        PROVE  Sent'
    <3>1. Ask(Request(<<"P", "Q">>, <<>>, <<>>), TRUE)
      BY <2>3, Zenon DEF power_read_tetra
    <3>2. Request(<<"P", "Q">>, <<>>, <<>>) \in Orders \cup Questions
      BY DEF Questions, ReadLetters
    <3> QED
      BY <3>1, <3>2, AskSends, Zenon
  <2>4. CASE Power_Get_IO_Status_Command
    BY <2>4 DEF Power_Get_IO_Status_Command, Sent
  <2>5. CASE UNCHANGED requestVars
    BY <2>5 DEF requestVars, Sent, SentAs
  <2>6. CASE RequestNext
    BY <2>1, <2>2, <2>3, <2>4, <2>6, RequestSteps, Zenon
  <2> QED
    BY <2>5, <2>6
<1> QED
  BY <1>1, <1>2, PTL DEF RequestSpec

(* Every packet on the line can be told from it: STX first, ETX and an LRC  *)
(* that makes the exclusive or of all of it 0 last, and neither STX nor ETX *)
(* in between, for any number that is asked for.                            *)
THEOREM PacketsAreFramed == RequestSpec => []WellFramed
<1>1. Sent => WellFramed
  <2> SUFFICES ASSUME Sent, packet # <<>> PROVE WellFramed
    BY DEF WellFramed
  <2>1. PICK request \in Orders \cup Questions : SentAs(request)
    BY DEF Sent
  <2>2. Formed(request)
    BY <2>1, OrdersFormed, QuestionsFormed
  <2>3. Bytes(packet) /\ (asked.letters \notin Binary => Plain(packet))
    BY <2>1, <2>2, FormedBytes DEF SentAs
  <2>4. PICK n \in Nat :
          /\ Len(packet) = n + 5
          /\ packet[1] = STX /\ packet[n + 4] = ETX
          /\ make_lrc(Tail(packet)) = 0
    BY <2>3 DEF Bytes
  <2>5. Len(packet) - 1 = n + 4
    BY <2>4
  <2> QED
    BY <2>3, <2>4, <2>5, Zenon DEF WellFramed, Plain
<1> QED
  BY <1>1, SentInvariant, PTL

-----------------------------------------------------------------------------
(* What the scan of str2int makes of bytes, from any state.                 *)
After(bytes, state) ==
  LET scan[i \in 0..Len(bytes)] ==
        IF i = 0 THEN state ELSE Scanned(scan[i - 1], bytes[i])
  IN  scan[Len(bytes)]

(* The states of the scan, ...                                              *)
States == [values : Seq(Nat), value : Nat, open : BOOLEAN]

(* ... and the one it starts in.                                            *)
Start == [values |-> <<>>, value |-> 0, open |-> TRUE]

(* That is one of them.                                                     *)
LEMMA StartsAsState == Start \in States
  BY DEF Start, States

(* str2int starts there.                                                    *)
LEMMA ScanBytes ==
  ASSUME NEW bytes
  PROVE  str2int(bytes) = After(bytes, Start).values
  BY DEF str2int, After, Start

(* A byte leads from a state to a state.                                    *)
LEMMA ScannedState ==
  ASSUME NEW state \in States, NEW byte \in Nat
  PROVE  Scanned(state, byte) \in States
<1>1. state.values \in Seq(Nat) /\ state.value \in Nat /\ state.open \in BOOLEAN
  BY DEF States
<1>2. CASE ~state.open
  BY <1>2 DEF Scanned
<1>3. CASE state.open /\ byte \in 48..57
  <2>1. 10 * state.value + (byte - 48) \in Nat
    BY <1>1, <1>3
  <2>2. Scanned(state, byte) = [state EXCEPT !.value = 10 * @ + (byte - 48)]
    BY <1>3 DEF Scanned
  <2> QED
    BY <1>1, <2>1, <2>2 DEF States
<1>4. CASE state.open /\ byte \notin 48..57 /\ byte \in {Semicolon, ETX}
  <2>1. Scanned(state, byte) = [values |-> Append(state.values, state.value), value |-> 0,
                                open |-> byte # ETX]
    BY <1>4 DEF Scanned
  <2>2. Append(state.values, state.value) \in Seq(Nat)
    BY <1>1, AppendProperties
  <2> QED
    BY <2>1, <2>2 DEF States
<1>5. CASE state.open /\ byte \notin 48..57 /\ byte \notin {Semicolon, ETX}
  BY <1>5 DEF Scanned
<1> QED
  BY <1>2, <1>3, <1>4, <1>5

(* f scans the bytes one by one.                                            *)
ScanStep(f, bytes, n, state) ==
  /\ f[0] = state
  /\ \A i \in 1..n : f[i] = Scanned(f[i - 1], bytes[i])

(* After does.                                                              *)
LEMMA AfterOf ==
  ASSUME NEW bytes \in Seq(Nat), NEW n \in Nat, n = Len(bytes), NEW state \in States
  PROVE  \E f \in [0..n -> States] :
           ScanStep(f, bytes, n, state) /\ After(bytes, state) = f[n]
<1> DEFINE step == [p \in States \X (1..n) |-> Scanned(p[1], bytes[p[2]])]
           Is(f) == f = [i \in 0..n |-> IF i = 0 THEN state ELSE Scanned(f[i - 1], bytes[i])]
           g == CHOOSE f : Is(f)
<1>1. \A i \in 1..n : bytes[i] \in Nat
  BY ElementOfSeq
<1>2. step \in [States \X (1..n) -> States]
  <2>1. ASSUME NEW p \in States \X (1..n)
        PROVE  Scanned(p[1], bytes[p[2]]) \in States
    <3>1. p[1] \in States /\ bytes[p[2]] \in Nat
      BY <1>1
    <3> QED
      BY <3>1, ScannedState, Zenon
  <2> QED
    BY <2>1, Zenon
<1>3. Stepwise(n, States, state, step)
  <2> HIDE DEF step
  <2> QED
    BY <1>2 DEF Stepwise
<1>4. \E h : Recursive(h, n, States, state, step)
  <2> HIDE DEF step
  <2> QED
    BY <1>3, Recursion
<1>5. PICK h \in [0..n -> States] : Recursive(h, n, States, state, step)
  <2> HIDE DEF step
  <2> QED
    BY <1>4 DEF Recursive
<1>6. ScanStep(h, bytes, n, state)
  <2>1. h[0] = state /\ \A i \in 1..n : h[i] = step[<<h[i - 1], i>>]
    <3> HIDE DEF step
    <3> QED
      BY <1>5, Zenon DEF Recursive
  <2>2. ASSUME NEW i \in 1..n PROVE h[i - 1] \in States
    <3>1. i - 1 \in 0..n
      OBVIOUS
    <3> QED
      BY <3>1
  <2>3. ASSUME NEW i \in 1..n
        PROVE  step[<<h[i - 1], i>>] = Scanned(h[i - 1], bytes[i])
    <3>1. <<h[i - 1], i>> \in States \X (1..n)
      BY <2>2, Zenon
    <3> QED
      BY <3>1
  <2> HIDE DEF step
  <2> QED
    BY <2>1, <2>3, Zenon DEF ScanStep
<1>7. Is(h)
  <2>1. ASSUME NEW i \in 0..n
        PROVE  h[i] = IF i = 0 THEN state ELSE Scanned(h[i - 1], bytes[i])
    <3>1. CASE i = 0
      BY <1>6, <3>1, Zenon DEF ScanStep
    <3>2. CASE i # 0
      <4>1. i \in 1..n
        BY <3>2
      <4> QED
        BY <1>6, <3>2, <4>1, Zenon DEF ScanStep
    <3> QED
      BY <3>1, <3>2
  <2> QED
    BY <2>1
<1>8. Is(g)
  <2> HIDE DEF Is
  <2> QED
    BY <1>7
<1>9. Same(g, h, n)
  <2>1. SameSteps(g, h, n)
    <3>1. g[0] = h[0]
      <4>1. 0 \in 0..n
        OBVIOUS
      <4>2. g[0] = state
        <5> HIDE DEF g
        <5> QED
          BY <1>8, <4>1
      <4> QED
        BY <1>6, <4>2, Zenon DEF ScanStep
    <3>2. ASSUME NEW i \in 1..n, g[i - 1] = h[i - 1] PROVE g[i] = h[i]
      <4>1. i \in 0..n /\ i # 0
        OBVIOUS
      <4>2. g[i] = Scanned(g[i - 1], bytes[i])
        <5> HIDE DEF g
        <5> QED
          BY <1>8, <4>1, Zenon
      <4> HIDE DEF g
      <4> QED
        BY <1>6, <3>2, <4>2, Zenon DEF ScanStep
    <3> HIDE DEF g
    <3> QED
      BY <3>1, <3>2, Zenon DEF SameSteps
  <2> HIDE DEF g
  <2> QED
    BY <2>1, Agreement
<1>10. After(bytes, state) = g[n]
  BY DEF After
<1>11. After(bytes, state) = h[n]
  <2> HIDE DEF g
  <2> QED
    BY <1>9, <1>10 DEF Same
<1> QED
  BY <1>6, <1>11

(* A scan goes on where it was.                                             *)
LEMMA AfterConcat ==
  ASSUME NEW s \in Seq(Nat), NEW t \in Seq(Nat), NEW state \in States
  PROVE  After(s \o t, state) = After(t, After(s, state))
<1>1. PICK m \in Nat, n \in Nat : m = Len(s) /\ n = Len(t)
  BY LenProperties
<1>2. PICK u : u = s \o t
  OBVIOUS
<1>3. u \in Seq(Nat) /\ Follows(u, s, m, t, n)
  BY <1>1, <1>2, ConcatAt, Zenon
<1>4. PICK l \in Nat : l = m + n /\ l = Len(u)
  BY <1>3 DEF Follows
<1>5. PICK f \in [0..m -> States] : ScanStep(f, s, m, state) /\ After(s, state) = f[m]
  BY <1>1, AfterOf
<1>6. PICK middle \in States : middle = f[m]
  OBVIOUS
<1>7. PICK g \in [0..n -> States] : ScanStep(g, t, n, middle) /\ After(t, middle) = g[n]
  BY <1>1, AfterOf
<1>8. PICK h \in [0..l -> States] : ScanStep(h, u, l, state) /\ After(u, state) = h[l]
  BY <1>3, <1>4, AfterOf
<1>9. h[m] = middle
  <2>1. SameSteps(h, f, m)
    <3>1. h[0] = f[0]
      BY <1>5, <1>8, Zenon DEF ScanStep
    <3>2. ASSUME NEW i \in 1..m, h[i - 1] = f[i - 1] PROVE h[i] = f[i]
      <4>1. i \in 1..l
        BY <1>4
      <4>2. u[i] = s[i]
        BY <1>3, Zenon DEF Follows
      <4> QED
        BY <1>5, <1>8, <3>2, <4>1, <4>2, Zenon DEF ScanStep
    <3> QED
      BY <3>1, <3>2, Zenon DEF SameSteps
  <2>2. Same(h, f, m)
    BY <2>1, Agreement
  <2>3. m \in 0..m
    OBVIOUS
  <2> QED
    BY <1>6, <2>2, <2>3, Zenon DEF Same
<1>10. PICK k : k = [i \in 0..n |-> h[m + i]]
  OBVIOUS
<1>11. k[n] = g[n]
  <2>1. SameSteps(k, g, n)
    <3>1. k[0] = g[0]
      <4>1. 0 \in 0..n /\ m + 0 = m
        OBVIOUS
      <4>2. k[0] = h[m]
        BY <1>10, <4>1, Zenon
      <4> QED
        BY <1>7, <1>9, <4>2, Zenon DEF ScanStep
    <3>2. ASSUME NEW i \in 1..n, k[i - 1] = g[i - 1] PROVE k[i] = g[i]
      <4>1. i \in 0..n /\ i - 1 \in 0..n /\ m + i \in 1..l /\ (m + i) - 1 = m + (i - 1)
        BY <1>4
      <4>2. k[i] = h[m + i] /\ k[i - 1] = h[m + (i - 1)]
        BY <1>10, <4>1, Zenon
      <4>3. h[m + i] = Scanned(h[m + (i - 1)], u[m + i])
        <5>1. h[m + i] = Scanned(h[(m + i) - 1], u[m + i])
          BY <1>8, <4>1, Zenon DEF ScanStep
        <5> QED
          BY <4>1, <5>1, Zenon
      <4>4. u[m + i] = t[i]
        BY <1>3, Zenon DEF Follows
      <4>5. g[i] = Scanned(g[i - 1], t[i])
        BY <1>7, Zenon DEF ScanStep
      <4> QED
        BY <3>2, <4>2, <4>3, <4>4, <4>5, Zenon
    <3> QED
      BY <3>1, <3>2, Zenon DEF SameSteps
  <2>2. Same(k, g, n)
    BY <2>1, Agreement
  <2>3. n \in 0..n
    OBVIOUS
  <2> QED
    BY <2>2, <2>3, Zenon DEF Same
<1>12. k[n] = h[l]
  <2>1. n \in 0..n
    OBVIOUS
  <2> QED
    BY <1>4, <1>10, <2>1, Zenon
<1> QED
  BY <1>2, <1>5, <1>6, <1>7, <1>8, <1>11, <1>12, Zenon

(* One byte is scanned ...                                                  *)
LEMMA AfterOne ==
  ASSUME NEW byte \in Nat, NEW state \in States
  PROVE  After(<<byte>>, state) = Scanned(state, byte)
<1>1. PICK s \in Seq(Nat) : s = <<byte>> /\ Len(s) = 1 /\ s[1] = byte
  BY One
<1>2. PICK n \in Nat : n = 1
  OBVIOUS
<1>3. PICK f \in [0..n -> States] : ScanStep(f, s, n, state) /\ After(s, state) = f[n]
  BY <1>1, <1>2, AfterOf
<1>4. f[n] = Scanned(f[n - 1], s[n]) /\ n - 1 = 0 /\ f[0] = state
  BY <1>2, <1>3 DEF ScanStep
<1> QED
  BY <1>1, <1>2, <1>3, <1>4, Zenon

(* ... and none changes nothing.                                            *)
LEMMA AfterNone ==
  ASSUME NEW state \in States
  PROVE  After(<<>>, state) = state
<1>1. PICK s \in Seq(Nat) : s = <<>> /\ Len(s) = 0
  <2>1. <<>> \in Seq(Nat) /\ Len(<<>>) = 0
    BY EmptySeq
  <2> QED
    BY <2>1, Zenon
<1>2. PICK n \in Nat : n = 0
  OBVIOUS
<1>3. PICK f \in [0..n -> States] : ScanStep(f, s, n, state) /\ After(s, state) = f[n]
  BY <1>1, <1>2, AfterOf
<1> QED
  BY <1>1, <1>2, <1>3, Zenon DEF ScanStep

(* The scan has these numbers, and is at the next, which is value so far.   *)
Reading(values, value) == [values |-> values, value |-> value, open |-> TRUE]

(* That is a state.                                                         *)
LEMMA ReadingState ==
  ASSUME NEW v \in Seq(Nat), NEW x \in Nat
  PROVE  Reading(v, x) \in States
  BY DEF Reading, States

(* A digit is appended, ...                                                 *)
LEMMA DigitScanned ==
  ASSUME NEW v \in Seq(Nat), NEW x \in Nat, NEW d \in 0..9
  PROVE  Scanned(Reading(v, x), 48 + d) = Reading(v, 10 * x + d)
<1>1. 48 + d \in 48..57 /\ (48 + d) - 48 = d
  OBVIOUS
<1> QED
  BY <1>1 DEF Scanned, Reading

(* ... a separator ends the number, ...                                     *)
LEMMA SeparatorScanned ==
  ASSUME NEW v \in Seq(Nat), NEW x \in Nat
  PROVE  Scanned(Reading(v, x), Semicolon) = Reading(Append(v, x), 0)
<1>1. Semicolon \notin 48..57 /\ Semicolon # ETX
  BY DEF Semicolon, ETX
<1> QED
  BY <1>1 DEF Scanned, Reading

(* ... and any byte but these ...                                           *)
Skipped == {n \in Nat : n # Semicolon /\ n # ETX /\ (n < 48 \/ n > 57)}

(* ... is skipped.                                                          *)
LEMMA SkippedScanned ==
  ASSUME NEW v \in Seq(Nat), NEW x \in Nat, NEW byte \in Skipped
  PROVE  Scanned(Reading(v, x), byte) = Reading(v, x)
<1>1. byte \notin 48..57 /\ byte \notin {Semicolon, ETX}
  BY DEF Skipped
<1> QED
  BY <1>1 DEF Scanned, Reading

(* Quotients and remainders of natural numbers.                             *)
LEMMA QuotientNat ==
  ASSUME NEW s \in Nat, NEW d \in Nat, d > 0
  PROVE  s \div d \in Nat
  OBVIOUS

(* The last digit of a number.                                              *)
LEMMA LastDigit ==
  ASSUME NEW s \in Nat
  PROVE  \E d \in 0..9 : d = s % 10
  OBVIOUS

(* The digits of a number are read as the number.                           *)
LEMMA NumeralScan ==
  ASSUME NEW v \in Seq(Nat), NEW size \in Magnitude, NEW c \in 1..10, NEW digits,
         Numeral(digits, c, size)
  PROVE  After(digits, Reading(v, 0)) = Reading(v, size)
<1>1. digits \in Seq(Printed) /\ Len(digits) = c
  BY NumeralBytes, Zenon
<1>2. digits \in Seq(Nat)
  BY <1>1 DEF Printed
<1>3. PICK state \in States : state = Reading(v, 0)
  BY ReadingState
<1>4. c \in Nat /\ size \in Nat
  BY DEF Magnitude
<1>5. PICK f \in [0..c -> States] : ScanStep(f, digits, c, state) /\ After(digits, state) = f[c]
  BY <1>1, <1>2, <1>4, AfterOf
<1>6. PICK q : q = [i \in 0..c |-> size \div Power(10, c - i)]
  OBVIOUS
<1>7. \A i \in 0..c : q[i] \in Nat /\ q[i] = size \div Power(10, c - i)
  <2> SUFFICES ASSUME NEW i \in 0..c PROVE q[i] \in Nat /\ q[i] = size \div Power(10, c - i)
    OBVIOUS
  <2>1. c - i \in 0..10
    OBVIOUS
  <2>2. PICK d \in Nat : d = Power(10, c - i) /\ d > 0
    BY <2>1, PowerFacts
  <2>3. size \div d \in Nat
    BY <1>4, <2>2, QuotientNat
  <2> QED
    BY <1>6, <2>2, <2>3
<1>8. q[0] = 0 /\ q[c] = size
  <2>1. q[0] = size \div Power(10, c)
    BY <1>7
  <2>2. q[c] = size \div Power(10, 0)
    BY <1>7
  <2>3. size \div 1 = size
    BY <1>4
  <2> QED
    BY <2>1, <2>2, <2>3, TenPowers DEF Numeral
<1>9. ASSUME NEW i \in 1..c
      PROVE  \E d \in 0..9 : digits[i] = 48 + d /\ 10 * q[i - 1] + d = q[i]
  <2>1. PICK e \in 0..9 : e = c - i
    OBVIOUS
  <2>2. e + 1 = c - (i - 1) /\ i - 1 \in 0..c /\ i \in 0..c
    BY <2>1
  <2>3. q[i - 1] = size \div Power(10, e + 1) /\ q[i] = size \div Power(10, e) /\ q[i] \in Nat
    BY <1>7, <2>1, <2>2
  <2>4. PICK d \in 0..9 : d = q[i] % 10
    BY <2>3, LastDigit
  <2>5. digits[i] = 48 + ((size \div Power(10, e)) % 10)
    BY <2>1 DEF Numeral
  <2>6. 10 * (size \div Power(10, e + 1)) + ((size \div Power(10, e)) % 10)
          = size \div Power(10, e)
    BY <1>4, DigitStep
  <2>7. digits[i] = 48 + d
    BY <2>3, <2>4, <2>5, Zenon
  <2>8. 10 * q[i - 1] + d = q[i]
    BY <2>3, <2>4, <2>6, Zenon
  <2> QED
    BY <2>7, <2>8
<1>10. PICK r : r = [i \in 0..c |-> Reading(v, q[i])]
  OBVIOUS
<1>11. Same(f, r, c)
  <2>1. f[0] = r[0]
    <3>1. 0 \in 0..c
      OBVIOUS
    <3> QED
      BY <1>3, <1>5, <1>8, <1>10, <3>1, Zenon DEF ScanStep
  <2>2. ASSUME NEW i \in 1..c, f[i - 1] = r[i - 1] PROVE f[i] = r[i]
    <3>1. i - 1 \in 0..c /\ i \in 0..c
      OBVIOUS
    <3>2. PICK d \in 0..9 : digits[i] = 48 + d /\ 10 * q[i - 1] + d = q[i]
      BY <1>9
    <3>3. q[i - 1] \in Nat
      BY <1>7, <3>1, Zenon
    <3>4. Scanned(Reading(v, q[i - 1]), 48 + d) = Reading(v, 10 * q[i - 1] + d)
      BY <3>3, DigitScanned, Zenon
    <3>5. f[i] = Scanned(f[i - 1], digits[i])
      BY <1>5, Zenon DEF ScanStep
    <3> QED
      BY <1>10, <2>2, <3>1, <3>2, <3>4, <3>5, Zenon
  <2>3. SameSteps(f, r, c)
    BY <2>1, <2>2, Zenon DEF SameSteps
  <2> QED
    BY <1>4, <2>3, Agreement
<1>12. f[c] = Reading(v, size)
  <2>1. c \in 0..c
    OBVIOUS
  <2> QED
    BY <1>8, <1>10, <1>11, <2>1, Zenon DEF Same
<1> QED
  BY <1>3, <1>5, <1>12, Zenon

(* What is written of a number are numbers, for the scan.                   *)
LEMMA WrittenNats ==
  ASSUME NEW num \in Bounded
  PROVE  Written(num) \in Seq(Nat)
<1>1. Written(num) \in Seq(Printed)
  BY WrittenBytes
<1> QED
  BY <1>1 DEF Printed

(* A number arrives as it was asked for, up to its sign.                    *)
LEMMA WrittenScan ==
  ASSUME NEW num \in Bounded, NEW v \in Seq(Nat)
  PROVE  After(Written(num), Reading(v, 0)) = Reading(v, Size(num))
<1>1. Reading(v, 0) \in States
  BY ReadingState
<1>2. CASE num = 0
  <2>1. Written(num) = <<48>> /\ Size(num) = 0
    BY <1>2 DEF Written, int2str, Size
  <2>2. After(<<48>>, Reading(v, 0)) = Scanned(Reading(v, 0), 48)
    BY <1>1, AfterOne
  <2>3. Scanned(Reading(v, 0), 48 + 0) = Reading(v, 10 * 0 + 0)
    BY DigitScanned
  <2> QED
    BY <2>1, <2>2, <2>3
<1>3. CASE num # 0
  <2>1. PICK c \in 1..10, digits \in Seq(Printed) :
          /\ Numeral(digits, c, Size(num))
          /\ Written(num) = IF num < 0 THEN <<Minus>> \o digits ELSE digits
    BY <1>3, WrittenForm
  <2>2. Size(num) \in Magnitude
    BY DEF Size, Bounded, Magnitude
  <2>3. After(digits, Reading(v, 0)) = Reading(v, Size(num))
    BY <2>1, <2>2, NumeralScan, Zenon
  <2>4. CASE num < 0
    <3>1. digits \in Seq(Printed)
      BY <2>1, <2>2, NumeralBytes, Zenon
    <3>2. digits \in Seq(Nat)
      BY <3>1 DEF Printed
    <3>3. Minus \in Nat /\ Minus \in Skipped
      BY DEF Minus, Skipped, Semicolon, ETX
    <3>4. PICK sign \in Seq(Nat) : sign = <<Minus>>
      BY <3>3, One
    <3>5. After(sign \o digits, Reading(v, 0)) = After(digits, After(sign, Reading(v, 0)))
      BY <1>1, <3>2, AfterConcat
    <3>6. After(sign, Reading(v, 0)) = Scanned(Reading(v, 0), Minus)
      BY <1>1, <3>3, <3>4, AfterOne, Zenon
    <3>7. Scanned(Reading(v, 0), Minus) = Reading(v, 0)
      BY <3>3, SkippedScanned
    <3> QED
      BY <2>1, <2>3, <2>4, <3>4, <3>5, <3>6, <3>7, Zenon
  <2>5. CASE ~(num < 0)
    BY <2>1, <2>3, <2>5, Zenon
  <2> QED
    BY <2>4, <2>5
<1> QED
  BY <1>2, <1>3

(* So are all bytes.                                                        *)
LEMMA OctetNats ==
  ASSUME NEW s \in Seq(Octet)
  PROVE  s \in Seq(Nat)
  BY DEF Octet

(* The numbers that are asked for, without their signs.                     *)
Sizes(numbers, n) == [j \in 1..n |-> Size(numbers[j])]

(* One number more.                                                         *)
LEMMA SizesAppend ==
  ASSUME NEW numbers \in Seq(Bounded), NEW n \in Nat, n = Len(numbers), NEW i \in 1..n
  PROVE  /\ Sizes(numbers, i - 1) \in Seq(Nat) /\ Size(numbers[i]) \in Nat
         /\ Append(Sizes(numbers, i - 1), Size(numbers[i])) = Sizes(numbers, i)
         /\ Sizes(numbers, i) \in Seq(Nat)
<1>1. \A j \in 1..n : numbers[j] \in Bounded
  BY ElementOfSeq
<1>2. \A j \in 1..n : Size(numbers[j]) \in Nat
  BY <1>1 DEF Size, Bounded
<1>3. PICK m \in Nat : m = i - 1
  OBVIOUS
<1>4. PICK s : s = Sizes(numbers, m)
  OBVIOUS
<1>5. s \in Seq(Nat) /\ Len(s) = m /\ \A j \in 1..m : s[j] = Size(numbers[j])
  <2>1. \A j \in 1..m : Size(numbers[j]) \in Nat
    BY <1>2, <1>3
  <2>2. s \in [1..m -> Nat]
    BY <1>4, <2>1 DEF Sizes
  <2> QED
    BY <1>4, <2>2 DEF Sizes
<1>6. PICK t : t = Sizes(numbers, i)
  OBVIOUS
<1>7. t \in Seq(Nat) /\ Len(t) = i /\ \A j \in 1..i : t[j] = Size(numbers[j])
  <2>1. \A j \in 1..i : Size(numbers[j]) \in Nat
    BY <1>2
  <2>2. t \in [1..i -> Nat]
    BY <1>6, <2>1 DEF Sizes
  <2> QED
    BY <1>6, <2>2 DEF Sizes
<1>8. PICK u \in Seq(Nat) : u = Append(s, Size(numbers[i]))
  <2>1. Size(numbers[i]) \in Nat
    BY <1>2
  <2>2. s \in Seq(Nat)
    BY <1>5
  <2>3. Append(s, Size(numbers[i])) \in Seq(Nat)
    BY <2>1, <2>2, AppendProperties
  <2> QED
    BY <2>3
<1>9. Len(u) = i /\ \A j \in 1..i : u[j] = Size(numbers[j])
  <2>1. Len(u) = m + 1 /\ \A j \in 1..m : u[j] = s[j]
    BY <1>2, <1>5, <1>8, AppendProperties
  <2>2. u[m + 1] = Size(numbers[i])
    BY <1>2, <1>5, <1>8, AppendProperties
  <2> QED
    BY <1>3, <1>5, <2>1, <2>2
<1>10. u = t
  <2>1. u \in Seq(Nat) /\ t \in Seq(Nat) /\ Len(u) = Len(t)
    BY <1>7, <1>9
  <2>2. \A j \in 1..Len(u) : u[j] = t[j]
    BY <1>7, <1>9
  <2> QED
    BY <2>1, <2>2, SeqEqual
<1> QED
  BY <1>2, <1>3, <1>4, <1>5, <1>6, <1>7, <1>8, <1>10, Zenon

(* The numbers of a list are read in their order, the last one open.        *)
LEMMA JoinedScan ==
  ASSUME NEW numbers \in Seq(Bounded), NEW n \in Nat, n = Len(numbers), n # 0
  PROVE  After(Joined(numbers), Start) = Reading(Sizes(numbers, n - 1), Size(numbers[n]))
<1>1. PICK f \in [0..n -> Seq(Printed)] : JoinStep(f, numbers, n) /\ Joined(numbers) = f[n]
  BY JoinedOf
<1>2. \A i \in 1..n : numbers[i] \in Bounded
  BY ElementOfSeq
<1> DEFINE ReadUpTo(i) == After(f[i], Start) = Reading(Sizes(numbers, i - 1), Size(numbers[i]))
           S == {i \in 0..n : i = 0 \/ ReadUpTo(i)}
<1>3. 0 \in S
  OBVIOUS
<1>4. ASSUME NEW i \in 0..n - 1, i \in S
      PROVE  i + 1 \in S
  <2>1. i + 1 \in 1..n /\ i + 1 \in 0..n /\ (i + 1) - 1 = i
    OBVIOUS
  <2>2. PICK num \in Bounded : num = numbers[i + 1]
    BY <1>2, <2>1
  <2>3. CASE i = 0
    <3>1. f[i + 1] = Written(num)
      <4>1. i + 1 = 1
        BY <2>3
      <4> QED
        BY <1>1, <2>1, <2>2, <4>1, Zenon DEF JoinStep
    <3>2. Sizes(numbers, i) = <<>> /\ <<>> \in Seq(Nat)
      BY <2>3 DEF Sizes
    <3>3. Start = Reading(<<>>, 0)
      BY DEF Start, Reading
    <3>4. After(Written(num), Reading(<<>>, 0)) = Reading(<<>>, Size(num))
      BY <3>2, WrittenScan, Zenon
    <3>5. ReadUpTo(i + 1)
      BY <2>1, <2>2, <3>1, <3>2, <3>3, <3>4, Zenon
    <3> HIDE DEF ReadUpTo
    <3> QED
      BY <2>1, <3>5
  <2>4. CASE i # 0
    <3>1. ReadUpTo(i) /\ i \in 1..n
      BY <1>4, <2>4
    <3>2. /\ Sizes(numbers, i - 1) \in Seq(Nat) /\ Size(numbers[i]) \in Nat
          /\ Append(Sizes(numbers, i - 1), Size(numbers[i])) = Sizes(numbers, i)
          /\ Sizes(numbers, i) \in Seq(Nat)
      BY <3>1, SizesAppend, Zenon
    <3>3. Sizes(numbers, i) \in Seq(Nat)
      BY <3>2
    <3>4. PICK text : text = f[i]
      OBVIOUS
    <3>5. text \in Seq(Nat)
      <4>1. text \in Seq(Printed)
        <5>1. i \in 0..n
          OBVIOUS
        <5> QED
          BY <3>4, <5>1, Zenon
      <4> QED
        BY <4>1 DEF Printed
    <3>6. PICK one : one = <<Semicolon>>
      OBVIOUS
    <3>7. one \in Seq(Nat) /\ Semicolon \in Nat
      BY <3>6 DEF Semicolon
    <3>8. PICK written : written = Written(num)
      OBVIOUS
    <3>9. written \in Seq(Nat)
      BY <3>8, WrittenNats, Zenon
    <3>10. f[i + 1] = (text \o one) \o written
      <4>1. i + 1 # 1
        BY <2>4
      <4> QED
        BY <1>1, <2>1, <2>2, <3>4, <3>6, <3>8, <4>1, Zenon DEF JoinStep
    <3>11. text \o one \in Seq(Nat)
      BY <3>5, <3>7, ConcatParts, Zenon
    <3>12. After(f[i + 1], Start) = After(written, After(text \o one, Start))
      BY <3>9, <3>10, <3>11, StartsAsState, AfterConcat, Zenon
    <3>13. After(text \o one, Start) = After(one, After(text, Start))
      BY <3>5, <3>7, StartsAsState, AfterConcat, Zenon
    <3>14. After(text, Start) = Reading(Sizes(numbers, i - 1), Size(numbers[i]))
      BY <3>1, <3>4, Zenon
    <3>15. Reading(Sizes(numbers, i - 1), Size(numbers[i])) \in States
      BY <3>2, ReadingState, Zenon
    <3>16. After(one, After(text, Start)) = Scanned(After(text, Start), Semicolon)
      BY <3>6, <3>7, <3>14, <3>15, AfterOne, Zenon
    <3>17. Scanned(After(text, Start), Semicolon) = Reading(Sizes(numbers, i), 0)
      BY <3>2, <3>14, SeparatorScanned, Zenon
    <3>18. After(written, Reading(Sizes(numbers, i), 0)) = Reading(Sizes(numbers, i), Size(num))
      BY <3>3, <3>8, WrittenScan, Zenon
    <3>19. ReadUpTo(i + 1)
      BY <2>1, <2>2, <3>12, <3>13, <3>16, <3>17, <3>18, Zenon
    <3> HIDE DEF ReadUpTo
    <3> QED
      BY <2>1, <3>19
  <2> HIDE DEF S
  <2> QED
    BY <2>3, <2>4
<1>5. n \in S
  <2> HIDE DEF S
  <2>1. \A i \in 0..n : i \in S
    BY <1>3, <1>4, Induction
  <2> QED
    BY <2>1
<1>6. ReadUpTo(n)
  <2> HIDE DEF ReadUpTo
  <2> QED
    BY <1>5
<1> QED
  BY <1>1, <1>6, Zenon

(* ETX ends the last number, and the LRC is not read.                       *)
LEMMA ClosedScan ==
  ASSUME NEW s \in Seq(Nat), NEW v \in Seq(Nat), NEW x \in Nat,
         After(s, Start) = Reading(v, x), NEW lrc \in Nat
  PROVE  str2int((s \o <<ETX>>) \o <<lrc>>) = Append(v, x)
<1>1. PICK end : end = <<ETX>>
  OBVIOUS
<1>2. PICK last : last = <<lrc>>
  OBVIOUS
<1>3. end \in Seq(Nat) /\ last \in Seq(Nat) /\ ETX \in Nat
  BY <1>1, <1>2 DEF ETX
<1>4. s \o end \in Seq(Nat)
  BY <1>3, ConcatParts, Zenon
<1>5. After((s \o end) \o last, Start) = After(last, After(s \o end, Start))
  BY <1>3, <1>4, StartsAsState, AfterConcat, Zenon
<1>6. After(s \o end, Start) = After(end, After(s, Start))
  BY <1>3, StartsAsState, AfterConcat, Zenon
<1>7. Reading(v, x) \in States
  BY ReadingState
<1>8. After(end, After(s, Start)) = Scanned(Reading(v, x), ETX)
  BY <1>1, <1>3, <1>7, AfterOne, Zenon
<1>9. PICK closed : closed = [values |-> Append(v, x), value |-> 0, open |-> FALSE]
  OBVIOUS
<1>10. Scanned(Reading(v, x), ETX) = closed
  <2>1. ETX \notin 48..57 /\ ETX \in {Semicolon, ETX}
    BY DEF ETX, Semicolon
  <2> QED
    BY <1>9, <2>1 DEF Scanned, Reading
<1>11. closed \in States
  <2>1. Scanned(Reading(v, x), ETX) \in States
    BY <1>3, <1>7, ScannedState, Zenon
  <2> QED
    BY <1>10, <2>1
<1>12. After(last, closed) = Scanned(closed, lrc)
  BY <1>2, <1>11, AfterOne, Zenon
<1>13. Scanned(closed, lrc) = closed /\ closed.values = Append(v, x)
  BY <1>9 DEF Scanned
<1>14. After((s \o end) \o last, Start) = closed
  BY <1>5, <1>6, <1>8, <1>10, <1>12, <1>13, Zenon
<1>15. str2int((s \o end) \o last) = After((s \o end) \o last, Start).values
  BY ScanBytes
<1> QED
  BY <1>1, <1>2, <1>13, <1>14, <1>15, Zenon

(* A skipped byte alone.                                                    *)
LEMMA SkippedScan ==
  ASSUME NEW byte \in Skipped, NEW v \in Seq(Nat), NEW x \in Nat
  PROVE  After(<<byte>>, Reading(v, x)) = Reading(v, x)
<1>1. byte \in Nat /\ Reading(v, x) \in States
  BY ReadingState DEF Skipped
<1>2. After(<<byte>>, Reading(v, x)) = Scanned(Reading(v, x), byte)
  BY <1>1, AfterOne, Zenon
<1> QED
  BY <1>2, SkippedScanned, Zenon

(* STX and the letters are skipped: a packet is read as its body is.        *)
LEMMA PacketScan ==
  ASSUME NEW letters \in Letters, NEW body \in Seq(Octet),
         NEW v \in Seq(Nat), NEW x \in Nat, After(body, Start) = Reading(v, x)
  PROVE  str2int(Framed(letters, body)) = Append(v, x)
<1>1. PICK a \in Letter, b \in Letter : a = Ascii[letters[1]] /\ b = Ascii[letters[2]]
  BY LetterBytes
<1>2. a \in Octet /\ b \in Octet /\ a \in Skipped /\ b \in Skipped
  BY DEF Letter, Octet, Skipped, Semicolon, ETX
<1>3. STX \in Octet /\ ETX \in Octet /\ STX \in Skipped
  BY DEF STX, ETX, Octet, Skipped, Semicolon
<1>4. PICK start : start = <<STX>>
  OBVIOUS
<1>5. PICK first : first = <<a>>
  OBVIOUS
<1>6. PICK second : second = <<b>>
  OBVIOUS
<1>7. PICK end : end = <<ETX>>
  OBVIOUS
<1>8. start \in Seq(Octet) /\ first \in Seq(Octet) /\ second \in Seq(Octet) /\ end \in Seq(Octet)
  BY <1>2, <1>3, <1>4, <1>5, <1>6, <1>7, One, Zenon
<1>9. PICK pair : pair = first \o second
  OBVIOUS
<1>10. pair \in Seq(Octet) /\ pair = <<a, b>>
  BY <1>2, <1>5, <1>6, <1>8, <1>9, PairOf, PairOfOnes, Zenon
<1>11. PICK front : front = pair \o body
  OBVIOUS
<1>12. front \in Seq(Octet)
  BY <1>10, <1>11, PairOf, Zenon
<1>13. PICK lrc \in Octet : lrc = make_lrc(front \o end)
  <2>1. front \o end \in Seq(Octet)
    BY <1>8, <1>12, PairOf, Zenon
  <2>2. 0 \in Octet
    BY DEF Octet
  <2>3. make_lrc(front \o end) \in Octet
    BY <2>1, <2>2, LrcAppend, Zenon
  <2> QED
    BY <2>3
<1>14. PICK s : s = start \o front
  OBVIOUS
<1>15. s \in Seq(Octet)
  BY <1>8, <1>12, <1>14, PairOf, Zenon
<1>16. Framed(letters, body) = (s \o <<ETX>>) \o <<lrc>>
  <2>1. (start \o front) \o end = start \o (front \o end)
    <3>1. start \in Seq(Octet) /\ end \in Seq(Octet)
      BY <1>8
    <3> QED
      BY <1>12, <3>1, Associative, Zenon
  <2>2. Framed(letters, body) = (<<STX>> \o (front \o end)) \o <<lrc>>
    BY <1>1, <1>7, <1>10, <1>11, <1>13, Zenon DEF Framed
  <2> QED
    BY <1>4, <1>7, <1>14, <2>1, <2>2, Zenon
<1>17. Start = Reading(<<>>, 0) /\ <<>> \in Seq(Nat) /\ 0 \in Nat
  BY DEF Start, Reading
<1>18. After(start, Start) = Start /\ After(first, Start) = Start /\ After(second, Start) = Start
  BY <1>2, <1>3, <1>4, <1>5, <1>6, <1>17, SkippedScan, Zenon
<1>19. /\ start \in Seq(Nat) /\ first \in Seq(Nat) /\ second \in Seq(Nat) /\ body \in Seq(Nat)
       /\ pair \in Seq(Nat) /\ front \in Seq(Nat) /\ s \in Seq(Nat)
  BY <1>8, <1>10, <1>12, <1>15, OctetNats, Zenon
<1>20. After(pair, Start) = Start
  <2>1. After(first \o second, Start) = After(second, After(first, Start))
    BY <1>19, StartsAsState, AfterConcat, Zenon
  <2> QED
    BY <1>9, <1>18, <2>1, Zenon
<1>21. After(front, Start) = Reading(v, x)
  <2>1. After(pair \o body, Start) = After(body, After(pair, Start))
    BY <1>19, StartsAsState, AfterConcat, Zenon
  <2> QED
    BY <1>11, <1>20, <2>1, Zenon
<1>22. After(s, Start) = Reading(v, x)
  <2>1. After(start \o front, Start) = After(front, After(start, Start))
    BY <1>19, StartsAsState, AfterConcat, Zenon
  <2> QED
    BY <1>14, <1>18, <1>21, <2>1, Zenon
<1>23. lrc \in Nat
  BY DEF Octet
<1>24. str2int((s \o <<ETX>>) \o <<lrc>>) = Append(v, x)
  <2>1. s \in Seq(Nat)
    BY <1>19, Zenon
  <2> QED
    BY <1>22, <1>23, <2>1, ClosedScan, Zenon
<1> QED
  BY <1>16, <1>24, Zenon

(* Two bytes follow the letters, and then a number, up to ETX.              *)
TwoAndNumber(bytes, p, q, x) ==
  /\ bytes[4] = p /\ bytes[5] = q
  /\ str2int(SubSeq(bytes, 6, Len(bytes)))[1] = x

(* The number behind two digits is read without them.                       *)
LEMMA TailScan ==
  ASSUME NEW letters, NEW p \in Octet, NEW q \in Octet, NEW rest \in Seq(Octet),
         NEW m \in Nat, m = Len(rest), NEW bytes,
         Carries(bytes, letters, <<p, q>> \o rest, m + 2),
         NEW x \in Nat, After(rest, Start) = Reading(<<>>, x)
  PROVE  TwoAndNumber(bytes, p, q, x)
<1>1. PICK pair : pair = <<p, q>>
  OBVIOUS
<1>2. pair \in Seq(Octet) /\ Len(pair) = 2 /\ pair[1] = p /\ pair[2] = q
  BY <1>1, Two, Zenon
<1>3. PICK body : body = pair \o rest
  OBVIOUS
<1>4. body \in Seq(Octet) /\ Follows(body, pair, 2, rest, m)
  <2>1. pair \in Seq(Octet) /\ 2 = Len(pair) /\ 2 \in Nat
    BY <1>2
  <2> QED
    BY <1>3, <2>1, ConcatAt, Zenon
<1>5. Carries(bytes, letters, body, m + 2)
  BY <1>1, <1>3
<1>6. body[1] = p /\ body[2] = q /\ \A i \in 1..m : body[2 + i] = rest[i]
  BY <1>2, <1>4 DEF Follows
<1>7. bytes \in Seq(Octet) /\ Len(bytes) = m + 7 /\ bytes[m + 6] = ETX
  <2>1. (m + 2) + 5 = m + 7 /\ (m + 2) + 4 = m + 6
    OBVIOUS
  <2> QED
    BY <1>5, <2>1, Zenon DEF Carries
<1>8. bytes[4] = p /\ bytes[5] = q /\ \A i \in 1..m : bytes[5 + i] = rest[i]
  <2>1. \A i \in 1..m + 2 : bytes[3 + i] = body[i]
    BY <1>5, Zenon DEF Carries
  <2>2. bytes[4] = body[1] /\ bytes[5] = body[2]
    <3>1. 1 \in 1..m + 2 /\ 2 \in 1..m + 2 /\ 3 + 1 = 4 /\ 3 + 2 = 5
      OBVIOUS
    <3> QED
      BY <2>1, <3>1, Zenon
  <2>3. ASSUME NEW i \in 1..m PROVE bytes[5 + i] = rest[i]
    <3>1. 2 + i \in 1..m + 2 /\ 3 + (2 + i) = 5 + i
      OBVIOUS
    <3> QED
      BY <1>6, <2>1, <3>1, Zenon
  <2> QED
    BY <1>6, <2>2, <2>3, Zenon
<1>9. PICK lrc \in Octet : lrc = bytes[m + 7]
  <2>1. m + 7 \in 1..Len(bytes)
    BY <1>7
  <2> QED
    BY <1>7, <2>1, ElementOfSeq
<1>10. PICK end : end = <<ETX>>
  OBVIOUS
<1>11. PICK last : last = <<lrc>>
  OBVIOUS
<1>12. end \in Seq(Octet) /\ Len(end) = 1 /\ end[1] = ETX
  <2>1. ETX \in Octet
    BY DEF ETX, Octet
  <2> QED
    BY <1>10, <2>1, One, Zenon
<1>13. last \in Seq(Octet) /\ Len(last) = 1 /\ last[1] = lrc
  BY <1>11, One, Zenon
<1>14. PICK t : t = rest \o end
  OBVIOUS
<1>15. t \in Seq(Octet) /\ Follows(t, rest, m, end, 1)
  <2>1. end \in Seq(Octet) /\ 1 = Len(end) /\ 1 \in Nat
    BY <1>12
  <2> QED
    BY <1>14, <2>1, ConcatAt, Zenon
<1>16. PICK u : u = t \o last
  OBVIOUS
<1>17. u \in Seq(Octet) /\ Follows(u, t, m + 1, last, 1)
  <2>1. last \in Seq(Octet) /\ 1 = Len(last) /\ 1 \in Nat /\ m + 1 = Len(t) /\ m + 1 \in Nat
    BY <1>13, <1>15 DEF Follows
  <2>2. t \in Seq(Octet)
    BY <1>15
  <2> QED
    BY <1>16, <2>1, <2>2, ConcatAt, Zenon
<1>18. Len(u) = m + 2 /\ u[m + 1] = ETX /\ u[m + 2] = lrc /\ \A i \in 1..m : u[i] = rest[i]
  <2>1. Len(u) = (m + 1) + 1 /\ \A i \in 1..m + 1 : u[i] = t[i]
    BY <1>17, Zenon DEF Follows
  <2>2. u[(m + 1) + 1] = lrc
    BY <1>13, <1>17 DEF Follows
  <2>3. t[m + 1] = ETX /\ \A i \in 1..m : t[i] = rest[i]
    BY <1>12, <1>15 DEF Follows
  <2>4. (m + 1) + 1 = m + 2 /\ m + 1 \in 1..m + 1
    OBVIOUS
  <2>5. ASSUME NEW i \in 1..m PROVE u[i] = rest[i]
    <3>1. i \in 1..m + 1
      OBVIOUS
    <3> QED
      BY <2>1, <2>3, <3>1, Zenon
  <2>6. u[m + 1] = ETX
    BY <2>1, <2>3, <2>4, Zenon
  <2> QED
    BY <2>1, <2>2, <2>4, <2>5, <2>6, Zenon
<1>19. PICK w : w = SubSeq(bytes, 6, m + 7)
  OBVIOUS
<1>20. w \in Seq(Octet) /\ Len(w) = m + 2 /\ \A i \in 1..m + 2 : w[i] = bytes[5 + i]
  BY <1>7, <1>19, SubSeqProperties
<1>21. w = u
  <2>1. ASSUME NEW i \in 1..m + 2 PROVE w[i] = u[i]
    <3>1. w[i] = bytes[5 + i]
      BY <1>20
    <3>2. CASE i \in 1..m
      BY <1>8, <1>18, <3>1, <3>2, Zenon
    <3>3. CASE i = m + 1
      <4>1. 5 + i = m + 6
        BY <3>3
      <4> QED
        BY <1>7, <1>18, <3>1, <3>3, <4>1, Zenon
    <3>4. CASE i = m + 2
      <4>1. 5 + i = m + 7
        BY <3>4
      <4> QED
        BY <1>9, <1>18, <3>1, <3>4, <4>1, Zenon
    <3> QED
      BY <3>2, <3>3, <3>4
  <2>2. w \in Seq(Octet) /\ u \in Seq(Octet) /\ Len(w) = Len(u)
    BY <1>17, <1>18, <1>20
  <2>3. \A i \in 1..Len(w) : w[i] = u[i]
    BY <1>20, <2>1
  <2> QED
    BY <2>2, <2>3, SeqEqual
<1>22. str2int(u) = Append(<<>>, x)
  <2>1. rest \in Seq(Nat) /\ lrc \in Nat /\ <<>> \in Seq(Nat)
    BY OctetNats DEF Octet
  <2>2. u = (rest \o <<ETX>>) \o <<lrc>>
    BY <1>10, <1>11, <1>14, <1>16, Zenon
  <2>3. str2int((rest \o <<ETX>>) \o <<lrc>>) = Append(<<>>, x)
    BY <2>1, ClosedScan, Zenon
  <2> QED
    BY <2>2, <2>3, Zenon
<1>23. Append(<<>>, x)[1] = x
  OBVIOUS
<1> QED
  BY <1>7, <1>8, <1>19, <1>21, <1>22, <1>23, Zenon DEF TwoAndNumber

(* The letters of the requests that are not read as a list.                 *)
Special == {<<"P", "O">>, <<"P", "E">>, <<"D", "B">>, <<"B", "D">>, <<"X", "B">>}

(* All others are.                                                          *)
LEMMA OrdinaryHeard ==
  ASSUME asked.letters \notin Special
  PROVE  Heard = str2int(packet)
  BY DEF Heard, Special

(* Lists, switches and questions are among the others.                      *)
LEMMA OrdinaryLetters ==
  ASSUME NEW letters \in Lists \cup Switches \cup ReadLetters
  PROVE  letters \notin Special /\ letters # <<"B", "V">> /\ letters \in Letters
<1>1. CASE letters \in Lists
  BY <1>1 DEF Lists, Special, Letters
<1>2. CASE letters \in Switches
  BY <1>2 DEF Switches, Special, Letters
<1>3. CASE letters \in ReadLetters
  BY <1>3 DEF ReadLetters, Special, Letters
<1> QED
  BY <1>1, <1>2, <1>3

(* The scan starts at the first number.                                     *)
LEMMA StartReads == Start = Reading(<<>>, 0) /\ <<>> \in Seq(Nat) /\ 0 \in Nat
  BY DEF Start, Reading

(* Nothing between the letters and ETX is read as 0.                        *)
LEMMA NothingHeard ==
  ASSUME NEW letters \in Letters
  PROVE  str2int(Framed(letters, <<>>)) = <<0>>
<1>1. PICK body \in Seq(Octet) : body = <<>>
  <2>1. <<>> \in Seq(Octet)
    BY EmptySeq
  <2> QED
    BY <2>1
<1>2. After(body, Start) = Reading(<<>>, 0)
  BY <1>1, StartReads, StartsAsState, AfterNone, Zenon
<1>3. str2int(Framed(letters, body)) = Append(<<>>, 0)
  BY <1>2, StartReads, PacketScan, Zenon
<1>4. Append(<<>>, 0) = <<0>>
  OBVIOUS
<1> QED
  BY <1>1, <1>3, <1>4, Zenon

(* A list of any length is understood.                                      *)
LEMMA ListUnderstood ==
  ASSUME NEW letters \in Lists, NEW numbers \in Seq(Bounded), SentAs(Listed(letters, numbers))
  PROVE  Understood
<1>1. PICK n \in Nat : n = Len(numbers)
  BY LenProperties
<1>2. packet = Framed(letters, Joined(numbers)) /\ asked.letters = letters
      /\ asked.numbers = numbers
  BY DEF SentAs, Listed, Request
<1>3. letters \notin Special /\ letters # <<"B", "V">> /\ letters \in Letters
  BY OrdinaryLetters
<1>4. Heard = str2int(packet)
  BY <1>2, <1>3, OrdinaryHeard, Zenon
<1>5. CASE n = 0
  <2>1. PICK f \in [0..n -> Seq(Printed)] : JoinStep(f, numbers, n) /\ Joined(numbers) = f[n]
    BY <1>1, JoinedOf
  <2>2. Joined(numbers) = <<>>
    BY <1>5, <2>1, Zenon DEF JoinStep
  <2>3. numbers = <<>>
    BY <1>1, <1>5, EmptySeq
  <2>4. Heard = <<0>>
    BY <1>2, <1>3, <1>4, <2>2, NothingHeard, Zenon
  <2> QED
    BY <1>2, <1>3, <2>3, <2>4, Zenon DEF Understood
<1>6. CASE n # 0
  <2>1. PICK body : body = Joined(numbers)
    OBVIOUS
  <2>2. body \in Seq(Octet)
    BY <2>1, JoinedBytes, PrintedOctets, Zenon
  <2>3. After(body, Start) = Reading(Sizes(numbers, n - 1), Size(numbers[n]))
    BY <1>1, <1>6, <2>1, JoinedScan, Zenon
  <2>4. /\ Sizes(numbers, n - 1) \in Seq(Nat) /\ Size(numbers[n]) \in Nat
        /\ Append(Sizes(numbers, n - 1), Size(numbers[n])) = Sizes(numbers, n)
    <3>1. n \in 1..n
      BY <1>6
    <3> QED
      BY <1>1, <3>1, SizesAppend, Zenon
  <2>5. str2int(Framed(letters, body)) = Append(Sizes(numbers, n - 1), Size(numbers[n]))
    BY <1>3, <2>2, <2>3, <2>4, PacketScan, Zenon
  <2>6. DOMAIN numbers = 1..n
    BY <1>1, LenProperties
  <2>7. Sizes(numbers, n) = [i \in DOMAIN numbers |-> Size(numbers[i])]
    BY <2>6, Zenon DEF Sizes
  <2>8. numbers # <<>>
    BY <1>1, <1>6
  <2>9. Heard = [i \in DOMAIN numbers |-> Size(numbers[i])]
    BY <1>2, <1>4, <2>1, <2>4, <2>5, <2>7, Zenon
  <2> QED
    BY <1>2, <1>3, <2>8, <2>9 DEF Understood
<1> QED
  BY <1>5, <1>6

(* A request that carries nothing is read as 0.                             *)
LEMMA QuestionUnderstood ==
  ASSUME NEW request \in Questions, SentAs(request)
  PROVE  Understood
<1>1. PICK letters \in ReadLetters : request = Request(letters, <<>>, <<>>)
  BY DEF Questions
<1>2. packet = Framed(letters, <<>>) /\ asked.letters = letters /\ asked.numbers = <<>>
  BY <1>1 DEF SentAs, Request
<1>3. letters \notin Special /\ letters # <<"B", "V">> /\ letters \in Letters
  BY OrdinaryLetters
<1>4. Heard = <<0>>
  BY <1>2, <1>3, OrdinaryHeard, NothingHeard, Zenon
<1> QED
  BY <1>2, <1>3, <1>4, Zenon DEF Understood

(* A digit is understood.                                                   *)
LEMMA SwitchUnderstood ==
  ASSUME NEW letters \in Switches, NEW digit \in 0..2,
         SentAs(Request(letters, <<digit>>, <<48 + digit>>))
  PROVE  Understood
<1>1. packet = Framed(letters, <<48 + digit>>) /\ asked.letters = letters
      /\ asked.numbers = <<digit>>
  BY DEF SentAs, Request
<1>2. letters \notin Special /\ letters # <<"B", "V">> /\ letters \in Letters
  BY OrdinaryLetters
<1>3. PICK byte \in Octet : byte = 48 + digit
  BY DEF Octet
<1>4. PICK body \in Seq(Octet) : body = <<byte>>
  BY One
<1>5. After(body, Start) = Reading(<<>>, digit)
  <2>1. byte \in Nat
    BY DEF Octet
  <2>2. After(body, Start) = Scanned(Start, byte)
    BY <1>4, <2>1, StartsAsState, AfterOne, Zenon
  <2>3. digit \in 0..9 /\ 10 * 0 + digit = digit
    OBVIOUS
  <2>4. Scanned(Reading(<<>>, 0), 48 + digit) = Reading(<<>>, 10 * 0 + digit)
    BY <2>3, StartReads, DigitScanned, Zenon
  <2> QED
    BY <1>3, <2>2, <2>3, <2>4, StartReads, Zenon
<1>6. str2int(Framed(letters, body)) = Append(<<>>, digit)
  <2>1. digit \in Nat
    OBVIOUS
  <2> QED
    BY <1>2, <1>5, <2>1, StartReads, PacketScan, Zenon
<1>7. Heard = Append(<<>>, digit)
  BY <1>1, <1>2, <1>3, <1>4, <1>6, OrdinaryHeard, Zenon
<1>8. Append(<<>>, digit) = [i \in DOMAIN <<digit>> |-> Size(<<digit>>[i])] /\ <<digit>> # <<>>
  BY DEF Size
<1> QED
  BY <1>1, <1>2, <1>7, <1>8, Zenon DEF Understood

(* How the others are read.                                                 *)
LEMMA SpecialHeard ==
  /\ asked.letters \in {<<"P", "O">>, <<"P", "E">>} => Heard = <<(packet[4] + 208) % 256>>
  /\ asked.letters = <<"D", "B">> => Heard = <<packet[4] - 48, packet[5] - 48>>
  /\ asked.letters = <<"B", "D">> => Heard = <<packet[4] - 48, packet[5] - 48, Tailing(6)>>
  /\ asked.letters = <<"X", "B">> =>
       Heard = <<10 * (packet[4] - 48) + (packet[5] - 48), Tailing(6)>>
  BY DEF Heard

(* A request of known letters carries its body.                             *)
LEMMA CarriesBody ==
  ASSUME NEW letters \in Letters, NEW body \in Seq(Octet), NEW n \in Nat, n = Len(body)
  PROVE  Carries(Framed(letters, body), letters, body, n)
<1>1. Ascii[letters[1]] \in Letter /\ Ascii[letters[2]] \in Letter
  BY LetterBytes
<1>2. Ascii[letters[1]] \in Octet /\ Ascii[letters[2]] \in Octet
  BY <1>1 DEF Letter, Octet
<1> QED
  BY <1>2, FramedFacts, Zenon

(* Two and three numbers, without their signs.                              *)
LEMMA SizesOfTwo ==
  ASSUME NEW a, NEW b
  PROVE  [i \in DOMAIN <<a, b>> |-> Size(<<a, b>>[i])] = <<Size(a), Size(b)>>
  OBVIOUS

LEMMA SizesOfThree ==
  ASSUME NEW a, NEW b, NEW c
  PROVE  [i \in DOMAIN <<a, b, c>> |-> Size(<<a, b, c>>[i])] = <<Size(a), Size(b), Size(c)>>
  OBVIOUS

(* Eight outputs in a byte are understood, 48 and all.                      *)
LEMMA OutputsUnderstood ==
  ASSUME NEW letters \in {<<"P", "O">>, <<"P", "E">>}, NEW ports \in [0..7 -> 0..1],
         SentAs(Outputs(letters, ports))
  PROVE  Understood
<1>1. PICK value \in Nat : value = binaryToDecimal(Decimal(ports)) /\ value < 256
  BY OutputValue
<1>2. PICK byte \in Octet : byte = (value + 48) % 256
  <2>1. (value + 48) % 256 \in Octet
    BY DEF Octet
  <2> QED
    BY <2>1
<1>3. PICK body : body = <<byte>>
  OBVIOUS
<1>4. packet = Framed(letters, body) /\ asked.letters = letters /\ asked.numbers = <<value>>
  BY <1>1, <1>2, <1>3 DEF SentAs, Outputs, Request
<1>5. letters \in Letters /\ letters # <<"B", "V">>
  BY DEF Letters, Binary
<1>6. body \in Seq(Octet) /\ Len(body) = 1 /\ body[1] = byte
  BY <1>3, One, Zenon
<1>7. Carries(packet, letters, body, 1)
  <2>1. 1 \in Nat /\ 1 = Len(body) /\ body \in Seq(Octet)
    BY <1>6
  <2> QED
    BY <1>4, <1>5, <2>1, CarriesBody, Zenon
<1>8. packet[4] = byte
  <2>1. 1 \in 1..1 /\ 3 + 1 = 4
    OBVIOUS
  <2> QED
    BY <1>6, <1>7, <2>1, Zenon DEF Carries
<1>9. (byte + 208) % 256 = value
  BY <1>1, <1>2 DEF Octet
<1>10. Heard = <<value>>
  BY <1>4, <1>8, <1>9, SpecialHeard, Zenon
<1>11. <<value>> = [i \in DOMAIN <<value>> |-> Size(<<value>>[i])] /\ <<value>> # <<>>
  BY DEF Size
<1> QED
  BY <1>4, <1>5, <1>10, <1>11, Zenon DEF Understood

(* Two bytes and a number are read as such.                                 *)
LEMMA TailingHeard ==
  ASSUME NEW letters \in Letters, NEW p \in Octet, NEW q \in Octet, NEW data \in Bounded,
         packet = Framed(letters, <<p, q>> \o Written(data))
  PROVE  packet[4] = p /\ packet[5] = q /\ Tailing(6) = Size(data)
<1>1. PICK rest : rest = Written(data)
  OBVIOUS
<1>2. rest \in Seq(Octet)
  BY <1>1, WrittenBytes, PrintedOctets, Zenon
<1>3. PICK m \in Nat : m = Len(rest)
  BY <1>2, LenProperties
<1>4. PICK pair : pair = <<p, q>>
  OBVIOUS
<1>5. pair \in Seq(Octet) /\ Len(pair) = 2
  BY <1>4, Two, Zenon
<1>6. PICK body : body = pair \o rest
  OBVIOUS
<1>7. body \in Seq(Octet) /\ Len(body) = m + 2
  <2>1. pair \in Seq(Octet) /\ 2 = Len(pair) /\ 2 \in Nat
    BY <1>5
  <2>2. body \in Seq(Octet) /\ Follows(body, pair, 2, rest, m)
    BY <1>2, <1>3, <1>6, <2>1, ConcatAt, Zenon
  <2> QED
    BY <2>2 DEF Follows
<1>8. Carries(packet, letters, <<p, q>> \o rest, m + 2)
  <2>1. m + 2 \in Nat /\ m + 2 = Len(body) /\ body \in Seq(Octet)
    BY <1>7
  <2>2. Carries(Framed(letters, body), letters, body, m + 2)
    BY <2>1, CarriesBody, Zenon
  <2>3. packet = Framed(letters, body) /\ body = <<p, q>> \o rest
    BY <1>1, <1>4, <1>6, Zenon
  <2> QED
    BY <2>2, <2>3, Zenon
<1>9. PICK x \in Nat : x = Size(data)
  BY DEF Size, Bounded
<1>10. After(rest, Start) = Reading(<<>>, x)
  BY <1>1, <1>9, StartReads, WrittenScan, Zenon
<1>11. TwoAndNumber(packet, p, q, x)
  BY <1>2, <1>3, <1>8, <1>10, TailScan, Zenon
<1> QED
  BY <1>9, <1>11, Zenon DEF Tailing, TwoAndNumber

(* A position is understood.                                                *)
LEMMA PositionUnderstood ==
  ASSUME NEW type \in {0, 2}, NEW data \in Bounded, SentAs(drvm_set_position(type, data))
  PROVE  Understood
<1>1. /\ packet = Framed(<<"B", "D">>, <<48 + type, 48>> \o Written(data))
      /\ asked.letters = <<"B", "D">> /\ asked.numbers = <<type, 0, data>>
  BY DEF SentAs, drvm_set_position, Request
<1>2. <<"B", "D">> \in Letters
  BY DEF Letters
<1>3. 48 + type \in Octet /\ 48 \in Octet
  BY DEF Octet
<1>4. packet[4] = 48 + type /\ packet[5] = 48 /\ Tailing(6) = Size(data)
  <2>1. PICK p \in Octet, q \in Octet : p = 48 + type /\ q = 48
    BY <1>3
  <2>2. packet = Framed(<<"B", "D">>, <<p, q>> \o Written(data))
    BY <1>1, <2>1, Zenon
  <2>3. packet[4] = p /\ packet[5] = q /\ Tailing(6) = Size(data)
    BY <1>2, <2>2, TailingHeard, Zenon
  <2> QED
    BY <2>1, <2>3, Zenon
<1>5. (48 + type) - 48 = type /\ 48 - 48 = 0 /\ Size(type) = type /\ Size(0) = 0
  BY DEF Size
<1>6. Heard = <<Size(type), Size(0), Size(data)>>
  BY <1>1, <1>4, <1>5, SpecialHeard, Zenon
<1>7. Heard = [i \in DOMAIN <<type, 0, data>> |-> Size(<<type, 0, data>>[i])]
  BY <1>6, SizesOfThree, Zenon
<1>8. <<type, 0, data>> # <<>> /\ <<"B", "D">> # <<"B", "V">>
  OBVIOUS
<1> QED
  BY <1>1, <1>7, <1>8, Zenon DEF Understood

(* A parameter, of one digit or two, is understood with its value.          *)
LEMMA ParameterUnderstood ==
  ASSUME NEW param \in TwoDigits, NEW value \in Bounded,
         SentAs(drvm_set_parameter(param, value))
  PROVE  Understood
<1>1. PICK a \in 0..9, b \in 0..9 :
        /\ (IF param <= 9 THEN <<48>> ELSE <<>>) \o Counted(param) = <<48 + a, 48 + b>>
        /\ 10 * a + b = param
  BY ParameterDigits, Zenon
<1>2. PICK digits : digits = (IF param <= 9 THEN <<48>> ELSE <<>>) \o Counted(param)
  OBVIOUS
<1>3. /\ packet = Framed(<<"X", "B">>, digits \o Written(value))
      /\ asked.letters = <<"X", "B">> /\ asked.numbers = <<param, value>>
  BY <1>2 DEF SentAs, drvm_set_parameter, Request
<1>4. <<"X", "B">> \in Letters
  BY DEF Letters
<1>5. 48 + a \in Octet /\ 48 + b \in Octet
  BY DEF Octet
<1>6. packet = Framed(<<"X", "B">>, <<48 + a, 48 + b>> \o Written(value))
  BY <1>1, <1>2, <1>3, Zenon
<1>7. packet[4] = 48 + a /\ packet[5] = 48 + b /\ Tailing(6) = Size(value)
  BY <1>4, <1>5, <1>6, TailingHeard, Zenon
<1>8. 10 * ((48 + a) - 48) + ((48 + b) - 48) = param /\ Size(param) = param
  BY <1>1 DEF Size, TwoDigits
<1>9. Heard = <<Size(param), Size(value)>>
  BY <1>3, <1>7, <1>8, SpecialHeard, Zenon
<1>10. Heard = [i \in DOMAIN <<param, value>> |-> Size(<<param, value>>[i])]
  BY <1>9, SizesOfTwo, Zenon
<1>11. <<param, value>> # <<>> /\ <<"X", "B">> # <<"B", "V">>
  OBVIOUS
<1> QED
  BY <1>3, <1>10, <1>11, Zenon DEF Understood

(* The servo digits are understood.                                         *)
LEMMA ServoUnderstood ==
  ASSUME NEW mode \in 0..1, SentAs(drvm_set_servo(mode))
  PROVE  Understood
<1>1. PICK digit \in 0..1 : digit = IF mode = 1 THEN 1 ELSE 0
  OBVIOUS
<1>2. PICK byte \in Octet : byte = 48 + digit
  BY DEF Octet
<1>3. PICK body : body = <<byte, byte>>
  OBVIOUS
<1>4. /\ packet = Framed(<<"D", "B">>, body)
      /\ asked.letters = <<"D", "B">> /\ asked.numbers = <<digit, digit>>
  BY <1>1, <1>2, <1>3 DEF SentAs, drvm_set_servo, Request
<1>5. <<"D", "B">> \in Letters
  BY DEF Letters
<1>6. body \in Seq(Octet) /\ Len(body) = 2 /\ body[1] = byte /\ body[2] = byte
  BY <1>3, Two, Zenon
<1>7. Carries(packet, <<"D", "B">>, body, 2)
  <2>1. 2 \in Nat /\ 2 = Len(body) /\ body \in Seq(Octet)
    BY <1>6
  <2> QED
    BY <1>4, <1>5, <2>1, CarriesBody, Zenon
<1>8. packet[4] = byte /\ packet[5] = byte
  <2>1. 1 \in 1..2 /\ 2 \in 1..2 /\ 3 + 1 = 4 /\ 3 + 2 = 5
    OBVIOUS
  <2> QED
    BY <1>6, <1>7, <2>1, Zenon DEF Carries
<1>9. byte - 48 = digit /\ Size(digit) = digit
  BY <1>2 DEF Size
<1>10. Heard = <<Size(digit), Size(digit)>>
  BY <1>4, <1>8, <1>9, SpecialHeard, Zenon
<1>11. Heard = [i \in DOMAIN <<digit, digit>> |-> Size(<<digit, digit>>[i])]
  BY <1>10, SizesOfTwo, Zenon
<1>12. <<digit, digit>> # <<>> /\ <<"D", "B">> # <<"B", "V">>
  OBVIOUS
<1> QED
  BY <1>4, <1>11, <1>12, Zenon DEF Understood

(* A speed survives packing and unpacking, clamped to 15 bits.              *)
LEMMA Sign ==
  ASSUME NEW speed \in Bounded
  PROVE  \E high, low \in Octet :
           Packed(speed) = <<high, low>> /\ Unpacked(high, low) = Clamped(speed)
<1>1. PICK size \in Nat : size = IF speed < 0 THEN -speed ELSE speed
  BY DEF Bounded
<1>2. PICK mag \in Nat : mag = (IF size > 32767 THEN 32767 ELSE size) /\ mag <= 32767
  OBVIOUS
<1>3. PICK t \in Nat, low \in Nat : t = mag \div 256 /\ low = mag % 256 /\ mag = 256 * t + low
  OBVIOUS
<1>4. t < 128 /\ low < 256
  BY <1>2, <1>3
<1>5. PICK high : high = t + (IF speed < 0 THEN 128 ELSE 0)
  OBVIOUS
<1>6. high \in Octet /\ low \in Octet
  BY <1>4, <1>5 DEF Octet
<1>7. Packed(speed) = <<high, low>>
  BY <1>1, <1>2, <1>3, <1>5 DEF Packed
<1>8. speed \in Int
  BY DEF Bounded
<1>9. Unpacked(high, low) = Clamped(speed)
  <2>1. CASE speed < 0
    <3>1. high = t + 128 /\ high >= 128 /\ high % 128 = t
      BY <1>4, <1>5, <2>1
    <3>2. Unpacked(high, low) = -mag
      BY <1>3, <3>1 DEF Unpacked
    <3>3. Clamped(speed) = -mag
      BY <1>1, <1>2, <1>8, <2>1 DEF Clamped
    <3> QED
      BY <3>2, <3>3
  <2>2. CASE ~(speed < 0)
    <3>1. high = t /\ ~(high >= 128) /\ high % 128 = t
      BY <1>4, <1>5, <2>2
    <3>2. Unpacked(high, low) = mag
      BY <1>3, <3>1 DEF Unpacked
    <3>3. Clamped(speed) = mag
      BY <1>1, <1>2, <1>8, <2>2 DEF Clamped
    <3> QED
      BY <3>2, <3>3
  <2> QED
    BY <2>1, <2>2
<1> QED
  BY <1>6, <1>7, <1>9

(* Both speeds are understood.                                              *)
LEMMA VelocityUnderstood ==
  ASSUME NEW left \in Bounded, NEW right \in Bounded, SentAs(drvm_set_velocity2(left, right))
  PROVE  Understood
<1>1. PICK a \in Octet, b \in Octet :
        Packed(left) = <<a, b>> /\ Unpacked(a, b) = Clamped(left)
  BY Sign
<1>2. PICK c \in Octet, d \in Octet :
        Packed(right) = <<c, d>> /\ Unpacked(c, d) = Clamped(right)
  BY Sign
<1>3. PICK s : s = <<a, b>>
  OBVIOUS
<1>4. PICK t : t = <<c, d>>
  OBVIOUS
<1>5. s \in Seq(Octet) /\ Len(s) = 2 /\ s[1] = a /\ s[2] = b
  BY <1>3, Two, Zenon
<1>6. t \in Seq(Octet) /\ Len(t) = 2 /\ t[1] = c /\ t[2] = d
  BY <1>4, Two, Zenon
<1>7. PICK body : body = s \o t
  OBVIOUS
<1>8. body \in Seq(Octet) /\ Follows(body, s, 2, t, 2)
  <2>1. s \in Seq(Octet) /\ t \in Seq(Octet) /\ 2 = Len(s) /\ 2 = Len(t) /\ 2 \in Nat
    BY <1>5, <1>6
  <2> QED
    BY <1>7, <2>1, ConcatAt, Zenon
<1>9. Len(body) = 4 /\ body[1] = a /\ body[2] = b /\ body[3] = c /\ body[4] = d
  BY <1>5, <1>6, <1>8 DEF Follows
<1>10. /\ packet = Framed(<<"B", "V">>, body)
       /\ asked.letters = <<"B", "V">> /\ asked.numbers = <<left, right>>
  BY <1>1, <1>2, <1>3, <1>4, <1>7 DEF SentAs, drvm_set_velocity2, Request
<1>11. <<"B", "V">> \in Letters
  BY DEF Letters, Binary
<1>12. Carries(packet, <<"B", "V">>, body, 4)
  <2>1. 4 \in Nat /\ 4 = Len(body) /\ body \in Seq(Octet)
    BY <1>8, <1>9
  <2> QED
    BY <1>10, <1>11, <2>1, CarriesBody, Zenon
<1>13. packet[4] = a /\ packet[5] = b /\ packet[6] = c /\ packet[7] = d
  <2>1. /\ 1 \in 1..4 /\ 2 \in 1..4 /\ 3 \in 1..4 /\ 4 \in 1..4
        /\ 3 + 1 = 4 /\ 3 + 2 = 5 /\ 3 + 3 = 6 /\ 3 + 4 = 7
    OBVIOUS
  <2> QED
    BY <1>9, <1>12, <2>1, Zenon DEF Carries
<1>14. ASSUME NEW i \in 1..2
       PROVE  Unpacked(packet[2 * i + 2], packet[2 * i + 3]) = Clamped(asked.numbers[i])
  <2>1. CASE i = 1
    <3>1. 2 * i + 2 = 4 /\ 2 * i + 3 = 5 /\ <<left, right>>[i] = left
      BY <2>1
    <3> QED
      BY <1>1, <1>10, <1>13, <3>1, Zenon
  <2>2. CASE i = 2
    <3>1. 2 * i + 2 = 6 /\ 2 * i + 3 = 7 /\ <<left, right>>[i] = right
      BY <2>2
    <3> QED
      BY <1>2, <1>10, <1>13, <3>1, Zenon
  <2> QED
    BY <2>1, <2>2
<1> QED
  BY <1>10, <1>14, Zenon DEF Understood

(* The boards understand every request: the numbers arrive as they were     *)
(* asked for, in their order and up to their signs, and the speeds with     *)
(* their signs, clamped to 15 bits, whatever int can hold.                  *)
THEOREM BoardsUnderstand == RequestSpec => []Understood
<1>1. Sent => Understood
  <2> SUFFICES ASSUME Sent, packet # <<>> PROVE Understood
    BY DEF Understood
  <2>1. PICK request \in Orders \cup Questions : SentAs(request)
    BY DEF Sent
  <2>2. CASE request \in Questions
    BY <2>1, <2>2, QuestionUnderstood, Zenon
  <2>3. CASE request \in Orders
    BY <2>1, <2>3, OrderForms, ListUnderstood, SwitchUnderstood, OutputsUnderstood,
       PositionUnderstood, ParameterUnderstood, ServoUnderstood, VelocityUnderstood, Zenon
  <2> QED
    BY <2>2, <2>3
<1> QED
  BY <1>1, SentInvariant, PTL
=============================================================================
