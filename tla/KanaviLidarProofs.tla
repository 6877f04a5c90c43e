------------------------- MODULE KanaviLidarProofs -------------------------
(* TLAPS proofs about KanaviLidar, for any sizes and bounds.                *)
EXTENDS KanaviLidar, FiniteSetTheorems, SequenceTheorems, TLAPS

(* Sizes and bounds are natural numbers. *)
LEMMA Sizes ==
  /\ Frames \in Nat /\ Frames # 0 /\ HeadSize \in Nat /\ ScanSize \in Nat
  /\ HeadSize < ScanSize
BY KanaviAssumption

(* Cardinalities of the sets of channels. *)
LEMMA CardinalityFrom0 == Cardinality(0..1) = 2 /\ Cardinality(0..3) = 4
<1>1. ASSUME NEW b \in Int, 0 <= b PROVE Cardinality(0..b) = b + 1
  <2>1. 0 \in Int /\ ~(0 > b) /\ b - 0 + 1 = b + 1
    BY <1>1
  <2>2. Cardinality(0..b) = IF 0 > b THEN 0 ELSE b - 0 + 1
    BY <2>1, FS_Interval, Zenon
  <2> QED
    BY <2>1, <2>2, Zenon
<1>2. 1 \in Int /\ 3 \in Int /\ 0 <= 1 /\ 0 <= 3 /\ 1 + 1 = 2 /\ 3 + 1 = 4
  OBVIOUS
<1> QED
  BY <1>1, <1>2, Zenon

(* The parts of a scan are numbered from 1. *)
LEMMA PartsNumbered ==
  /\ Parts("r2") = 1..2 /\ Parts("r4") = 1..4 /\ Parts("r270") = 1..2
  /\ Channels("r2") = 0..1 /\ Channels("r4") = 0..3 /\ Channels("r270") = {0}
  /\ \A m \in Models : \E n \in 1..4 : Parts(m) = 1..n
<1>1. Channels("r2") = 0..1 /\ Channels("r4") = 0..3 /\ Channels("r270") = {0}
  BY DEF Channels
<1>2. Parts("r2") = 1..2 /\ Parts("r4") = 1..4 /\ Parts("r270") = 1..2
  BY <1>1, CardinalityFrom0 DEF Parts
<1> QED
  BY <1>1, <1>2 DEF Models

(* A scan has at most four datagrams. *)
LEMMA PartsBounded == \A m \in Models : Parts(m) \subseteq 1..4
BY PartsNumbered

(* What the sensor sends is a datagram. *)
LEMMA DistanceTypes ==
  ASSUME NEW m \in Models, NEW f \in 1..Frames, NEW p \in 1..4
  PROVE  Distance(m, f, p) \in Datagrams
<1> DEFINE header    == (m # "r270" \/ p = 1)
           parameter == IF m = "r270" THEN 192 ELSE 191 + p
           size      == IF m # "r270" THEN ScanSize
                        ELSE IF p = 1 THEN HeadSize ELSE ScanSize - HeadSize
<1>1. header \in BOOLEAN
  OBVIOUS
<1>2. parameter \in 0..255 /\ f \in 0..Frames /\ p \in 0..4
  BY Sizes
<1>3. size \in 0..ScanSize
  BY Sizes
<1>4. Distance(m, f, p) = [header |-> header, mode |-> "DISTANCE_DATA", parameter |-> parameter,
                           size |-> size, frame |-> f, part |-> p]
  BY DEF Distance
<1> HIDE DEF header, parameter, size
<1> QED
  BY <1>1, <1>2, <1>3, <1>4 DEF Datagrams

(* The sensor goes on to the next datagram or scan. *)
LEMMA AdvanceTypes ==
  ASSUME TypeOK, sending[1] <= Frames, Advance
  PROVE  sending' \in (1..(Frames + 1)) \X (1..4)
<1>1. sending[1] \in 1..Frames /\ sending[2] \in 1..4 /\ Parts(sensor) \subseteq 1..4
  BY Sizes, PartsBounded DEF TypeOK
<1> QED
  BY <1>1, Sizes DEF Advance

(* What the receiving side keeps. *)
NodeTypes ==
  /\ mbCheckedLidarInputed \in BOOLEAN
  /\ mCheckedModel \in Models \cup {"none"}
  /\ mCheckedChannel \in 0..15
  /\ mVecTempBuf \in Seq(Datagrams) /\ Len(mVecTempBuf) <= 1
  /\ mbCheckOnGoing = (mVecTempBuf # <<>>)
  /\ DOMAIN mVecLenBuf = Channels(model)

(* The first datagram of an R270 scan is kept and the flag set; the second  *)
(* clears both; the other models leave them alone.                          *)
LEMMA ParseTypes ==
  ASSUME TypeOK, NEW d \in Datagrams, NEW checked,
         r2(d, checked) \/ r4(d, checked) \/ r270(d, checked)
  PROVE  /\ mVecTempBuf' \in Seq(Datagrams) /\ Len(mVecTempBuf') <= 1
         /\ mbCheckOnGoing' = (mVecTempBuf' # <<>>)
         /\ DOMAIN mVecLenBuf' = Channels(model)
<1>1. \/ mVecTempBuf' = mVecTempBuf /\ mbCheckOnGoing' = mbCheckOnGoing
      \/ mVecTempBuf' = <<d>> /\ mbCheckOnGoing' = TRUE
      \/ mVecTempBuf' = <<>> /\ mbCheckOnGoing' = FALSE
  BY DEF r2, r4, r270
<1>2. /\ <<d>> \in Seq(Datagrams) /\ Len(<<d>>) <= 1 /\ <<d>> # <<>>
      /\ <<>> \in Seq(Datagrams) /\ Len(<<>>) <= 1
      /\ mVecTempBuf \in Seq(Datagrams) /\ Len(mVecTempBuf) <= 1
  BY DEF TypeOK
<1>4. mVecTempBuf' \in Seq(Datagrams) /\ Len(mVecTempBuf') <= 1
  <2>1. mVecTempBuf' \in {mVecTempBuf, <<d>>, <<>>}
    BY <1>1
  <2> QED
    BY <1>2, <2>1
<1>5. mbCheckOnGoing' = (mVecTempBuf' # <<>>)
  <2>1. CASE mVecTempBuf' = mVecTempBuf /\ mbCheckOnGoing' = mbCheckOnGoing
    BY <2>1, Zenon DEF TypeOK
  <2>2. CASE mVecTempBuf' = <<d>> /\ mbCheckOnGoing' = TRUE
    BY <1>2, <2>2, Zenon
  <2>3. CASE mVecTempBuf' = <<>> /\ mbCheckOnGoing' = FALSE
    BY <2>3, Zenon
  <2> QED
    BY <1>1, <2>1, <2>2, <2>3
<1>3. DOMAIN mVecLenBuf' = DOMAIN mVecLenBuf
  BY DEF r2, r4, r270, parseLength
<1> QED
  BY <1>3, <1>4, <1>5 DEF TypeOK

(* One datagram, whatever it is. *)
LEMMA ProcessTypes ==
  ASSUME TypeOK, NEW d \in Datagrams, Process(d), model' = model
  PROVE  NodeTypes'
<1>types. NodeTypes /\ model \in Models /\ sensor \in Models
  BY DEF TypeOK, NodeTypes
<1>channel. FirstChannel(d) \in 0..15
  <2>1. d.parameter \in 0..255
    BY DEF Datagrams
  <2> QED
    BY <2>1 DEF FirstChannel, Channel
<1>product. classification(d) \in Models \cup {"none"}
  BY <1>types DEF classification
<1>1. CASE ~d.header /\ Headerless(d)
  <2>1. CASE mbCheckOnGoing
    BY <1>1, <1>types, <2>1, ParseTypes DEF Headerless, NodeTypes
  <2>2. CASE ~mbCheckOnGoing
    BY <1>1, <1>types, <2>2 DEF Headerless, Unchanged, NodeTypes
  <2> QED
    BY <2>1, <2>2
<1>2. CASE mCheckedModel' = classification(d) /\ Unchanged
  BY <1>2, <1>types, <1>product DEF Unchanged, NodeTypes
<1>3. CASE /\ mbCheckedLidarInputed' = TRUE
           /\ mCheckedModel' = IF mbCheckedLidarInputed THEN mCheckedModel ELSE classification(d)
           /\ mCheckedChannel' = IF mbCheckedLidarInputed THEN mCheckedChannel ELSE FirstChannel(d)
           /\ IF d.mode = "DISTANCE_DATA"
              THEN Parse(d, mCheckedModel', mCheckedChannel')
              ELSE UNCHANGED <<mbCheckOnGoing, mVecTempBuf, mVecLenBuf, published>>
  <2>1. /\ mbCheckedLidarInputed' \in BOOLEAN
        /\ mCheckedModel' \in Models \cup {"none"}
        /\ mCheckedChannel' \in 0..15
    BY <1>3, <1>types, <1>product, <1>channel DEF NodeTypes
  <2>2. /\ mVecTempBuf' \in Seq(Datagrams) /\ Len(mVecTempBuf') <= 1
        /\ mbCheckOnGoing' = (mVecTempBuf' # <<>>)
        /\ DOMAIN mVecLenBuf' = Channels(model)
    <3>1. CASE d.mode = "DISTANCE_DATA"
      BY <1>3, <3>1, ParseTypes DEF Parse
    <3>2. CASE d.mode # "DISTANCE_DATA"
      BY <1>3, <1>types, <3>2 DEF NodeTypes
    <3> QED
      BY <3>1, <3>2
  <2> QED
    BY <2>1, <2>2 DEF NodeTypes
<1> QED
  BY <1>1, <1>2, <1>3 DEF Process

-----------------------------------------------------------------------------
(* The node and the sensor at the start. *)
LEMMA InitTypes == Init => TypeOK
<1> SUFFICES ASSUME Init PROVE TypeOK
  OBVIOUS
<1>1. model \in Models /\ sensor \in Models /\ mPtrTimer \in BOOLEAN
  BY DEF Init, KanaviNode
<1>2. sending \in (1..(Frames + 1)) \X (1..4) /\ disturbed \subseteq 1..Frames
  <2>1. sending[1] = 1 /\ sending[2] \in 1..4 /\ sending = <<sending[1], sending[2]>>
    BY <1>1, PartsBounded DEF Init
  <2>2. 1 \in 1..(Frames + 1) /\ 1 \in 1..Frames
    BY Sizes
  <2> QED
    BY <2>1, <2>2 DEF Init
<1>3. socket \in Seq(Datagrams)
  BY DEF Init
<1>4. /\ mbCheckedLidarInputed \in BOOLEAN
      /\ mCheckedModel \in Models \cup {"none"}
      /\ mCheckedChannel \in 0..15
      /\ mVecTempBuf = <<>> /\ mbCheckOnGoing = FALSE
      /\ DOMAIN mVecLenBuf = Channels(model)
  <2>1. /\ mbCheckedLidarInputed = FALSE /\ mCheckedModel = "none" /\ mCheckedChannel = 0
        /\ mVecTempBuf = <<>> /\ mbCheckOnGoing = FALSE
        /\ mVecLenBuf = [ch \in Channels(model) |-> <<>>]
    BY DEF Init, Lidar, KanaviDatagram
  <2>2. DOMAIN mVecLenBuf = Channels(model)
    BY <2>1, Zenon
  <2>3. 0 \in 0..15
    OBVIOUS
  <2> QED
    BY <2>1, <2>2, <2>3, Zenon
<1>5. mVecTempBuf \in Seq(Datagrams) /\ Len(mVecTempBuf) <= 1
  BY <1>4
<1>6. mbCheckOnGoing = (mVecTempBuf # <<>>)
  BY <1>4, Zenon
<1> QED
  BY <1>1, <1>2, <1>3, <1>4, <1>5, <1>6 DEF TypeOK

(* One step per action of the sensor, the network and the node. *)
LEMMA StepTypes == TypeOK /\ [Next]_vars => TypeOK'
<1> SUFFICES ASSUME TypeOK, [Next]_vars PROVE TypeOK'
  OBVIOUS
<1>1. CASE Send
  <2>1. Distance(sensor, sending[1], sending[2]) \in Datagrams
    BY <1>1, Sizes, DistanceTypes DEF Send, TypeOK
  <2>2. socket' \in Seq(Datagrams)
    BY <1>1, <2>1 DEF Send, TypeOK
  <2>3. sending' \in (1..(Frames + 1)) \X (1..4)
    BY <1>1, AdvanceTypes DEF Send
  <2> QED
    BY <1>1, <2>2, <2>3 DEF Send, TypeOK, setup, node, history
<1>2. CASE Lose
  <2>1. sending' \in (1..(Frames + 1)) \X (1..4)
    BY <1>2, AdvanceTypes DEF Lose
  <2>2. disturbed' \subseteq 1..Frames
    <3>1. sending[1] \in 1..Frames
      BY <1>2, Sizes DEF Lose, TypeOK
    <3> QED
      BY <1>2, <3>1 DEF Lose, TypeOK
  <2> QED
    BY <1>2, <2>1, <2>2 DEF Lose, TypeOK, setup, node
<1>3. CASE Overtake
  <2>1. PICK i \in 1..(Len(socket) - 1) :
          /\ socket' = [socket EXCEPT ![i] = socket[i + 1], ![i + 1] = socket[i]]
          /\ disturbed' = disturbed \cup ({socket[i].frame, socket[i + 1].frame} \ {0})
    BY <1>3 DEF Overtake
  <2>2. /\ i \in 1..Len(socket) /\ i + 1 \in 1..Len(socket)
        /\ socket[i] \in Datagrams /\ socket[i + 1] \in Datagrams
    BY <2>1 DEF TypeOK
  <2>3. socket' \in Seq(Datagrams)
    BY <2>1, <2>2 DEF TypeOK
  <2>4. disturbed' \subseteq 1..Frames
    <3>1. socket[i].frame \in 0..Frames /\ socket[i + 1].frame \in 0..Frames
      BY <2>2 DEF Datagrams
    <3> QED
      BY <2>1, <3>1, Sizes DEF TypeOK
  <2> QED
    BY <1>3, <2>3, <2>4 DEF Overtake, TypeOK, setup, node
<1>4. CASE SendOther
  <2>1. PICK parameter \in {0, 1, 192} : socket' = Append(socket, Other(parameter))
    BY <1>4 DEF SendOther
  <2>2. Other(parameter) \in Datagrams
    BY Sizes DEF Other, Datagrams
  <2>3. socket' \in Seq(Datagrams)
    BY <2>1, <2>2 DEF TypeOK
  <2> QED
    BY <1>4, <2>3 DEF SendOther, TypeOK, setup, node
<1>5. CASE receiveData
  <2>1. /\ socket # <<>> /\ socket' = Tail(socket) /\ Process(Head(socket))
        /\ UNCHANGED <<setup, sending, history>>
    BY <1>5 DEF receiveData, GetData
  <2>2. Head(socket) \in Datagrams /\ socket' \in Seq(Datagrams)
    BY <2>1, HeadTailProperties DEF TypeOK
  <2>3. NodeTypes'
    BY <2>1, <2>2, ProcessTypes DEF setup
  <2> QED
    BY <2>1, <2>2, <2>3 DEF TypeOK, NodeTypes, setup, history
<1>6. CASE UNCHANGED vars
  BY <1>6 DEF vars, TypeOK, setup, node, history
<1> QED
  BY <1>1, <1>2, <1>3, <1>4, <1>5, <1>6 DEF Next

(* The flag that a scan is being put together and the datagram kept for it  *)
(* agree whatever arrives, at most one is kept, and the channel that        *)
(* completes a scan has four bits.                                          *)
THEOREM TypeCorrect == Spec => []TypeOK
BY InitTypes, StepTypes, PTL DEF Spec
-----------------------------------------------------------------------------
(*              What is read of an undisturbed frame, and in which order     *)

(* The sensor sends part p of frame f before part q of frame g. *)
Before(f, p, g, q) == f < g \/ (f = g /\ p < q)

Sent(f, p) == Before(f, p, sending[1], sending[2])

BothDisturbed(f, g) == f \in disturbed /\ g \in disturbed

(* A part of an undisturbed frame that is no longer in the socket. *)
HasBeenRead(f, p) ==
  /\ f \in (1..Frames) \ disturbed /\ p \in Parts(sensor)
  /\ Sent(f, p)
  /\ \A i \in DOMAIN socket : ~(socket[i].frame = f /\ socket[i].part = p)

(* What is in the socket has frame 0 or has been sent after part p of frame f, *)
(* unless both have been disturbed.                                            *)
AllAfter(f, p) ==
  \A i \in DOMAIN socket :
    \/ socket[i].frame = 0
    \/ Before(f, p, socket[i].frame, socket[i].part)
    \/ BothDisturbed(f, socket[i].frame)

(* What waits in the socket has been sent.                                  *)
SocketContents ==
  \A i \in DOMAIN socket :
    \/ \E parameter \in {0, 1, 192} : socket[i] = Other(parameter)
    \/ \E f \in 1..Frames, p \in Parts(sensor) :
         socket[i] = Distance(sensor, f, p) /\ Sent(f, p)

(* It waits in the order of sending, but for what has overtaken or been     *)
(* overtaken.                                                               *)
SocketInOrder ==
  \A i, j \in DOMAIN socket :
    i < j => \/ socket[i].frame = 0 \/ socket[j].frame = 0
             \/ Before(socket[i].frame, socket[i].part, socket[j].frame, socket[j].part)
             \/ BothDisturbed(socket[i].frame, socket[j].frame)

(* What is still to be read comes after what has been read of undisturbed   *)
(* frames.                                                                  *)
ReadInOrder == \A f \in 1..Frames, p \in 1..4 : HasBeenRead(f, p) => AllAfter(f, p)

(* Until a header of the right model has come, the node has kept nothing;   *)
(* none can have come with an undisturbed frame.                            *)
Recognized ==
  IF mbCheckedLidarInputed
  THEN mPtrTimer /\ sensor = model /\ mCheckedModel = model
  ELSE /\ mVecTempBuf = <<>> /\ published = {}
       /\ \A ch \in Channels(model) : mVecLenBuf[ch] = <<>>
       /\ (mPtrTimer /\ sensor = model => \A f \in 1..Frames : ~HasBeenRead(f, 1))

(* The lengths of a channel of the R2 or the R4 are that channel's, and not  *)
(* from later than what is in the socket.                                   *)
LengthsOf ==
  model # "r270" =>
    \A ch \in Channels(model) :
      \/ mVecLenBuf[ch] = <<>>
      \/ \E f \in 1..Frames :
           mVecLenBuf[ch] = <<<<f, ch + 1>>>> /\ Sent(f, ch + 1) /\ AllAfter(f, ch + 1)

(* They are at least as new as each undisturbed part that has been read.    *)
LengthsNewest ==
  model # "r270" /\ mPtrTimer /\ sensor = model =>
    \A ch \in Channels(model), f \in 1..Frames :
      HasBeenRead(f, ch + 1) => mVecLenBuf[ch] # <<>> /\ f <= mVecLenBuf[ch][1][1]

(* What the R270 keeps is a first part, and no undisturbed part that has    *)
(* been read was sent after it.                                             *)
KeptFirst ==
  mVecTempBuf # <<>> =>
    /\ model = "r270"
    /\ \E f \in 1..Frames :
         /\ mVecTempBuf = <<Distance("r270", f, 1)>>
         /\ Sent(f, 1) /\ AllAfter(f, 1)
         /\ \A g \in 1..Frames, p \in 1..4 : HasBeenRead(g, p) => ~Before(f, 1, g, p)

(* When the frame before is undisturbed too, the first part of a frame is   *)
(* kept until its second has been read.                                     *)
RestIsAwaited ==
  mPtrTimer /\ sensor = model /\ model = "r270" =>
    \A f \in 1..Frames :
      HasBeenRead(f, 1) /\ ~HasBeenRead(f, 2) /\ f - 1 \notin disturbed
        => mVecTempBuf = <<Distance("r270", f, 1)>>

LastPart == IF model = "r270" THEN 2 ELSE mCheckedChannel + 1

(* Such a frame's scan is published once the part that completes it has     *)
(* been read.                                                               *)
WholePublished ==
  mPtrTimer /\ sensor = model /\ mCheckedChannel \in Channels(model) =>
    \A f \in 1..Frames :
      HasBeenRead(f, LastPart) /\ f - 1 \notin disturbed
        => \E cloud \in published : cloud[mCheckedChannel] = WholeScan(f)

(* The sensor numbers its parts as Parts says. *)
PartSent == sending[2] \in Parts(sensor)


Network == PartSent /\ SocketContents /\ SocketInOrder /\ ReadInOrder

(* Sending a datagram sends that datagram and no other. *)
LEMMA AdvanceSends ==
  ASSUME TypeOK, PartSent, sending[1] <= Frames, Advance, sensor' = sensor
  PROVE  /\ PartSent'
         /\ \A f \in Nat, p \in Parts(sensor) :
              Sent(f, p)' <=> Sent(f, p) \/ (f = sending[1] /\ p = sending[2])
         /\ \A f \in Nat, p \in Nat : Sent(f, p) => Sent(f, p)'
<1>1. PICK n \in 1..4 : Parts(sensor) = 1..n
  BY PartsNumbered DEF TypeOK
<1>2. sending[1] \in Nat /\ sending[2] \in 1..n
  BY <1>1 DEF TypeOK, PartSent
<1>3. \/ sending[2] < n /\ sending'[1] = sending[1] /\ sending'[2] = sending[2] + 1
      \/ sending[2] = n /\ sending'[1] = sending[1] + 1 /\ sending'[2] = 1
  BY <1>1, <1>2 DEF Advance
<1>4. PartSent'
  BY <1>1, <1>2, <1>3 DEF PartSent
<1>5. \A f \in Nat, p \in 1..n :
        Sent(f, p)' <=> Sent(f, p) \/ (f = sending[1] /\ p = sending[2])
  BY <1>2, <1>3 DEF Sent, Before
<1>6. \A f \in Nat, p \in Nat : Sent(f, p) => Sent(f, p)'
  BY <1>2, <1>3 DEF Sent, Before
<1> QED
  BY <1>1, <1>4, <1>5, <1>6

(* Numbers that the order of sending compares. *)
LEMMA Keys ==
  ASSUME TypeOK
  PROVE  /\ sending[1] \in Nat /\ sending[2] \in Nat /\ Len(socket) \in Nat
         /\ DOMAIN socket = 1..Len(socket)
         /\ \A i \in DOMAIN socket : socket[i].frame \in 0..Frames /\ socket[i].part \in 0..4
<1>1. \A d \in Datagrams : d.frame \in 0..Frames /\ d.part \in 0..4
  BY DEF Datagrams
<1>2. socket \in Seq(Datagrams) /\ sending[1] \in Nat /\ sending[2] \in Nat
  BY DEF TypeOK
<1>3. DOMAIN socket = 1..Len(socket) /\ Len(socket) \in Nat
  BY <1>2
<1>4. \A i \in DOMAIN socket : socket[i] \in Datagrams
  BY <1>2, ElementOfSeq, <1>3
<1> QED
  BY <1>1, <1>2, <1>3, <1>4

(* A datagram of another mode has no frame; one of distance data says which *)
(* part of which frame it is.                                               *)
LEMMA DatagramKeys ==
  /\ \A parameter : Other(parameter).frame = 0
  /\ \A m, f, p : Distance(m, f, p).frame = f /\ Distance(m, f, p).part = p
BY DEF Other, Distance

(* Sending, losing, overtaking and other datagrams: what has been read of a *)
(* frame that stays undisturbed does not change, and no order is lost.      *)
NetworkStep ==
  /\ \A f \in 1..Frames, p \in 1..4 :
       f \notin disturbed' => (HasBeenRead(f, p)' <=> HasBeenRead(f, p))
  /\ \A f \in 1..Frames, p \in 1..4 : Sent(f, p) => Sent(f, p)'
  /\ \A f \in 1..Frames, p \in 1..4 : Sent(f, p) /\ AllAfter(f, p) => AllAfter(f, p)'
  /\ disturbed \subseteq disturbed'

LEMMA SendStep ==
  ASSUME TypeOK, Network, Send
  PROVE  Network' /\ NetworkStep
<1> DEFINE d == Distance(sensor, sending[1], sending[2])
<1>1. /\ sending[1] <= Frames /\ socket' = Append(socket, d) /\ Advance
      /\ sensor' = sensor /\ disturbed' = disturbed
  BY DEF Send, setup, history
<1>2. /\ sending[1] \in 1..Frames /\ sending[2] \in Parts(sensor) /\ Parts(sensor) \subseteq 1..4
      /\ socket \in Seq(Datagrams)
  BY <1>1, Sizes, PartsBounded DEF TypeOK, Network, PartSent
<1>3. d \in Datagrams /\ d.frame = sending[1] /\ d.part = sending[2]
  BY <1>2, DistanceTypes, DatagramKeys DEF TypeOK
<1>4. /\ DOMAIN socket' = 1..(Len(socket) + 1) /\ Len(socket) \in Nat
      /\ DOMAIN socket = 1..Len(socket)
      /\ \A i \in DOMAIN socket : socket'[i] = socket[i]
      /\ socket'[Len(socket) + 1] = d
  <2> HIDE DEF d
  <2> QED
    BY <1>1, <1>2, <1>3
<1>5. /\ PartSent'
      /\ \A f \in Nat, p \in Parts(sensor) :
           Sent(f, p)' <=> Sent(f, p) \/ (f = sending[1] /\ p = sending[2])
      /\ \A f \in Nat, p \in Nat : Sent(f, p) => Sent(f, p)'
  BY <1>1, AdvanceSends DEF Network
<1>k. /\ sending[1] \in Nat /\ sending[2] \in Nat
  BY <1>2, PartsBounded DEF TypeOK
<1> HIDE DEF d
<1>6. ASSUME NEW f \in 1..Frames, NEW p \in 1..4
      PROVE  HasBeenRead(f, p)' <=> HasBeenRead(f, p)
  <2>1. CASE p \in Parts(sensor) /\ ~(f = sending[1] /\ p = sending[2])
    <3>1. Sent(f, p)' <=> Sent(f, p)
      BY <1>5, <2>1
    <3>2. (\A i \in DOMAIN socket' : ~(socket'[i].frame = f /\ socket'[i].part = p))
            <=> (\A i \in DOMAIN socket : ~(socket[i].frame = f /\ socket[i].part = p))
      BY <1>3, <1>4, <2>1
    <3> QED
      BY <1>1, <3>1, <3>2 DEF HasBeenRead
  <2>2. CASE f = sending[1] /\ p = sending[2]
    <3>1. ~Sent(f, p)
      BY <1>k, <2>2 DEF Sent, Before
    <3>2. \E i \in DOMAIN socket' : socket'[i].frame = f /\ socket'[i].part = p
      BY <1>3, <1>4, <2>2
    <3> QED
      BY <3>1, <3>2 DEF HasBeenRead
  <2>3. CASE p \notin Parts(sensor)
    BY <1>1, <2>3 DEF HasBeenRead
  <2> QED
    BY <2>1, <2>2, <2>3
<1>7. ASSUME NEW f \in 1..Frames, NEW p \in 1..4, Sent(f, p), AllAfter(f, p)
      PROVE  AllAfter(f, p)'
  <2>1. Before(f, p, d.frame, d.part)
    BY <1>3, <1>7 DEF Sent
  <2> QED
    BY <1>1, <1>4, <1>7, <2>1 DEF AllAfter, BothDisturbed
<1>8. SocketContents'
  <2> SUFFICES ASSUME NEW i \in DOMAIN socket'
               PROVE  \/ \E parameter \in {0, 1, 192} : socket'[i] = Other(parameter)
                      \/ \E f \in 1..Frames, p \in Parts(sensor) :
                           socket'[i] = Distance(sensor, f, p) /\ Sent(f, p)'
    BY <1>1 DEF SocketContents
  <2>1. CASE i \in DOMAIN socket
    BY <1>4, <1>5, <1>2, <2>1 DEF Network, SocketContents
  <2>2. CASE i = Len(socket) + 1
    <3>1. PICK f \in 1..Frames, p \in Parts(sensor) : f = sending[1] /\ p = sending[2]
      BY <1>2
    <3>2. Sent(f, p)'
      BY <1>5, <3>1
    <3>3. socket'[i] = Distance(sensor, f, p)
      BY <1>4, <2>2, <3>1 DEF d
    <3> QED
      BY <3>2, <3>3
  <2> QED
    BY <1>4, <2>1, <2>2
<1>9. SocketInOrder'
  <2>1. \A i \in DOMAIN socket :
          socket[i].frame = 0 \/ Before(socket[i].frame, socket[i].part, d.frame, d.part)
    BY <1>3, DatagramKeys DEF Network, SocketContents, Sent
  <2>2. ASSUME NEW i \in DOMAIN socket', NEW j \in DOMAIN socket', i < j
        PROVE  \/ socket'[i].frame = 0 \/ socket'[j].frame = 0
               \/ Before(socket'[i].frame, socket'[i].part, socket'[j].frame, socket'[j].part)
               \/ BothDisturbed(socket'[i].frame, socket'[j].frame)
    <3>1. i \in DOMAIN socket
      BY <1>4, <2>2
    <3>2. CASE j \in DOMAIN socket
      BY <1>4, <2>2, <3>1, <3>2 DEF Network, SocketInOrder
    <3>3. CASE j = Len(socket) + 1
      BY <1>4, <2>1, <3>1, <3>3
    <3> QED
      BY <1>4, <3>2, <3>3
  <2> QED
    BY <1>1, <2>2 DEF SocketInOrder, BothDisturbed
<1>10. NetworkStep
  BY <1>1, <1>5, <1>6, <1>7 DEF NetworkStep
<1>11. ReadInOrder'
  BY <1>6, <1>7 DEF Network, ReadInOrder, HasBeenRead
<1> QED
  BY <1>5, <1>8, <1>9, <1>10, <1>11 DEF Network

(* A datagram that is lost disturbs its frame. *)
LEMMA LoseStep ==
  ASSUME TypeOK, Network, Lose
  PROVE  Network' /\ NetworkStep
<1>1. /\ sending[1] <= Frames /\ Advance /\ sensor' = sensor /\ socket' = socket
      /\ disturbed' = disturbed \cup {sending[1]}
  BY DEF Lose, setup
<1>2. /\ PartSent'
      /\ \A f \in Nat, p \in Parts(sensor) :
           Sent(f, p)' <=> Sent(f, p) \/ (f = sending[1] /\ p = sending[2])
      /\ \A f \in Nat, p \in Nat : Sent(f, p) => Sent(f, p)'
  BY <1>1, AdvanceSends DEF Network
<1>3. \A f \in 1..Frames, p \in 1..4 :
        f \notin disturbed' => (HasBeenRead(f, p)' <=> HasBeenRead(f, p))
  BY <1>1, <1>2 DEF HasBeenRead
<1>4. \A f \in 1..Frames, p \in 1..4 : AllAfter(f, p) => AllAfter(f, p)'
  BY <1>1 DEF AllAfter, BothDisturbed
<1>5. SocketContents' /\ SocketInOrder'
  <2>1. SocketContents'
    <3>1. Parts(sensor) \subseteq 1..4
      BY PartsBounded DEF TypeOK
    <3> QED
      BY <1>1, <1>2, <3>1 DEF Network, SocketContents
  <2>2. SocketInOrder'
    BY <1>1 DEF Network, SocketInOrder, BothDisturbed
  <2> QED
    BY <2>1, <2>2
<1>6. ReadInOrder'
  <2>1. \A f \in 1..Frames, p \in 1..4 : HasBeenRead(f, p)' => HasBeenRead(f, p)
    BY <1>3 DEF HasBeenRead
  <2> QED
    BY <1>4, <2>1 DEF Network, ReadInOrder
<1>7. NetworkStep
  BY <1>1, <1>2, <1>3, <1>4 DEF NetworkStep
<1> QED
  BY <1>2, <1>5, <1>6, <1>7 DEF Network

(* A datagram that overtakes another leaves both their frames disturbed. *)
LEMMA OvertakeStep ==
  ASSUME TypeOK, Network, Overtake
  PROVE  Network' /\ NetworkStep
<1>1. PICK k \in 1..(Len(socket) - 1) :
        /\ socket' = [socket EXCEPT ![k] = socket[k + 1], ![k + 1] = socket[k]]
        /\ disturbed' = disturbed \cup ({socket[k].frame, socket[k + 1].frame} \ {0})
  BY DEF Overtake
<1>2. sending' = sending /\ sensor' = sensor
  BY DEF Overtake, setup
<1>3. /\ socket \in Seq(Datagrams) /\ Len(socket) \in Nat /\ DOMAIN socket = 1..Len(socket)
      /\ k \in DOMAIN socket /\ k + 1 \in DOMAIN socket
  BY <1>1 DEF TypeOK
<1>4. /\ DOMAIN socket' = DOMAIN socket
      /\ socket'[k] = socket[k + 1] /\ socket'[k + 1] = socket[k]
      /\ \A i \in DOMAIN socket : i # k /\ i # k + 1 => socket'[i] = socket[i]
  BY <1>1, <1>3
<1>5. disturbed \subseteq disturbed'
  BY <1>1
<1> DEFINE moved(i) == IF i = k THEN k + 1 ELSE IF i = k + 1 THEN k ELSE i
<1>6. \A i \in DOMAIN socket : moved(i) \in DOMAIN socket /\ socket'[i] = socket[moved(i)]
  BY <1>3, <1>4
<1>7. \A i \in DOMAIN socket : socket[i] = socket'[moved(i)]
  BY <1>3, <1>4
<1>8. ASSUME NEW f \in 1..Frames, NEW p \in 1..4, f \notin disturbed'
      PROVE  HasBeenRead(f, p)' <=> HasBeenRead(f, p)
  <2>1. (\A i \in DOMAIN socket' : ~(socket'[i].frame = f /\ socket'[i].part = p))
          <=> (\A i \in DOMAIN socket : ~(socket[i].frame = f /\ socket[i].part = p))
    <3>1. \A i \in DOMAIN socket : moved(i) \in DOMAIN socket'
      BY <1>4, <1>6
    <3> HIDE DEF moved
    <3>2. ASSUME NEW i \in DOMAIN socket, socket[i].frame = f /\ socket[i].part = p
          PROVE  \E j \in DOMAIN socket' : socket'[j].frame = f /\ socket'[j].part = p
      BY <1>7, <3>1, <3>2
    <3>3. ASSUME NEW i \in DOMAIN socket', socket'[i].frame = f /\ socket'[i].part = p
          PROVE  \E j \in DOMAIN socket : socket[j].frame = f /\ socket[j].part = p
      BY <1>4, <1>6, <3>3
    <3> QED
      BY <3>2, <3>3
  <2> QED
    BY <1>2, <1>5, <1>8, <2>1 DEF HasBeenRead, Sent
<1>9. ASSUME NEW f \in 1..Frames, NEW p \in 1..4, AllAfter(f, p)
      PROVE  AllAfter(f, p)'
  <2> HIDE DEF moved
  <2> QED
    BY <1>4, <1>5, <1>6, <1>9 DEF AllAfter, BothDisturbed
<1>10. PartSent' /\ SocketContents'
  <2> HIDE DEF moved
  <2>1. PartSent'
    BY <1>2 DEF Network, PartSent
  <2>2. SocketContents'
    BY <1>2, <1>4, <1>6 DEF Network, SocketContents, Sent
  <2> QED
    BY <2>1, <2>2
<1>11. SocketInOrder'
  <2>1. ASSUME NEW i \in DOMAIN socket', NEW j \in DOMAIN socket', i < j
        PROVE  \/ socket'[i].frame = 0 \/ socket'[j].frame = 0
               \/ Before(socket'[i].frame, socket'[i].part, socket'[j].frame, socket'[j].part)
               \/ socket'[i].frame \in disturbed' /\ socket'[j].frame \in disturbed'
    <3>1. CASE i = k /\ j = k + 1
      BY <1>1, <1>4, <3>1
    <3>2. CASE ~(i = k /\ j = k + 1)
      <4>1. moved(i) < moved(j)
        BY <1>3, <1>4, <2>1, <3>2
      <4> HIDE DEF moved
      <4>2. moved(i) \in DOMAIN socket /\ moved(j) \in DOMAIN socket
        BY <1>4, <1>6
      <4>3. socket'[i] = socket[moved(i)] /\ socket'[j] = socket[moved(j)]
        BY <1>4, <1>6
      <4> QED
        BY <1>5, <4>1, <4>2, <4>3 DEF Network, SocketInOrder, BothDisturbed
    <3> QED
      BY <3>1, <3>2
  <2> QED
    BY <2>1 DEF SocketInOrder, BothDisturbed
<1>12. ReadInOrder'
  <2>1. \A f \in 1..Frames, p \in 1..4 : HasBeenRead(f, p)' => HasBeenRead(f, p)
    BY <1>8 DEF HasBeenRead
  <2> QED
    BY <1>9, <2>1 DEF Network, ReadInOrder
<1>13. NetworkStep
  BY <1>2, <1>5, <1>8, <1>9 DEF NetworkStep, Sent
<1> QED
  BY <1>10, <1>11, <1>12, <1>13 DEF Network

(* A datagram of another mode has no frame. *)
LEMMA SendOtherStep ==
  ASSUME TypeOK, Network, SendOther
  PROVE  Network' /\ NetworkStep
<1>1. PICK parameter \in {0, 1, 192} : socket' = Append(socket, Other(parameter))
  BY DEF SendOther
<1>2. sending' = sending /\ sensor' = sensor /\ disturbed' = disturbed
  BY DEF SendOther, setup
<1> DEFINE d == Other(parameter)
<1>3. d \in Datagrams /\ d.frame = 0
  BY Sizes DEF Other, Datagrams
<1>d. socket' = Append(socket, d)
  BY <1>1
<1> HIDE DEF d
<1>4. /\ DOMAIN socket' = 1..(Len(socket) + 1) /\ Len(socket) \in Nat
      /\ DOMAIN socket = 1..Len(socket)
      /\ \A i \in DOMAIN socket : socket'[i] = socket[i]
      /\ socket'[Len(socket) + 1] = d
  BY <1>3, <1>d DEF TypeOK
<1>5. \A f \in 1..Frames, p \in 1..4 : HasBeenRead(f, p)' <=> HasBeenRead(f, p)
  BY <1>2, <1>3, <1>4 DEF HasBeenRead, Sent
<1>6. \A f \in 1..Frames, p \in 1..4 : AllAfter(f, p) => AllAfter(f, p)'
  BY <1>2, <1>3, <1>4 DEF AllAfter, BothDisturbed
<1>7. PartSent' /\ SocketContents'
  <2>1. PartSent'
    BY <1>2 DEF Network, PartSent
  <2>2. SocketContents'
    BY <1>2, <1>4 DEF d, Network, SocketContents, Sent
  <2> QED
    BY <2>1, <2>2
<1>8. SocketInOrder'
  BY <1>2, <1>3, <1>4 DEF Network, SocketInOrder, BothDisturbed
<1>9. ReadInOrder'
  BY <1>5, <1>6 DEF Network, ReadInOrder
<1>10. NetworkStep
  BY <1>2, <1>5, <1>6 DEF NetworkStep, Sent
<1> QED
  BY <1>7, <1>8, <1>9, <1>10 DEF Network

(* Reading the datagram d: it is read, as the next of an undisturbed frame; *)
(* whatever else is left of such a frame comes after it.                    *)
ReadStep(d) ==
  /\ \A f \in 1..Frames, p \in 1..4 :
       HasBeenRead(f, p)'
         <=> HasBeenRead(f, p) \/ (f \notin disturbed /\ f = d.frame /\ p = d.part)
  /\ \A f \in 1..Frames, p \in 1..4 :
       AllAfter(f, p) \/ (f = d.frame /\ p = d.part) => AllAfter(f, p)'
  /\ \A f \in 1..Frames, p \in 1..4 :
       AllAfter(f, p) =>
         d.frame = 0 \/ Before(f, p, d.frame, d.part) \/ BothDisturbed(f, d.frame)
  /\ \A f \in (1..Frames) \ disturbed, p \in Parts(sensor) :
       Sent(f, p) /\ ~HasBeenRead(f, p) /\ d.frame # 0 =>
         (f = d.frame /\ p = d.part) \/ Before(d.frame, d.part, f, p)

LEMMA ReceiveStep ==
  ASSUME TypeOK, Network, GetData, sending' = sending, disturbed' = disturbed,
         sensor' = sensor
  PROVE  Network' /\ ReadStep(Head(socket)) /\ Head(socket) = socket[1] /\ 1 \in DOMAIN socket
<1> DEFINE d == socket[1]
<1>1. /\ socket \in Seq(Datagrams) /\ Len(socket) \in Nat /\ DOMAIN socket = 1..Len(socket)
      /\ 1 \in DOMAIN socket /\ d \in Datagrams
      /\ Head(socket) = d
      /\ DOMAIN socket' = 1..(Len(socket) - 1)
      /\ \A i \in DOMAIN socket' : i + 1 \in DOMAIN socket /\ socket'[i] = socket[i + 1]
  BY DEF GetData, TypeOK
<1>2. \A j \in DOMAIN socket : j # 1 => j - 1 \in DOMAIN socket' /\ socket[j] = socket'[j - 1]
  <2> SUFFICES ASSUME NEW j \in DOMAIN socket, j # 1
               PROVE  j - 1 \in DOMAIN socket' /\ socket[j] = socket'[j - 1]
    OBVIOUS
  <2>1. j - 1 \in 1..(Len(socket) - 1) /\ (j - 1) + 1 = j
    BY <1>1
  <2> QED
    BY <1>1, <2>1
<1>k. /\ \A i \in DOMAIN socket : socket[i].frame \in 0..Frames /\ socket[i].part \in 0..4
      /\ d.frame \in 0..Frames /\ d.part \in 0..4 /\ Frames \in Nat
  BY <1>1, Keys, Sizes
<1>later. \A j \in DOMAIN socket :
            j # 1 => \/ d.frame = 0 \/ socket[j].frame = 0
                     \/ Before(d.frame, d.part, socket[j].frame, socket[j].part)
                     \/ BothDisturbed(d.frame, socket[j].frame)
  <2>1. \A j \in DOMAIN socket : j # 1 => 1 < j
    BY <1>1
  <2> QED
    BY <1>1, <2>1 DEF Network, SocketInOrder
<1> HIDE DEF d
<1>3. ASSUME NEW f \in 1..Frames, NEW p \in 1..4
      PROVE  HasBeenRead(f, p)'
               <=> HasBeenRead(f, p) \/ (f \notin disturbed /\ f = d.frame /\ p = d.part)
  <2>1. ASSUME HasBeenRead(f, p)
        PROVE  HasBeenRead(f, p)'
    BY <1>1, <2>1 DEF HasBeenRead, Sent
  <2>2. ASSUME f \notin disturbed, f = d.frame, p = d.part
        PROVE  HasBeenRead(f, p)'
    <3>1. p \in Parts(sensor) /\ Sent(f, p)
      BY <1>1, <2>2, DatagramKeys DEF d, Network, SocketContents
    <3>2. \A i \in DOMAIN socket' : ~(socket'[i].frame = f /\ socket'[i].part = p)
      <4> SUFFICES ASSUME NEW i \in DOMAIN socket', socket'[i].frame = f, socket'[i].part = p
                   PROVE  FALSE
        OBVIOUS
      <4>1. i + 1 \in DOMAIN socket /\ socket'[i] = socket[i + 1] /\ i + 1 # 1
        BY <1>1
      <4>2. Before(f, p, f, p)
        BY <1>later, <2>2, <4>1 DEF BothDisturbed
      <4> QED
        BY <4>2 DEF Before
    <3> QED
      BY <2>2, <3>1, <3>2 DEF HasBeenRead, Sent
  <2>3. ASSUME HasBeenRead(f, p)', ~HasBeenRead(f, p)
        PROVE  f \notin disturbed /\ f = d.frame /\ p = d.part
    <3>1. PICK j \in DOMAIN socket : socket[j].frame = f /\ socket[j].part = p
      BY <2>3 DEF HasBeenRead, Sent
    <3>2. j = 1
      BY <1>2, <2>3, <3>1 DEF HasBeenRead
    <3> QED
      BY <2>3, <3>1, <3>2 DEF HasBeenRead, d
  <2> QED
    BY <2>1, <2>2, <2>3
<1>4. ASSUME NEW f \in 1..Frames, NEW p \in 1..4, AllAfter(f, p) \/ (f = d.frame /\ p = d.part)
      PROVE  AllAfter(f, p)'
  <2>1. CASE AllAfter(f, p)
    BY <1>1, <2>1 DEF AllAfter, BothDisturbed
  <2>2. CASE f = d.frame /\ p = d.part
    <3>1. \A i \in DOMAIN socket' : i + 1 # 1
      BY <1>1
    <3>2. d.frame # 0
      BY <2>2
    <3> QED
      BY <1>1, <1>later, <2>2, <3>1, <3>2 DEF AllAfter, BothDisturbed
  <2> QED
    BY <1>4, <2>1, <2>2
<1>5. ASSUME NEW f \in 1..Frames, NEW p \in 1..4, AllAfter(f, p)
      PROVE  d.frame = 0 \/ Before(f, p, d.frame, d.part) \/ BothDisturbed(f, d.frame)
  BY <1>1, <1>5 DEF AllAfter, d
<1>6. ASSUME NEW f \in (1..Frames) \ disturbed, NEW p \in Parts(sensor),
             Sent(f, p), ~HasBeenRead(f, p), d.frame # 0
      PROVE  (f = d.frame /\ p = d.part) \/ Before(d.frame, d.part, f, p)
  <2>1. PICK j \in DOMAIN socket : socket[j].frame = f /\ socket[j].part = p
    BY <1>6 DEF HasBeenRead
  <2>2. CASE j = 1
    BY <2>1, <2>2 DEF d
  <2>3. CASE j # 1
    <3>1. f # 0 /\ f \notin disturbed
      BY <1>6
    <3> QED
      BY <1>6, <1>later, <2>1, <2>3, <3>1 DEF BothDisturbed
  <2> QED
    BY <2>2, <2>3
<1>7. PartSent' /\ SocketContents' /\ SocketInOrder'
  <2>1. PartSent'
    BY DEF Network, PartSent
  <2>2. SocketContents'
    BY <1>1 DEF Network, SocketContents, Sent
  <2>3. SocketInOrder'
    <3>1. \A i, j \in DOMAIN socket' : i < j => i + 1 < j + 1
      BY <1>1
    <3> QED
      BY <1>1, <3>1 DEF Network, SocketInOrder, BothDisturbed
  <2> QED
    BY <2>1, <2>2, <2>3
<1>8. ReadInOrder'
  BY <1>3, <1>4 DEF Network, ReadInOrder
<1>9. ReadStep(d)
  BY <1>3, <1>4, <1>5, <1>6 DEF ReadStep
<1> QED
  BY <1>1, <1>7, <1>8, <1>9 DEF Network, d

-----------------------------------------------------------------------------
(*                    What the node keeps and publishes                      *)

(* MixedOnlyIfDisturbed of one cloud. *)
CloudOK(cloud) ==
  LET frames == {o[1] : o \in OriginsOf(cloud)}
      newest == CHOOSE f \in frames : \A g \in frames : g <= f
  IN  \/ frames \cap disturbed # {}
      \/ model = "r270" /\ cloud[0] = WholeScan(newest)
      \/ /\ model # "r270"
         /\ \/ newest = 1 \/ newest - 1 \in disturbed
            \/ \A ch \in Channels(model) :
                 cloud[ch] \in {<<<<f, ch + 1>>>> : f \in {newest - 1, newest}}

LEMMA EachCloud == MixedOnlyIfDisturbed <=> \A cloud \in published : CloudOK(cloud)
BY DEF MixedOnlyIfDisturbed, CloudOK

(* A cloud stays so whatever is disturbed later. *)
LEMMA CloudStaysOK ==
  ASSUME NEW cloud, CloudOK(cloud), disturbed \subseteq disturbed', model' = model
  PROVE  CloudOK(cloud)'
<1> DEFINE frames == {o[1] : o \in OriginsOf(cloud)}
           newest == CHOOSE f \in frames : \A g \in frames : g <= f
<1>1. OriginsOf(cloud)' = OriginsOf(cloud)
  BY DEF OriginsOf
<1>2. model = "r270" => WholeScan(newest)' = WholeScan(newest)
  BY DEF WholeScan
<1>3. \/ frames \cap disturbed # {}
      \/ model = "r270" /\ cloud[0] = WholeScan(newest)
      \/ /\ model # "r270"
         /\ \/ newest = 1 \/ newest - 1 \in disturbed
            \/ \A ch \in Channels(model) :
                 cloud[ch] \in {<<<<f, ch + 1>>>> : f \in {newest - 1, newest}}
  BY DEF CloudOK
<1>4. CloudOK(cloud)' <=>
        \/ frames \cap disturbed' # {}
        \/ model' = "r270" /\ cloud[0] = WholeScan(newest)'
        \/ /\ model' # "r270"
           /\ \/ newest = 1 \/ newest - 1 \in disturbed'
              \/ \A ch \in Channels(model') :
                   cloud[ch] \in {<<<<f, ch + 1>>>> : f \in {newest - 1, newest}}
  BY <1>1 DEF CloudOK
<1> HIDE DEF frames, newest
<1> QED
  BY <1>2, <1>3, <1>4

Node == Recognized /\ LengthsOf /\ LengthsNewest /\ KeptFirst /\ RestIsAwaited /\ WholePublished
        /\ MixedOnlyIfDisturbed

(* The sensor and the network do not disturb the node. *)
LEMMA NetworkKeepsNode ==
  ASSUME TypeOK, Node, NetworkStep, UNCHANGED <<setup, node>>
  PROVE  Node'
<1>1. /\ model' = model /\ sensor' = sensor /\ mPtrTimer' = mPtrTimer
      /\ mbCheckedLidarInputed' = mbCheckedLidarInputed /\ mCheckedModel' = mCheckedModel
      /\ mCheckedChannel' = mCheckedChannel /\ mVecTempBuf' = mVecTempBuf
      /\ mVecLenBuf' = mVecLenBuf /\ published' = published
  BY DEF setup, node
<1>2. \A f \in 1..Frames, p \in 1..4 : HasBeenRead(f, p)' =>
         f \notin disturbed' /\ f \notin disturbed /\ HasBeenRead(f, p)
  BY DEF NetworkStep, HasBeenRead
<1>3. \A f \in 1..Frames, p \in 1..4 :
         f \notin disturbed' /\ HasBeenRead(f, p) => HasBeenRead(f, p)'
  BY DEF NetworkStep
<1>4. \A f \in 1..Frames, p \in 1..4 : Sent(f, p) => Sent(f, p)'
  BY DEF NetworkStep
<1>5. \A f \in 1..Frames, p \in 1..4 : Sent(f, p) /\ AllAfter(f, p) => AllAfter(f, p)'
  BY DEF NetworkStep
<1>6. \A x : x \notin disturbed' => x \notin disturbed
  BY DEF NetworkStep
<1>7. \A ch \in Channels(model) : ch + 1 \in 1..4
  BY PartsNumbered DEF TypeOK, Models
<1>8. Recognized'
  BY <1>1, <1>2 DEF Node, Recognized
<1>9. LengthsOf'
  BY <1>1, <1>4, <1>5, <1>7 DEF Node, LengthsOf
<1>10. LengthsNewest'
  BY <1>1, <1>2, <1>7 DEF Node, LengthsNewest
<1>11. KeptFirst'
  BY <1>1, <1>2, <1>4, <1>5 DEF Node, KeptFirst
<1>12. RestIsAwaited'
  <2> SUFFICES ASSUME mPtrTimer, sensor = model, model = "r270", NEW f \in 1..Frames,
                      HasBeenRead(f, 1)', ~HasBeenRead(f, 2)', f - 1 \notin disturbed'
               PROVE  mVecTempBuf = <<Distance("r270", f, 1)>>
    BY <1>1 DEF RestIsAwaited
  <2>1. HasBeenRead(f, 1) /\ ~HasBeenRead(f, 2) /\ f - 1 \notin disturbed
    BY <1>2, <1>3, <1>6
  <2> QED
    BY <2>1 DEF Node, RestIsAwaited
<1>13. WholePublished'
  <2> SUFFICES ASSUME mPtrTimer, sensor = model, mCheckedChannel \in Channels(model),
                      NEW f \in 1..Frames, HasBeenRead(f, LastPart)', f - 1 \notin disturbed'
               PROVE  \E cloud \in published : cloud[mCheckedChannel] = WholeScan(f)
    BY <1>1 DEF WholePublished, WholeScan
  <2>1. LastPart \in 1..4 /\ LastPart' = LastPart
    BY <1>1, <1>7 DEF LastPart
  <2>2. PICK p \in 1..4 : p = LastPart
    BY <2>1
  <2>3. HasBeenRead(f, p)'
    BY <2>1, <2>2
  <2>4. HasBeenRead(f, LastPart) /\ f - 1 \notin disturbed
    BY <1>2, <1>6, <2>2, <2>3
  <2> QED
    BY <2>4 DEF Node, WholePublished
<1>14. MixedOnlyIfDisturbed'
  <2>1. \A cloud \in published : CloudOK(cloud)
    BY EachCloud DEF Node
  <2>2. \A cloud \in published' : CloudOK(cloud)'
    BY <1>1, <2>1, CloudStaysOK DEF NetworkStep
  <2>3. (MixedOnlyIfDisturbed <=> \A cloud \in published : CloudOK(cloud))'
    BY EachCloud, PTL
  <2> QED
    BY <2>2, <2>3
<1> QED
  BY <1>8, <1>9, <1>10, <1>11, <1>12, <1>13, <1>14 DEF Node

(* Of an undisturbed frame, the first part is read first. *)
LEMMA FirstIsReadFirst ==
  ASSUME TypeOK, Network, NEW f \in 1..Frames, NEW p \in 1..4, HasBeenRead(f, p)
  PROVE  HasBeenRead(f, 1)
<1>1. sending[1] \in Nat /\ sending[2] \in Nat
  BY Keys
<1>2. f \notin disturbed /\ p \in Parts(sensor) /\ Sent(f, p) /\ AllAfter(f, p)
  BY DEF HasBeenRead, Network, ReadInOrder
<1>3. 1 \in Parts(sensor)
  BY PartsNumbered DEF TypeOK
<1>4. Sent(f, 1)
  BY <1>1, <1>2 DEF Sent, Before
<1>5. \A i \in DOMAIN socket : ~(socket[i].frame = f /\ socket[i].part = 1)
  BY <1>2 DEF AllAfter, Before, BothDisturbed
<1> QED
  BY <1>2, <1>3, <1>4, <1>5 DEF HasBeenRead

(* The next datagram is d, and of distance data part p of frame f. *)
Reads(d) ==
  /\ ReadStep(d)
  /\ \A f \in 1..Frames, p \in 1..4 : HasBeenRead(f, p) =>
       HasBeenRead(f, 1) /\ (d.frame = 0 \/ Before(f, p, d.frame, d.part))
  /\ sending' = sending /\ disturbed' = disturbed
  /\ model' = model /\ sensor' = sensor /\ mPtrTimer' = mPtrTimer

ReadsPart(d, f, p) == /\ Reads(d) /\ d = Distance(sensor, f, p) /\ Sent(f, p)
                      /\ f \in 1..Frames /\ p \in Parts(sensor)

(* What that says of the parts of undisturbed frames. *)
LEMMA ReadsInOrder ==
  ASSUME TypeOK, NEW d, NEW f, NEW p, ReadsPart(d, f, p)
  PROVE  /\ d.frame = f /\ d.part = p /\ f \in 1..Frames /\ p \in 1..4 /\ p \in Parts(sensor)
         /\ Sent(f, p)
         /\ \A g \in 1..Frames, q \in 1..4 :
              HasBeenRead(g, q)' <=> HasBeenRead(g, q) \/ (g \notin disturbed /\ g = f /\ q = p)
         /\ \A g \in 1..Frames, q \in 1..4 :
              HasBeenRead(g, q) => HasBeenRead(g, 1) /\ Before(g, q, f, p)
         /\ \A g \in 1..Frames, q \in 1..4 :
              AllAfter(g, q) => Before(g, q, f, p) \/ BothDisturbed(g, f)
         /\ \A g \in 1..Frames, q \in 1..4 :
              AllAfter(g, q) \/ (g = f /\ q = p) => AllAfter(g, q)'
         /\ \A g \in (1..Frames) \ disturbed, q \in Parts(sensor) :
              Sent(g, q) /\ ~HasBeenRead(g, q) => (g = f /\ q = p) \/ Before(f, p, g, q)
<1>1. d.frame = f /\ d.part = p /\ f \in 1..Frames /\ p \in Parts(sensor) /\ Reads(d) /\ Sent(f, p)
  BY DatagramKeys DEF ReadsPart
<1>2. p \in 1..4 /\ f # 0
  BY <1>1, PartsBounded DEF TypeOK
<1> QED
  BY <1>1, <1>2 DEF Reads, ReadStep

(* A datagram that is not distance data is not part of a scan. *)
LEMMA OtherModeKeepsNode ==
  ASSUME TypeOK, Node, NEW d, Reads(d), d.frame = 0,
         model = sensor, mPtrTimer, mbCheckedLidarInputed' = TRUE, mCheckedModel' = model,
         mbCheckedLidarInputed => mCheckedChannel' = mCheckedChannel,
         mCheckedChannel' \in 0..15,
         UNCHANGED <<mVecTempBuf, mVecLenBuf, published>>
  PROVE  Node'
<1>1. /\ sending' = sending /\ disturbed' = disturbed
      /\ model' = model /\ sensor' = sensor /\ mPtrTimer' = mPtrTimer
      /\ mVecTempBuf' = mVecTempBuf /\ mVecLenBuf' = mVecLenBuf /\ published' = published
  BY DEF Reads
<1>2. \A f \in 1..Frames, p \in 1..4 : HasBeenRead(f, p)' <=> HasBeenRead(f, p)
  BY DEF Reads, ReadStep
<1>3. \A f \in 1..Frames, p \in 1..4 : AllAfter(f, p) => AllAfter(f, p)'
  BY DEF Reads, ReadStep
<1>4. \A ch \in Channels(model) : ch + 1 \in 1..4
  BY PartsNumbered DEF TypeOK, Models
<1>5. Recognized'
  BY <1>1 DEF Recognized
<1>6. LengthsOf'
  BY <1>1, <1>3, <1>4 DEF Node, LengthsOf, Sent
<1>7. LengthsNewest'
  BY <1>1, <1>2, <1>4 DEF Node, LengthsNewest
<1>8. KeptFirst'
  BY <1>1, <1>2, <1>3 DEF Node, KeptFirst, Sent
<1>9. RestIsAwaited'
  BY <1>1, <1>2 DEF Node, RestIsAwaited
<1>10. WholePublished'
  <2> SUFFICES ASSUME mCheckedChannel' \in Channels(model),
                      NEW f \in 1..Frames, HasBeenRead(f, LastPart)', f - 1 \notin disturbed
               PROVE  \E cloud \in published : cloud[mCheckedChannel'] = WholeScan(f)'
    BY <1>1 DEF WholePublished
  <2>0. mCheckedChannel' + 1 \in 1..4
    BY <1>4
  <2>1. PICK p \in 1..4 : p = LastPart'
    <3>1. LastPart' = IF model = "r270" THEN 2 ELSE mCheckedChannel' + 1
      BY <1>1 DEF LastPart
    <3>2. LastPart' \in 1..4
      <4>1. CASE model = "r270"
        BY <3>1, <4>1
      <4>2. CASE model # "r270"
        BY <2>0, <3>1, <4>2
      <4> QED
        BY <4>1, <4>2
    <3> QED
      BY <3>2
  <2>2. HasBeenRead(f, p)'
    BY <2>1
  <2>3. HasBeenRead(f, p) /\ HasBeenRead(f, 1)
    BY <1>2, <2>2 DEF Reads
  <2>4. mCheckedChannel' = mCheckedChannel
    BY <2>3 DEF Node, Recognized
  <2>5. p = LastPart /\ WholeScan(f)' = WholeScan(f)
    BY <1>1, <2>1, <2>4 DEF LastPart, WholeScan
  <2> QED
    BY <2>3, <2>4, <2>5 DEF Node, WholePublished
<1>11. MixedOnlyIfDisturbed'
  BY <1>1, CloudStaysOK, EachCloud DEF Node, MixedOnlyIfDisturbed, CloudOK, WholeScan
<1> QED
  BY <1>5, <1>6, <1>7, <1>8, <1>9, <1>10, <1>11 DEF Node

(* A rest whose beginning has not been kept is dropped. *)
LEMMA DroppedKeepsNode ==
  ASSUME TypeOK, Node, NEW d, NEW f, ReadsPart(d, f, 2), sensor = "r270", mVecTempBuf = <<>>,
         UNCHANGED <<mbCheckedLidarInputed, mCheckedModel, mCheckedChannel,
                     mVecTempBuf, mVecLenBuf, published>>
  PROVE  Node'
<1>1. /\ sending' = sending /\ disturbed' = disturbed
      /\ model' = model /\ sensor' = sensor /\ mPtrTimer' = mPtrTimer
      /\ mbCheckedLidarInputed' = mbCheckedLidarInputed /\ mCheckedModel' = mCheckedModel
      /\ mCheckedChannel' = mCheckedChannel
      /\ mVecTempBuf' = mVecTempBuf /\ mVecLenBuf' = mVecLenBuf /\ published' = published
  BY DEF ReadsPart, Reads
<1>2. /\ f \in 1..Frames /\ Sent(f, 2)
      /\ \A g \in 1..Frames, q \in 1..4 :
           HasBeenRead(g, q)' <=> HasBeenRead(g, q) \/ (g \notin disturbed /\ g = f /\ q = 2)
      /\ \A g \in 1..Frames, q \in 1..4 : AllAfter(g, q) => AllAfter(g, q)'
      /\ \A g \in (1..Frames) \ disturbed, q \in Parts(sensor) :
           Sent(g, q) /\ ~HasBeenRead(g, q) => (g = f /\ q = 2) \/ Before(f, 2, g, q)
  BY ReadsInOrder
<1>3. \A ch \in Channels(model) : ch + 1 \in 1..4
  BY PartsNumbered DEF TypeOK, Models
<1>4. Recognized'
  BY <1>1, <1>2 DEF Node, Recognized
<1>5. LengthsOf'
  BY <1>1, <1>2, <1>3 DEF Node, LengthsOf, Sent
<1>6. LengthsNewest' /\ KeptFirst'
  BY <1>1 DEF LengthsNewest, KeptFirst
<1>7. RestIsAwaited'
  BY <1>1, <1>2 DEF Node, RestIsAwaited
<1>8. WholePublished'
  <2> SUFFICES ASSUME mPtrTimer, sensor = model, mCheckedChannel \in Channels(model),
                      NEW g \in 1..Frames, HasBeenRead(g, 2)', g - 1 \notin disturbed
               PROVE  \E cloud \in published : cloud[mCheckedChannel] = WholeScan(g)
    BY <1>1 DEF WholePublished, WholeScan, LastPart
  <2>1. HasBeenRead(g, 2)
    <3> SUFFICES ASSUME ~HasBeenRead(g, 2) PROVE FALSE
      OBVIOUS
    <3>1. g = f /\ f \notin disturbed
      BY <1>2
    <3>2. HasBeenRead(f, 1)
      <4>1. 1 \in Parts(sensor) /\ Sent(f, 1)
        BY <1>2, Keys, PartsNumbered DEF Sent, Before
      <4> QED
        BY <1>2, <3>1, <4>1 DEF Before
    <3> QED
      BY <3>1, <3>2 DEF Node, RestIsAwaited
  <2> QED
    BY <2>1 DEF Node, WholePublished, LastPart
<1>9. MixedOnlyIfDisturbed'
  BY <1>1 DEF Node, MixedOnlyIfDisturbed, WholeScan
<1> QED
  BY <1>4, <1>5, <1>6, <1>7, <1>8, <1>9 DEF Node

(* A datagram of another model is not looked into. *)
LEMMA UnrecognizedKeepsNode ==
  ASSUME TypeOK, Node, NEW d, Reads(d), sensor # model, ~mbCheckedLidarInputed,
         UNCHANGED <<mbCheckedLidarInputed, mCheckedChannel, mVecTempBuf, mVecLenBuf, published>>
  PROVE  Node'
<1>1. /\ model' = model /\ sensor' = sensor
      /\ mbCheckedLidarInputed' = FALSE /\ mVecTempBuf' = <<>> /\ published' = {}
      /\ \A ch \in Channels(model) : mVecLenBuf'[ch] = <<>>
  BY DEF Node, Recognized, Reads
<1>2. /\ Recognized' /\ LengthsOf' /\ LengthsNewest'
      /\ KeptFirst' /\ RestIsAwaited' /\ WholePublished'
  BY <1>1 DEF Recognized, LengthsOf, LengthsNewest, KeptFirst, RestIsAwaited, WholePublished
<1>3. MixedOnlyIfDisturbed'
  BY <1>1 DEF MixedOnlyIfDisturbed
<1> QED
  BY <1>2, <1>3 DEF Node

(* The first datagram of an R270 scan is kept. *)
LEMMA FirstKeepsNode ==
  ASSUME TypeOK, Node, NEW d, NEW f, ReadsPart(d, f, 1), model = "r270",
         model = sensor, mPtrTimer, mbCheckedLidarInputed' = TRUE, mCheckedModel' = model,
         mbCheckedLidarInputed => mCheckedChannel' = mCheckedChannel,
         mVecTempBuf = <<>>, mVecTempBuf' = <<d>>,
         UNCHANGED <<mVecLenBuf, published>>
  PROVE  Node'
<1>1. /\ sending' = sending /\ disturbed' = disturbed
      /\ model' = model /\ sensor' = sensor /\ mPtrTimer' = mPtrTimer
      /\ mVecLenBuf' = mVecLenBuf /\ published' = published
      /\ d = Distance("r270", f, 1)
  BY DEF ReadsPart, Reads
<1>2. /\ f \in 1..Frames /\ Sent(f, 1)
      /\ \A g \in 1..Frames, q \in 1..4 :
           HasBeenRead(g, q)' <=> HasBeenRead(g, q) \/ (g \notin disturbed /\ g = f /\ q = 1)
      /\ \A g \in 1..Frames, q \in 1..4 :
           HasBeenRead(g, q) => HasBeenRead(g, 1) /\ Before(g, q, f, 1)
      /\ AllAfter(f, 1)'
  BY ReadsInOrder
<1>3. Recognized'
  BY <1>1 DEF Recognized
<1>4. LengthsOf' /\ LengthsNewest'
  BY <1>1 DEF LengthsOf, LengthsNewest
<1>5. KeptFirst'
  <2>1. \A g \in 1..Frames, q \in 1..4 : HasBeenRead(g, q)' => ~Before(f, 1, g, q)
    BY <1>2 DEF Before
  <2>2. Sent(f, 1)'
    BY <1>1, <1>2 DEF Sent
  <2> QED
    BY <1>1, <1>2, <2>1, <2>2 DEF KeptFirst
<1>6. RestIsAwaited'
  <2> SUFFICES ASSUME NEW g \in 1..Frames, HasBeenRead(g, 1)', ~HasBeenRead(g, 2)',
                      g - 1 \notin disturbed
               PROVE  <<d>> = <<Distance("r270", g, 1)>>
    BY <1>1 DEF RestIsAwaited
  <2>1. CASE g = f
    BY <1>1, <2>1
  <2>2. CASE g # f
    <3>1. HasBeenRead(g, 1) /\ ~HasBeenRead(g, 2)
      BY <1>2, <2>2
    <3>2. mVecTempBuf = <<Distance("r270", g, 1)>>
      BY <3>1 DEF Node, RestIsAwaited
    <3> QED
      BY <3>2
  <2> QED
    BY <2>1, <2>2
<1>7. WholePublished'
  <2> SUFFICES ASSUME mCheckedChannel' \in Channels(model),
                      NEW g \in 1..Frames, HasBeenRead(g, 2)', g - 1 \notin disturbed
               PROVE  \E cloud \in published : cloud[mCheckedChannel'] = WholeScan(g)'
    BY <1>1 DEF WholePublished, LastPart
  <2>1. HasBeenRead(g, 2) /\ HasBeenRead(g, 1)
    BY <1>2
  <2>2. mCheckedChannel' = mCheckedChannel
    BY <2>1 DEF Node, Recognized
  <2>3. WholeScan(g)' = WholeScan(g)
    BY <1>1 DEF WholeScan
  <2> QED
    BY <2>1, <2>2, <2>3 DEF Node, WholePublished, LastPart
<1>8. MixedOnlyIfDisturbed'
  BY <1>1 DEF Node, MixedOnlyIfDisturbed, WholeScan
<1> QED
  BY <1>3, <1>4, <1>5, <1>6, <1>7, <1>8 DEF Node

(* A set of frames with one that is not before any other. *)
LEMMA TheNewest ==
  ASSUME NEW S \in SUBSET Nat, NEW n \in S, \A g \in S : g <= n
  PROVE  (CHOOSE f \in S : \A g \in S : g <= f) = n
<1> DEFINE m == CHOOSE f \in S : \A g \in S : g <= f
<1>1. m \in S /\ \A g \in S : g <= m
  OBVIOUS
<1> HIDE DEF m
<1>2. m \in Nat /\ n \in Nat /\ n <= m /\ m <= n
  BY <1>1
<1>3. m = n
  BY <1>2
<1> QED
  BY <1>3 DEF m

(* The cloud of an R270 scan put together from two datagrams. *)
LEMMA TwoPartsOrigins ==
  ASSUME NEW cloud, NEW f, NEW g, NEW q, DOMAIN cloud = {0},
         cloud[0] = <<<<f, 1>>, <<g, q>>>>
  PROVE  {o[1] : o \in OriginsOf(cloud)} = {f, g}
<1>1. OriginsOf(cloud) = ToSet(cloud[0])
  BY DEF OriginsOf
<1>2. ToSet(cloud[0]) = {<<f, 1>>, <<g, q>>}
  BY DEF ToSet
<1> QED
  BY <1>1, <1>2

(* One datagram after another. *)
LEMMA AppendToOne ==
  ASSUME NEW a, NEW b
  PROVE  Append(<<a>>, b) = <<a, b>>
<1>1. <<a>> \in Seq({a, b}) /\ b \in {a, b} /\ <<a, b>> \in Seq({a, b})
  OBVIOUS
<1>2. /\ Append(<<a>>, b) \in Seq({a, b}) /\ Len(Append(<<a>>, b)) = 2
      /\ Append(<<a>>, b)[1] = a /\ Append(<<a>>, b)[2] = b
  BY <1>1
<1>3. Len(<<a, b>>) = 2 /\ <<a, b>>[1] = a /\ <<a, b>>[2] = b
  OBVIOUS
<1>4. \A i \in 1..2 : i = 1 \/ i = 2
  OBVIOUS
<1> QED
  BY <1>1, <1>2, <1>3, <1>4, SeqEqual

(* What has been kept of an R270 scan and the next datagram. *)
LEMMA KeptAndNext ==
  ASSUME TypeOK, Node, NEW d, NEW f, NEW p, ReadsPart(d, f, p),
         model = "r270", mVecTempBuf # <<>>
  PROVE  \E k \in 1..Frames :
           /\ mVecTempBuf = <<Distance("r270", k, 1)>>
           /\ Before(k, 1, f, p) \/ BothDisturbed(k, f)
           /\ \A g \in 1..Frames, q \in 1..4 : HasBeenRead(g, q) => ~Before(k, 1, g, q)
<1>1. PICK k \in 1..Frames :
        /\ mVecTempBuf = <<Distance("r270", k, 1)>>
        /\ AllAfter(k, 1)
        /\ \A g \in 1..Frames, q \in 1..4 : HasBeenRead(g, q) => ~Before(k, 1, g, q)
  BY DEF Node, KeptFirst
<1>2. Before(k, 1, f, p) \/ BothDisturbed(k, f)
  BY <1>1, ReadsInOrder
<1> QED
  BY <1>1, <1>2

(* The second datagram, or whatever comes in its place, ends an R270 scan. *)
LEMMA SecondKeepsNode ==
  ASSUME TypeOK, Node, NEW d, NEW f, NEW p, ReadsPart(d, f, p), model = "r270",
         mVecTempBuf # <<>>, mVecTempBuf' = <<>>,
         parseLength(Append(mVecTempBuf, d), 0, mCheckedChannel),
         mbCheckedLidarInputed' = TRUE,
         UNCHANGED <<mCheckedModel, mCheckedChannel>>
  PROVE  Node'
<1>1. /\ sending' = sending /\ disturbed' = disturbed
      /\ model' = model /\ sensor' = sensor /\ mPtrTimer' = mPtrTimer
      /\ mCheckedModel' = mCheckedModel /\ mCheckedChannel' = mCheckedChannel
  BY DEF ReadsPart, Reads
<1>2. /\ mbCheckedLidarInputed /\ mPtrTimer /\ sensor = model /\ mCheckedModel = model
      /\ d = Distance("r270", f, p)
  BY DEF Node, Recognized, ReadsPart
<1>3. /\ f \in 1..Frames /\ p \in 1..2 /\ Sent(f, p)
      /\ \A g \in 1..Frames, q \in 1..4 :
           HasBeenRead(g, q)' <=> HasBeenRead(g, q) \/ (g \notin disturbed /\ g = f /\ q = p)
      /\ \A g \in 1..Frames, q \in 1..4 :
           HasBeenRead(g, q) => HasBeenRead(g, 1) /\ Before(g, q, f, p)
      /\ \A g \in (1..Frames) \ disturbed, q \in 1..2 :
           Sent(g, q) /\ ~HasBeenRead(g, q) => (g = f /\ q = p) \/ Before(f, p, g, q)
  BY <1>2, ReadsInOrder, PartsNumbered
<1>4. PICK k \in 1..Frames :
        /\ mVecTempBuf = <<Distance("r270", k, 1)>>
        /\ Before(k, 1, f, p) \/ BothDisturbed(k, f)
        /\ \A g \in 1..Frames, q \in 1..4 : HasBeenRead(g, q) => ~Before(k, 1, g, q)
  BY KeptAndNext
<1>s. \A g \in Nat, q \in Nat : Before(g, q, f, p) => Sent(g, q)
  BY <1>3, Keys DEF Sent, Before
<1>5. /\ \/ published' = published
         \/ \E cloud : /\ published' = published \cup {cloud}
                       /\ DOMAIN cloud = {0} /\ cloud[0] = <<<<k, 1>>, <<f, p>>>>
      /\ k = f /\ p = 2 /\ mCheckedChannel = 0 =>
           \E cloud \in published' : cloud[0] = <<<<k, 1>>, <<f, p>>>>
      /\ published \subseteq published'
  <2>1. PICK pieces : pieces = Append(mVecTempBuf, d)
    OBVIOUS
  <2>2. pieces = <<Distance("r270", k, 1), Distance("r270", f, p)>>
    BY <1>2, <1>4, <2>1, AppendToOne
  <2>3. Origins(pieces) = <<<<k, 1>>, <<f, p>>>>
    <3>1. DOMAIN pieces = 1..2
      BY <2>2
    <3>2. Origins(pieces) = [i \in 1..2 |-> <<pieces[i].frame, pieces[i].part>>]
      BY <3>1 DEF Origins
    <3>3. pieces[1] = Distance("r270", k, 1) /\ pieces[2] = Distance("r270", f, p)
      BY <2>2
    <3>4. /\ pieces[1].frame = k /\ pieces[1].part = 1
          /\ pieces[2].frame = f /\ pieces[2].part = p
      BY <3>3, DatagramKeys
    <3> QED
      BY <3>2, <3>4
  <2>4. p = 2 => TotalSize(pieces) >= ScanSize
    BY <2>2, Sizes DEF TotalSize, Distance
  <2>5. parseLength(pieces, 0, mCheckedChannel)
    BY <2>1
  <2>6. DOMAIN mVecLenBuf = {0} /\ Channels(model) = {0}
    BY PartsNumbered DEF TypeOK
  <2>7. CASE TotalSize(pieces) >= ScanSize
    <3>1. mVecLenBuf' = [mVecLenBuf EXCEPT ![0] = Origins(pieces)]
      BY <2>5, <2>6, <2>7 DEF parseLength
    <3>2. mVecLenBuf'[0] = <<<<k, 1>>, <<f, p>>>>
      BY <2>3, <2>6, <3>1
    <3> DEFINE cloud == generatePointCloud(mVecLenBuf')
    <3>3. DOMAIN cloud = {0} /\ cloud[0] = <<<<k, 1>>, <<f, p>>>>
      BY <2>6, <3>2 DEF generatePointCloud
    <3>4. IF 0 = mCheckedChannel THEN published' = published \cup {cloud}
                                 ELSE published' = published
      BY <2>5, <2>6, <2>7 DEF parseLength, publishPointCloud
    <3> HIDE DEF cloud
    <3>5. CASE 0 = mCheckedChannel
      BY <3>3, <3>4, <3>5
    <3>6. CASE 0 # mCheckedChannel
      BY <3>4, <3>6
    <3> QED
      BY <3>5, <3>6
  <2>8. CASE ~(TotalSize(pieces) >= ScanSize)
    <3>1. published' = published
      BY <2>5, <2>8 DEF parseLength
    <3> QED
      BY <2>4, <2>8, <3>1
  <2> QED
    BY <2>7, <2>8
<1>6. Recognized'
  BY <1>1, <1>2 DEF Recognized
<1>7. LengthsOf' /\ LengthsNewest' /\ KeptFirst'
  BY <1>1 DEF LengthsOf, LengthsNewest, KeptFirst
<1>8. RestIsAwaited'
  <2> SUFFICES ASSUME NEW g \in 1..Frames, HasBeenRead(g, 1)', ~HasBeenRead(g, 2)',
                      g - 1 \notin disturbed
               PROVE  FALSE
    BY <1>1 DEF RestIsAwaited
  <2>1. g \notin disturbed
    BY <1>1 DEF HasBeenRead
  <2>2. CASE HasBeenRead(g, 1)
    <3>1. ~HasBeenRead(g, 2) /\ ~(g = f /\ p = 2)
      BY <1>3, <2>1
    <3>2. mVecTempBuf = <<Distance("r270", g, 1)>>
      BY <1>2, <2>2, <3>1 DEF Node, RestIsAwaited
    <3>3. Before(g, 1, f, p)
      BY <1>3, <2>2
    <3>4. g < f
      BY <1>3, <3>1, <3>3 DEF Before
    <3>5. Sent(g, 2)
      BY <1>s, <3>4 DEF Before
    <3> QED
      BY <1>3, <2>1, <3>1, <3>4, <3>5 DEF Before
  <2>3. CASE ~HasBeenRead(g, 1)
    <3>1. g = f /\ p = 1
      BY <1>3, <2>3
    <3>2. k < g
      BY <1>4, <2>1, <3>1 DEF Before, BothDisturbed
    <3>3. PICK h \in 1..Frames : h = g - 1
      <4>1. g - 1 \in 1..Frames
        BY <3>2, Sizes
      <4> QED
        BY <4>1
    <3>4. Sent(h, 2) /\ h \notin disturbed
      BY <1>s, <3>1, <3>3 DEF Before
    <3>5. HasBeenRead(h, 2)
      BY <1>3, <3>1, <3>3, <3>4 DEF Before
    <3>6. ~Before(k, 1, h, 2)
      BY <1>4, <3>5
    <3> QED
      BY <3>2, <3>3, <3>6 DEF Before
  <2> QED
    BY <2>2, <2>3
<1>9. WholePublished'
  <2> SUFFICES ASSUME mCheckedChannel \in Channels(model),
                      NEW g \in 1..Frames, HasBeenRead(g, 2)', g - 1 \notin disturbed
               PROVE  \E cloud \in published' : cloud[mCheckedChannel] = WholeScan(g)
    BY <1>1 DEF WholePublished, LastPart, WholeScan
  <2>1. CASE HasBeenRead(g, 2)
    <3>1. \E cloud \in published : cloud[mCheckedChannel] = WholeScan(g)
      BY <1>2, <2>1 DEF Node, WholePublished, LastPart
    <3> QED
      BY <1>5, <3>1
  <2>2. CASE ~HasBeenRead(g, 2)
    <3>1. g = f /\ p = 2 /\ g \notin disturbed
      BY <1>3, <2>2
    <3>2. HasBeenRead(g, 1)
      <4>1. Sent(g, 1)
        BY <1>s, <3>1 DEF Before
      <4> QED
        BY <1>3, <3>1, <4>1 DEF Before
    <3>3. mVecTempBuf = <<Distance("r270", g, 1)>>
      BY <1>2, <2>2, <3>2 DEF Node, RestIsAwaited
    <3>4. k = g
      <4>1. Distance("r270", k, 1) = Distance("r270", g, 1)
        BY <1>4, <3>3
      <4> QED
        BY <4>1, DatagramKeys
    <3>5. mCheckedChannel = 0
      BY PartsNumbered
    <3> QED
      BY <1>5, <3>1, <3>4, <3>5 DEF WholeScan
  <2> QED
    BY <2>1, <2>2
<1>10. MixedOnlyIfDisturbed'
  <2>1. \A cloud \in published : CloudOK(cloud)'
    BY <1>1, EachCloud, CloudStaysOK DEF Node
  <2>2. ASSUME NEW cloud, DOMAIN cloud = {0}, cloud[0] = <<<<k, 1>>, <<f, p>>>>
        PROVE  CloudOK(cloud)'
    <3> DEFINE frames == {o[1] : o \in OriginsOf(cloud)}
               newest == CHOOSE h \in frames : \A g \in frames : g <= h
    <3>1. frames = {k, f}
      BY <2>2, TwoPartsOrigins
    <3>2. OriginsOf(cloud)' = OriginsOf(cloud)
      BY DEF OriginsOf
    <3>3. CASE k \in disturbed \/ f \in disturbed
      <4>1. frames \cap disturbed' # {}
        BY <1>1, <3>1, <3>3
      <4> HIDE DEF frames
      <4>2. {o[1] : o \in OriginsOf(cloud)}' = frames
        BY <3>2 DEF frames
      <4> QED
        BY <4>1, <4>2 DEF CloudOK
    <3>4. CASE k \notin disturbed /\ f \notin disturbed
      <4>1. Before(k, 1, f, p)
        BY <1>4, <3>4 DEF BothDisturbed
      <4>2. ~HasBeenRead(k, 2)
        BY <1>4 DEF Before
      <4>3. Sent(k, 2)
        BY <1>3, <1>s, <4>1 DEF Before
      <4>4. k = f /\ p = 2
        BY <1>3, <3>4, <4>1, <4>2, <4>3 DEF Before
      <4>5. newest = f
        <5> HIDE DEF frames
        <5>1. frames = {f} /\ f \in Nat
          BY <1>3, <3>1, <4>4
        <5>2. frames \in SUBSET Nat /\ f \in frames /\ \A g \in frames : g <= f
          BY <5>1
        <5> QED
          BY <5>2, TheNewest DEF newest
      <4>6. cloud[0] = WholeScan(newest)'
        BY <1>1, <2>2, <4>4, <4>5 DEF WholeScan
      <4> QED
        BY <1>1, <3>2, <4>6 DEF CloudOK
    <3> QED
      BY <3>3, <3>4
  <2>3. \A cloud \in published' : CloudOK(cloud)'
    BY <1>5, <2>1, <2>2
  <2>4. (MixedOnlyIfDisturbed <=> \A cloud \in published : CloudOK(cloud))'
    BY EachCloud, PTL
  <2> QED
    BY <2>3, <2>4
<1> QED
  BY <1>6, <1>7, <1>8, <1>9, <1>10 DEF Node

(* A set of natural numbers has a smallest one, and one that is bounded has *)
(* a largest.                                                               *)
LEMMA SmallestNat ==
  ASSUME NEW S, S \subseteq Nat, S # {}
  PROVE  \E n \in S : \A m \in S : n <= m
<1> DEFINE R == {ss \in Nat \X Nat : ss[1] < ss[2]}
<1>1. IsWellFoundedOn(R, Nat)
  BY NatLessThanWellFounded DEF OpToRel
<1>2. \A m, n \in Nat : m < n => <<m, n>> \in R
  OBVIOUS
<1> HIDE DEF R
<1>3. PICK n \in S : \A m \in S : ~(<<m, n>> \in R)
  BY <1>1, WFMin
<1>4. \A m \in S : ~(m < n)
  BY <1>2, <1>3
<1> QED
  BY <1>3, <1>4

LEMMA LargestNat ==
  ASSUME NEW N \in Nat, NEW S, S \subseteq 1..N, S # {}
  PROVE  \E n \in S : \A m \in S : m <= n
<1> DEFINE bounds == {k \in Nat : \A m \in S : m <= k}
<1>1. N \in bounds
  OBVIOUS
<1>2. PICK k \in bounds : \A j \in bounds : k <= j
  BY <1>1, SmallestNat
<1>3. CASE k \in S
  BY <1>2, <1>3
<1>4. CASE k \notin S
  <2>1. PICK m \in S : m <= k
    BY <1>2
  <2>2. k - 1 \in Nat
    BY <1>2, <2>1
  <2>3. \A i \in S : i <= k - 1
    BY <1>2, <1>4
  <2>4. k - 1 \in bounds
    BY <2>2, <2>3
  <2> QED
    BY <1>2, <2>2, <2>4
<1> QED
  BY <1>3, <1>4

(* Of clouds of the R2 and the R4 that the channels' lengths make. *)
LEMMA LengthsMakeCloud ==
  TypeOK /\ PartSent /\ LengthsOf /\ LengthsNewest /\ model # "r270" /\ mPtrTimer /\ sensor = model
    /\ (\E ch \in Channels(model) : mVecLenBuf[ch] # <<>>)
  => CloudOK(generatePointCloud(mVecLenBuf))
<1> SUFFICES ASSUME TypeOK, PartSent, LengthsOf, LengthsNewest, model # "r270", mPtrTimer,
                    sensor = model, NEW c \in Channels(model), mVecLenBuf[c] # <<>>
             PROVE  CloudOK(generatePointCloud(mVecLenBuf))
  OBVIOUS
<1> DEFINE cloud  == generatePointCloud(mVecLenBuf)
           frames == {o[1] : o \in OriginsOf(cloud)}
           newest == CHOOSE f \in frames : \A g \in frames : g <= f
<1>1. DOMAIN cloud = Channels(model) /\ \A ch \in Channels(model) : cloud[ch] = mVecLenBuf[ch]
  BY DEF generatePointCloud
<1>2. \A ch \in Channels(model) :
        \/ mVecLenBuf[ch] = <<>>
        \/ \E f \in 1..Frames :
             mVecLenBuf[ch] = <<<<f, ch + 1>>>> /\ Sent(f, ch + 1) /\ AllAfter(f, ch + 1)
  BY DEF LengthsOf
<1> HIDE DEF cloud
<1>3. /\ \A ch \in Channels(model), f \in 1..Frames :
           cloud[ch] = <<<<f, ch + 1>>>> => f \in frames
      /\ \A f \in frames :
           f \in 1..Frames /\ \E ch \in Channels(model) : cloud[ch] = <<<<f, ch + 1>>>>
  <2>1. \A ch \in Channels(model), f \in 1..Frames :
          cloud[ch] = <<<<f, ch + 1>>>> => ToSet(cloud[ch]) = {<<f, ch + 1>>}
    BY DEF ToSet
  <2>2. \A ch \in Channels(model) : cloud[ch] = <<>> => ToSet(cloud[ch]) = {}
    BY DEF ToSet
  <2>3. \A ch \in Channels(model) : ToSet(cloud[ch]) \subseteq OriginsOf(cloud)
    BY <1>1 DEF OriginsOf
  <2>4. \A o \in OriginsOf(cloud) : \E ch \in Channels(model) : o \in ToSet(cloud[ch])
    BY <1>1 DEF OriginsOf
  <2>5. ASSUME NEW ch \in Channels(model), NEW f \in 1..Frames, cloud[ch] = <<<<f, ch + 1>>>>
        PROVE  f \in frames
    <3>1. <<f, ch + 1>> \in OriginsOf(cloud)
      BY <2>1, <2>3, <2>5
    <3>2. <<f, ch + 1>>[1] = f
      OBVIOUS
    <3> QED
      BY <3>1, <3>2
  <2>6. ASSUME NEW f \in frames
        PROVE  f \in 1..Frames /\ \E ch \in Channels(model) : cloud[ch] = <<<<f, ch + 1>>>>
    <3>1. PICK o \in OriginsOf(cloud) : f = o[1]
      OBVIOUS
    <3>2. PICK ch \in Channels(model) : o \in ToSet(cloud[ch])
      BY <2>4
    <3>3. PICK g \in 1..Frames : cloud[ch] = <<<<g, ch + 1>>>>
      BY <1>1, <1>2, <2>2, <3>2
    <3>4. o = <<g, ch + 1>>
      BY <2>1, <3>2, <3>3
    <3> QED
      BY <3>1, <3>3, <3>4
  <2> QED
    BY <2>5, <2>6
<1> HIDE DEF frames
<1>4. PICK n \in frames : \A g \in frames : g <= n
  <2>1. frames \subseteq 1..Frames /\ Frames \in Nat
    BY <1>3, Sizes
  <2>2. frames # {}
    BY <1>1, <1>2, <1>3
  <2> QED
    BY <2>1, <2>2, LargestNat
<1>5. newest = n /\ n \in 1..Frames
  <2>1. frames \in SUBSET Nat
    BY <1>3
  <2> QED
    BY <1>3, <1>4, <2>1, TheNewest
<1>6. CASE frames \cap disturbed # {}
  BY <1>6 DEF CloudOK, frames, cloud
<1>7. CASE n = 1 \/ n - 1 \in disturbed
  BY <1>5, <1>7 DEF CloudOK, frames, cloud
<1>8. CASE frames \cap disturbed = {} /\ n # 1 /\ n - 1 \notin disturbed
  <2>1. n - 1 \in (1..Frames) \ disturbed /\ n \notin disturbed
    BY <1>5, <1>8, Sizes
  <2>2. PICK x \in Channels(model) : cloud[x] = <<<<n, x + 1>>>>
    BY <1>3
  <2>3. ASSUME NEW ch \in Channels(model)
        PROVE  cloud[ch] \in {<<<<f, ch + 1>>>> : f \in {n - 1, n}}
    <3>1. PICK h \in 1..Frames : h = n - 1
      BY <2>1
    <3>2. ch + 1 \in Parts(sensor) /\ x + 1 \in Parts(sensor) /\ Parts(sensor) \subseteq 1..4
      BY PartsNumbered, PartsBounded DEF TypeOK, Models
    <3>3. Sent(n, x + 1) /\ AllAfter(n, x + 1)
      <4>1. PICK f \in 1..Frames :
              mVecLenBuf[x] = <<<<f, x + 1>>>> /\ Sent(f, x + 1) /\ AllAfter(f, x + 1)
        BY <1>1, <1>2, <2>2
      <4>2. f = n
        BY <1>1, <2>2, <4>1
      <4> QED
        BY <4>1, <4>2
    <3>4. Sent(h, ch + 1)
      BY <1>5, <3>1, <3>3, Keys DEF Sent, Before
    <3>5. HasBeenRead(h, ch + 1)
      <4> SUFFICES ASSUME NEW i \in DOMAIN socket, socket[i].frame = h, socket[i].part = ch + 1
                   PROVE  FALSE
        BY <2>1, <3>1, <3>2, <3>4 DEF HasBeenRead
      <4>1. Before(n, x + 1, h, ch + 1) \/ BothDisturbed(n, h)
        BY <3>3 DEF AllAfter
      <4> QED
        BY <1>5, <2>1, <3>1, <4>1 DEF Before, BothDisturbed
    <3>6. mVecLenBuf[ch] # <<>> /\ h <= mVecLenBuf[ch][1][1]
      BY <3>5 DEF LengthsNewest
    <3>7. PICK f \in 1..Frames : mVecLenBuf[ch] = <<<<f, ch + 1>>>>
      BY <1>2, <3>6
    <3>8. f \in frames /\ h <= f
      BY <1>1, <1>3, <3>6, <3>7
    <3>9. f = n - 1 \/ f = n
      BY <1>4, <1>5, <3>1, <3>8
    <3> QED
      BY <1>1, <3>7, <3>9
  <2> QED
    BY <1>5, <2>3 DEF CloudOK, frames, cloud
<1> QED
  BY <1>6, <1>7, <1>8

(* The channel of a datagram of the R2 or the R4 is its part of the scan. *)
LEMMA ChannelOfPart ==
  ASSUME NEW m \in Models, m # "r270", NEW f \in 1..Frames, NEW p \in Parts(m)
  PROVE  /\ Channel(Distance(m, f, p)) = p - 1
         /\ p - 1 \in Channels(m) /\ p - 1 + 1 = p /\ p \in 1..4
         /\ TotalSize(<<Distance(m, f, p)>>) >= ScanSize
         /\ Origins(<<Distance(m, f, p)>>) = <<<<f, p>>>>
<1> DEFINE d == Distance(m, f, p)
<1>1. p \in 1..4 /\ p - 1 \in Channels(m)
  BY PartsNumbered DEF Models
<1>2. Channel(d) = p - 1
  <2>1. d.parameter = 191 + p
    BY DEF Distance
  <2>2. p = 1 \/ p = 2 \/ p = 3 \/ p = 4
    BY <1>1
  <2>3. 192 % 16 = 0 /\ 193 % 16 = 1 /\ 194 % 16 = 2 /\ 195 % 16 = 3
    OBVIOUS
  <2> QED
    BY <2>1, <2>2, <2>3 DEF Channel
<1>3. TotalSize(<<d>>) >= ScanSize
  BY Sizes DEF TotalSize, Distance
<1>4. Origins(<<d>>) = <<<<f, p>>>>
  <2>1. Origins(<<d>>) = [i \in 1..1 |-> <<<<d>>[i].frame, <<d>>[i].part>>]
    BY DEF Origins
  <2>2. <<d>>[1].frame = f /\ <<d>>[1].part = p
    BY DatagramKeys
  <2> QED
    BY <2>1, <2>2
<1> QED
  BY <1>1, <1>2, <1>3, <1>4

(* The lengths of one channel of the R2 or the R4. *)
LEMMA LengthsKeepNode ==
  ASSUME TypeOK, Node, PartSent, Network, TypeOK', PartSent',
         NEW d, NEW f, NEW p, ReadsPart(d, f, p), model # "r270",
         model = sensor, mPtrTimer, mbCheckedLidarInputed' = TRUE, mCheckedModel' = model,
         mCheckedChannel' = IF mbCheckedLidarInputed THEN mCheckedChannel ELSE Channel(d),
         mVecTempBuf' = mVecTempBuf,
         parseLength(<<d>>, Channel(d), mCheckedChannel')
  PROVE  Node'
<1>1. /\ sending' = sending /\ disturbed' = disturbed
      /\ model' = model /\ sensor' = sensor /\ mPtrTimer' = mPtrTimer
      /\ d = Distance(model, f, p)
  BY DEF ReadsPart, Reads
<1>2. /\ f \in 1..Frames /\ p \in 1..4 /\ p \in Parts(sensor) /\ Sent(f, p)
      /\ \A g \in 1..Frames, q \in 1..4 :
           HasBeenRead(g, q)' <=> HasBeenRead(g, q) \/ (g \notin disturbed /\ g = f /\ q = p)
      /\ \A g \in 1..Frames, q \in 1..4 :
           HasBeenRead(g, q) => HasBeenRead(g, 1) /\ Before(g, q, f, p)
      /\ \A g \in 1..Frames, q \in 1..4 :
           AllAfter(g, q) \/ (g = f /\ q = p) => AllAfter(g, q)'
  BY ReadsInOrder
<1>3. /\ Channel(d) = p - 1 /\ p - 1 \in Channels(model) /\ p - 1 + 1 = p
      /\ TotalSize(<<d>>) >= ScanSize /\ Origins(<<d>>) = <<<<f, p>>>>
  <2>1. model \in Models /\ p \in Parts(model)
    BY <1>2 DEF TypeOK
  <2> QED
    BY <1>1, <1>2, <2>1, ChannelOfPart, Zenon
<1>4. /\ mVecLenBuf' = [mVecLenBuf EXCEPT ![p - 1] = <<<<f, p>>>>]
      /\ IF p - 1 = mCheckedChannel'
         THEN published' = published \cup {generatePointCloud(mVecLenBuf)'}
         ELSE published' = published
  BY <1>1, <1>3 DEF parseLength, publishPointCloud, generatePointCloud
<1>5. /\ mVecLenBuf'[p - 1] = <<<<f, p>>>>
      /\ \A ch \in Channels(model) : ch # p - 1 => mVecLenBuf'[ch] = mVecLenBuf[ch]
  BY <1>3, <1>4 DEF TypeOK
<1>6. \A ch \in Channels(model) : ch + 1 \in 1..4 /\ (ch # p - 1 <=> ch + 1 # p)
  <2>1. Channels(model) \subseteq 0..3
    BY PartsNumbered DEF TypeOK, Models
  <2> QED
    BY <1>2, <2>1
<1>7. Recognized'
  BY <1>1 DEF Recognized
<1>8. LengthsOf'
  <2> SUFFICES ASSUME NEW ch \in Channels(model), mVecLenBuf'[ch] # <<>>
               PROVE  \E g \in 1..Frames : /\ mVecLenBuf'[ch] = <<<<g, ch + 1>>>>
                                           /\ Sent(g, ch + 1)' /\ AllAfter(g, ch + 1)'
    BY <1>1 DEF LengthsOf
  <2>1. CASE ch = p - 1
    <3>1. Sent(f, p)' /\ AllAfter(f, p)'
      BY <1>1, <1>2 DEF Sent
    <3> QED
      BY <1>2, <1>3, <1>5, <2>1, <3>1
  <2>2. CASE ch # p - 1
    <3>1. PICK g \in 1..Frames :
            mVecLenBuf[ch] = <<<<g, ch + 1>>>> /\ Sent(g, ch + 1) /\ AllAfter(g, ch + 1)
      BY <1>5, <2>2 DEF Node, LengthsOf
    <3>2. Sent(g, ch + 1)' /\ AllAfter(g, ch + 1)'
      BY <1>1, <1>2, <1>6, <3>1 DEF Sent
    <3> QED
      BY <1>5, <2>2, <3>1, <3>2
  <2> QED
    BY <2>1, <2>2
<1>9. LengthsNewest'
  <2> SUFFICES ASSUME NEW ch \in Channels(model), NEW g \in 1..Frames, HasBeenRead(g, ch + 1)'
               PROVE  mVecLenBuf'[ch] # <<>> /\ g <= mVecLenBuf'[ch][1][1]
    BY <1>1 DEF LengthsNewest
  <2>1. CASE ch = p - 1
    <3>1. HasBeenRead(g, p) \/ g = f
      BY <1>2, <1>6, <2>1
    <3>2. g <= f
      BY <1>2, <3>1 DEF Before
    <3>3. mVecLenBuf'[ch] = <<<<f, p>>>>
      BY <1>5, <2>1
    <3> QED
      BY <3>2, <3>3
  <2>2. CASE ch # p - 1
    <3>1. HasBeenRead(g, ch + 1)
      BY <1>2, <1>6, <2>2
    <3> QED
      BY <1>5, <2>2, <3>1 DEF Node, LengthsNewest
  <2> QED
    BY <2>1, <2>2
<1>10. mVecTempBuf' = <<>>
  BY DEF Node, KeptFirst
<1>11. KeptFirst' /\ RestIsAwaited'
  BY <1>1, <1>10 DEF KeptFirst, RestIsAwaited
<1>12. WholePublished'
  <2> SUFFICES ASSUME mCheckedChannel' \in Channels(model), NEW g \in 1..Frames,
                      HasBeenRead(g, LastPart)', g - 1 \notin disturbed
               PROVE  \E cloud \in published' : cloud[mCheckedChannel'] = WholeScan(g)'
    BY <1>1 DEF WholePublished
  <2>0. WholeScan(g)' = <<<<g, mCheckedChannel' + 1>>>>
    BY <1>1 DEF WholeScan
  <2>1. PICK q \in 1..4 : q = mCheckedChannel' + 1
    BY <1>6
  <2>2. HasBeenRead(g, q)'
    BY <1>1, <2>1 DEF LastPart
  <2>3. CASE HasBeenRead(g, q)
    <3>1. mbCheckedLidarInputed
      BY <1>2, <2>3 DEF Node, Recognized
    <3>2. mCheckedChannel' = mCheckedChannel
      BY <3>1
    <3>3. HasBeenRead(g, LastPart) /\ WholeScan(g) = WholeScan(g)'
      BY <2>0, <2>1, <2>3, <3>2 DEF LastPart, WholeScan
    <3>4. \E cloud \in published : cloud[mCheckedChannel] = WholeScan(g)
      BY <3>2, <3>3 DEF Node, WholePublished
    <3> QED
      BY <1>4, <3>2, <3>3, <3>4
  <2>4. CASE ~HasBeenRead(g, q)
    <3>1. g = f /\ q = p
      BY <1>2, <2>2, <2>4
    <3>2. p - 1 = mCheckedChannel'
      BY <1>6, <2>1, <3>1
    <3>3. generatePointCloud(mVecLenBuf)'[p - 1] = <<<<f, p>>>>
      BY <1>1, <1>3, <1>5 DEF generatePointCloud
    <3> QED
      BY <1>4, <2>0, <2>1, <3>1, <3>2, <3>3
  <2> QED
    BY <2>3, <2>4
<1>13. MixedOnlyIfDisturbed'
  <2>1. \A cloud \in published : CloudOK(cloud)'
    BY <1>1, EachCloud, CloudStaysOK DEF Node
  <2>2. CloudOK(generatePointCloud(mVecLenBuf))'
    <3>1. (\E ch \in Channels(model) : mVecLenBuf[ch] # <<>>)'
      BY <1>1, <1>3, <1>5
    <3>2. (TypeOK /\ PartSent /\ LengthsOf /\ LengthsNewest /\ model # "r270" /\ mPtrTimer
             /\ sensor = model /\ (\E ch \in Channels(model) : mVecLenBuf[ch] # <<>>)
           => CloudOK(generatePointCloud(mVecLenBuf)))'
      BY LengthsMakeCloud, PTL
    <3> QED
      BY <1>1, <1>8, <1>9, <3>1, <3>2
  <2>3. \A cloud \in published' : CloudOK(cloud)'
    <3> DEFINE new == generatePointCloud(mVecLenBuf)'
    <3>1. published' \subseteq published \cup {new}
      BY <1>4
    <3>2. ASSUME NEW cloud \in published', cloud = new
          PROVE  CloudOK(cloud)'
      BY <2>2, <3>2
    <3> HIDE DEF new
    <3> QED
      BY <2>1, <3>1, <3>2
  <2>4. (MixedOnlyIfDisturbed <=> \A cloud \in published : CloudOK(cloud))'
    BY EachCloud, PTL
  <2> QED
    BY <2>3, <2>4
<1> QED
  BY <1>7, <1>8, <1>9, <1>11, <1>12, <1>13 DEF Node

(* Whatever the node reads. *)
LEMMA ReceiveKeepsNode ==
  ASSUME TypeOK, TypeOK', Network, Network', Node, receiveData
  PROVE  Node'
<1> DEFINE d == socket[1]
<1>1. /\ GetData /\ Process(Head(socket)) /\ mPtrTimer
      /\ sending' = sending /\ disturbed' = disturbed
      /\ model' = model /\ sensor' = sensor /\ mPtrTimer' = mPtrTimer
  BY DEF receiveData, setup, history
<1>2. /\ Process(d) /\ ReadStep(d) /\ 1 \in DOMAIN socket /\ d \in Datagrams
  BY <1>1, ReceiveStep, Keys, ElementOfSeq DEF TypeOK
<1>3. \/ \E parameter \in {0, 1, 192} : d = Other(parameter)
      \/ \E f \in 1..Frames, p \in Parts(sensor) : d = Distance(sensor, f, p) /\ Sent(f, p)
  BY <1>2 DEF Network, SocketContents
<1>4. Reads(d)
  <2>1. ASSUME NEW f \in 1..Frames, NEW p \in 1..4, HasBeenRead(f, p)
        PROVE  HasBeenRead(f, 1) /\ (d.frame = 0 \/ Before(f, p, d.frame, d.part))
    <3>1. f \notin disturbed /\ AllAfter(f, p)
      BY <2>1 DEF Network, ReadInOrder, HasBeenRead
    <3>2. d.frame = 0 \/ Before(f, p, d.frame, d.part)
      BY <1>2, <3>1 DEF ReadStep, BothDisturbed
    <3> QED
      BY <2>1, <3>2, FirstIsReadFirst
  <2> QED
    BY <1>1, <1>2, <2>1 DEF Reads
<1> HIDE DEF d
<1>5. CASE ~d.header /\ Headerless(d)
  <2>1. PICK f \in 1..Frames, p \in Parts(sensor) : d = Distance(sensor, f, p) /\ Sent(f, p)
    BY <1>3, <1>5 DEF Other
  <2>2. sensor = "r270" /\ p = 2 /\ ReadsPart(d, f, p)
    <3>1. ~(sensor # "r270" \/ p = 1)
      BY <1>5, <2>1 DEF Distance
    <3> QED
      BY <1>4, <2>1, <3>1, PartsNumbered DEF ReadsPart
  <2>3. CASE mbCheckOnGoing
    <3>1. mVecTempBuf # <<>> /\ model = "r270" /\ mbCheckedLidarInputed
      BY <2>3 DEF TypeOK, Node, KeptFirst, Recognized
    <3>2. /\ parseLength(Append(mVecTempBuf, d), 0, mCheckedChannel)
          /\ mVecTempBuf' = <<>> /\ mbCheckedLidarInputed' = TRUE
          /\ mCheckedModel' = mCheckedModel /\ mCheckedChannel' = mCheckedChannel
      BY <1>5, <2>3, <3>1 DEF Headerless, r270
    <3> QED
      BY <2>2, <3>1, <3>2, SecondKeepsNode
  <2>4. CASE ~mbCheckOnGoing
    <3>1. mVecTempBuf = <<>>
      BY <2>4 DEF TypeOK
    <3>2. UNCHANGED <<mbCheckedLidarInputed, mCheckedModel, mCheckedChannel,
                      mVecTempBuf, mVecLenBuf, published>>
      BY <1>5, <2>4 DEF Headerless, Unchanged
    <3> QED
      BY <2>2, <3>1, <3>2, DroppedKeepsNode
  <2> QED
    BY <2>3, <2>4
<1>6. CASE d.header /\ ~mbCheckedLidarInputed /\ classification(d) # model /\ Unchanged
  <2>1. sensor # model
    BY <1>6 DEF classification
  <2> QED
    BY <1>4, <1>6, <2>1, UnrecognizedKeepsNode DEF Unchanged
<1>7. CASE /\ d.header /\ (mbCheckedLidarInputed \/ classification(d) = model)
           /\ mbCheckedLidarInputed' = TRUE
           /\ mCheckedModel' = IF mbCheckedLidarInputed THEN mCheckedModel ELSE classification(d)
           /\ mCheckedChannel' = IF mbCheckedLidarInputed THEN mCheckedChannel ELSE FirstChannel(d)
           /\ IF d.mode = "DISTANCE_DATA"
              THEN Parse(d, mCheckedModel', mCheckedChannel')
              ELSE UNCHANGED <<mbCheckOnGoing, mVecTempBuf, mVecLenBuf, published>>
  <2>1. /\ model = sensor /\ mPtrTimer /\ mCheckedModel' = model /\ mbCheckedLidarInputed' = TRUE
        /\ mCheckedChannel' = IF mbCheckedLidarInputed THEN mCheckedChannel ELSE Channel(d)
    BY <1>1, <1>7 DEF Node, Recognized, classification, FirstChannel
  <2>2. mCheckedChannel' \in 0..15
    BY DEF TypeOK
  <2>3. CASE \E parameter \in {0, 1, 192} : d = Other(parameter)
    <3>1. d.mode = "NAK" /\ d.frame = 0
      BY <2>3 DEF Other
    <3>2. UNCHANGED <<mVecTempBuf, mVecLenBuf, published>>
      BY <1>7, <3>1
    <3> QED
      BY <1>4, <2>1, <2>2, <3>1, <3>2, OtherModeKeepsNode
  <2>4. CASE \E f \in 1..Frames, p \in Parts(sensor) : d = Distance(sensor, f, p) /\ Sent(f, p)
    <3>1. PICK f \in 1..Frames, p \in Parts(sensor) : d = Distance(sensor, f, p) /\ Sent(f, p)
      BY <2>4
    <3>2. ReadsPart(d, f, p) /\ d.mode = "DISTANCE_DATA"
      BY <1>4, <3>1 DEF ReadsPart, Distance
    <3>3. Parse(d, model, mCheckedChannel')
      BY <1>7, <2>1, <3>2
    <3>4. CASE model # "r270"
      <4>1. Channel(d) \in Channels(model)
        <5>1. sensor \in Models /\ sensor # "r270" /\ sensor = model
          BY <2>1, <3>4 DEF TypeOK
        <5>2. Channel(d) = p - 1 /\ p - 1 \in Channels(sensor)
          BY <3>1, <5>1, ChannelOfPart, Zenon
        <5> QED
          BY <5>1, <5>2
      <4>2. parseLength(<<d>>, Channel(d), mCheckedChannel') /\ mVecTempBuf' = mVecTempBuf
        BY <3>3, <3>4, <4>1 DEF Parse, r2, r4
      <4> QED
        BY <2>1, <3>2, <3>4, <4>2, LengthsKeepNode DEF Network
    <3>5. CASE model = "r270" /\ mVecTempBuf = <<>>
      <4>1. mVecTempBuf' = <<d>> /\ UNCHANGED <<mVecLenBuf, published>>
        BY <3>3, <3>5 DEF Parse, r270
      <4>2. p = 1
        BY <1>7, <2>1, <3>1, <3>5 DEF Distance
      <4> QED
        BY <2>1, <3>2, <3>5, <4>1, <4>2, FirstKeepsNode
    <3>6. CASE model = "r270" /\ mVecTempBuf # <<>>
      <4>1. mbCheckedLidarInputed /\ mCheckedModel = model
        BY <3>6 DEF Node, Recognized
      <4>2. mCheckedModel' = mCheckedModel /\ mCheckedChannel' = mCheckedChannel
        BY <1>7, <4>1
      <4>3. mVecTempBuf' = <<>> /\ parseLength(Append(mVecTempBuf, d), 0, mCheckedChannel)
        BY <3>3, <3>6, <4>2 DEF Parse, r270
      <4> QED
        BY <2>1, <3>2, <3>6, <4>2, <4>3, SecondKeepsNode
    <3> QED
      BY <3>4, <3>5, <3>6
  <2> QED
    BY <1>3, <2>3, <2>4
<1> QED
  BY <1>2, <1>5, <1>6, <1>7 DEF Process

-----------------------------------------------------------------------------
(* The inductive invariant. *)
IInv == TypeOK /\ Network /\ Node

(* A frame whose scan the node has missed the beginning of is disturbed. *)
LEMMA InitIInv == Init => IInv
<1> SUFFICES ASSUME Init PROVE IInv
  OBVIOUS
<1>1. TypeOK
  BY InitTypes
<1>2. socket = <<>> /\ DOMAIN socket = {}
  BY DEF Init
<1>3. sending[1] = 1 /\ sending[2] \in Parts(sensor) /\ sending[2] \in Nat
  BY <1>1, Keys DEF Init
<1>4. \A f \in 1..Frames, p \in 1..4 : ~HasBeenRead(f, p)
  <2> SUFFICES ASSUME NEW f \in 1..Frames, NEW p \in 1..4, HasBeenRead(f, p)
               PROVE  FALSE
    OBVIOUS
  <2>1. f = 1 /\ p < sending[2]
    BY <1>3 DEF HasBeenRead, Sent, Before
  <2>2. disturbed = {1}
    BY <1>3, <2>1 DEF Init
  <2> QED
    BY <2>1, <2>2 DEF HasBeenRead
<1>5. Network
  BY <1>2, <1>3, <1>4 DEF Network, PartSent, SocketContents, SocketInOrder, ReadInOrder
<1>6. /\ mbCheckedLidarInputed = FALSE /\ mVecTempBuf = <<>> /\ published = {}
      /\ \A ch \in Channels(model) : mVecLenBuf[ch] = <<>>
  BY DEF Init, Lidar, KanaviNode, KanaviDatagram
<1>7. Recognized /\ LengthsOf /\ KeptFirst /\ RestIsAwaited
  BY <1>4, <1>6 DEF Recognized, LengthsOf, KeptFirst, RestIsAwaited
<1>8. LengthsNewest
  <2>1. \A ch \in Channels(model) : ch + 1 \in 1..4
    BY <1>1, PartsNumbered DEF TypeOK, Models
  <2> QED
    BY <1>4, <2>1 DEF LengthsNewest
<1>9. WholePublished
  <2>1. mCheckedChannel = 0
    BY DEF Init, Lidar
  <2>2. LastPart \in 1..4
    BY <2>1 DEF LastPart
  <2> QED
    BY <1>4, <2>2 DEF WholePublished
<1>10. MixedOnlyIfDisturbed
  BY <1>6 DEF MixedOnlyIfDisturbed
<1> QED
  BY <1>1, <1>5, <1>7, <1>8, <1>9, <1>10 DEF IInv, Node

(* One step per action of the sensor, the network and the node. *)
LEMMA StepIInv == IInv /\ [Next]_vars => IInv'
<1> SUFFICES ASSUME IInv, [Next]_vars PROVE IInv'
  OBVIOUS
<1>1. TypeOK /\ Network /\ Node /\ TypeOK'
  BY StepTypes DEF IInv
<1>2. CASE Send
  BY <1>1, <1>2, SendStep, NetworkKeepsNode DEF IInv, Send
<1>3. CASE Lose
  BY <1>1, <1>3, LoseStep, NetworkKeepsNode DEF IInv, Lose
<1>4. CASE Overtake
  BY <1>1, <1>4, OvertakeStep, NetworkKeepsNode DEF IInv, Overtake
<1>5. CASE SendOther
  BY <1>1, <1>5, SendOtherStep, NetworkKeepsNode DEF IInv, SendOther
<1>6. CASE receiveData
  <2>1. Network'
    BY <1>1, <1>6, ReceiveStep DEF receiveData, setup, history
  <2> QED
    BY <1>1, <1>6, <2>1, ReceiveKeepsNode DEF IInv
<1>7. CASE UNCHANGED vars
  <2>1. /\ UNCHANGED <<model, sensor, mPtrTimer, sending, socket, disturbed>>
        /\ UNCHANGED <<setup, node>>
    BY <1>7 DEF vars, setup, history
  <2>2. Network'
    BY <1>1, <2>1 DEF Network, PartSent, SocketContents, SocketInOrder, ReadInOrder,
                      HasBeenRead, AllAfter, Sent, BothDisturbed
  <2>3. NetworkStep
    BY <2>1 DEF NetworkStep, HasBeenRead, AllAfter, Sent, BothDisturbed
  <2> QED
    BY <1>1, <2>1, <2>2, <2>3, NetworkKeepsNode DEF IInv
<1> QED
  BY <1>2, <1>3, <1>4, <1>5, <1>6, <1>7 DEF Next

(* A scan published for every second of two undisturbed frames follows from *)
(* what the node has read of them.                                          *)
LEMMA ReadIsPublished == IInv => RecoversAfterOne
<1> SUFFICES ASSUME IInv, NEW f \in 1..Frames,
                    mPtrTimer, sensor = model, mCheckedChannel \in Channels(model),
                    {f - 1, f} \cap disturbed = {}, Done(f)
             PROVE  \E cloud \in published : cloud[mCheckedChannel] = WholeScan(f)
  BY DEF RecoversAfterOne
<1>1. TypeOK /\ WholePublished
  BY DEF IInv, Node
<1>2. LastPart \in Parts(sensor)
  BY <1>1, PartsNumbered DEF LastPart, TypeOK, Models
<1>3. \A i \in DOMAIN socket : socket[i].frame # f
  BY DEF Done, ToSet
<1>4. HasBeenRead(f, LastPart)
  BY <1>2, <1>3 DEF HasBeenRead, Done, Sent, Before
<1> QED
  BY <1>1, <1>4 DEF WholePublished

(* However datagrams are lost, overtaken or of other modes, a cloud never   *)
(* mixes scans that arrived undisturbed (KanaviLidar::Process, parseLength).*)
THEOREM NeverMixed == Spec => []MixedOnlyIfDisturbed
<1>1. IInv => MixedOnlyIfDisturbed
  BY DEF IInv, Node
<1> QED
  BY <1>1, InitIInv, StepIInv, PTL DEF Spec

(* After two undisturbed scans the second one is published, whatever        *)
(* happened before (KanaviLidar::r270, parseLength).                        *)
THEOREM Recovers == Spec => []RecoversAfterOne
BY InitIInv, StepIInv, ReadIsPublished, PTL DEF Spec

=============================================================================
