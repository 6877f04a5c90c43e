---------------------------- MODULE KanaviLidar ----------------------------
(***************************************************************************)
(* The driver of the Kanavi lidar (kanavilidar_ros, the ROS 2 node): it    *)
(* puts scans together from UDP datagrams and publishes them as point      *)
(* clouds.  The R2 and the R4 send a datagram per channel, the R270 its    *)
(* one channel in two datagrams, of which only the first has a header.     *)
(* One timer callback reads one datagram and does all of its work, so it   *)
(* is one step; the flag mbCheckParseEnd is set and reset within it.       *)
(*                                                                         *)
(* There is one sensor.  Datagrams are at least as long as a header, and   *)
(* the second one of the R270, lengths in metres and hundredths, does not  *)
(* begin with the header's 0xFA.  The lengths themselves are abstracted to *)
(* the datagrams they came in.                                             *)
(***************************************************************************)
EXTENDS Naturals, Sequences, FiniteSets, SequencesExt

CONSTANTS
  Frames,       \* bound: scans the sensor makes
  MaxInSocket,  \* bound: datagrams waiting in the socket
  MaxLost,      \* bound: datagrams lost on the way
  MaxOvertakes, \* bound: datagrams that overtake another
  MaxOther,     \* bound: datagrams of other modes than distance data
  HeadSize,     \* size of the R270's first datagram,
  ScanSize      \* and of all that parseLength wants, header included

ASSUME KanaviAssumption ==
  /\ Frames # 0
  /\ {Frames, MaxInSocket, MaxLost, MaxOvertakes, MaxOther, HeadSize, ScanSize} \subseteq Nat
  /\ HeadSize < ScanSize

VARIABLES
  model,           \* what the node is started for
  sensor,          \* what is connected
  mPtrTimer,       \* the constructor has come as far as the timer
  sending,         \* frame and part the sensor sends next
  socket,          \* datagrams received by the system and not yet read
  mbCheckedLidarInputed,
  mCheckedModel,   \* "none" is -1
  mCheckedChannel, \* the channel whose data complete a scan
  mbCheckOnGoing,
  mVecTempBuf,     \* the R270's first datagram, or <<>>
  mVecLenBuf,      \* for each channel the datagrams its lengths are from
  published,       \* history: the point clouds published
  disturbed,       \* history: frames with a datagram lost or overtaken
  lost, overtakes, other \* counts for the bounds

node    == <<mbCheckedLidarInputed, mCheckedModel, mCheckedChannel, mbCheckOnGoing,
             mVecTempBuf, mVecLenBuf, published>>
setup   == <<model, sensor, mPtrTimer>>
history == <<disturbed, lost, overtakes, other>>
vars    == <<setup, sending, socket, node, history>>

Models == {"r2", "r4", "r270"}

(* VERTICAL_CHANNEL: FOV by resolution. *)
Channels(m) == IF m = "r2" THEN 0..1 ELSE IF m = "r4" THEN 0..3 ELSE {0}

(* Datagrams of a scan. *)
Parts(m) == IF m = "r270" THEN 1..2 ELSE 1..Cardinality(Channels(m))

(* The bytes of a datagram that are looked at.  PARAMETER holds CHANNEL_0   *)
(* (0xC0) and the following; frame and part name the lengths in it.         *)
Distance(m, frame, part) ==
  [header    |-> m # "r270" \/ part = 1,
   mode      |-> "DISTANCE_DATA",
   parameter |-> IF m = "r270" THEN 192 ELSE 191 + part,
   size      |-> IF m # "r270" THEN ScanSize
                 ELSE IF part = 1 THEN HeadSize ELSE ScanSize - HeadSize,
   frame     |-> frame, part |-> part]

(* A NAK or an answer to somebody who configures the sensor. *)
Other(parameter) ==
  [header |-> TRUE, mode |-> "NAK", parameter |-> parameter, size |-> 1, frame |-> 0, part |-> 0]

Datagrams == [header : BOOLEAN, mode : {"DISTANCE_DATA", "NAK"}, parameter : 0..255,
              size : 0..ScanSize, frame : 0..Frames, part : 0..4]

(* The buffer of a datagram object: no lengths yet, which reads as zeros. *)
KanaviDatagram(m) == [ch \in Channels(m) |-> <<>>]

(* The constructor returns early, without the timer, when bind fails; then  *)
(* the node spins and does nothing.                                         *)
KanaviNode ==
  /\ model \in Models
  /\ mPtrTimer \in BOOLEAN
  /\ published = {}

Lidar ==
  /\ mbCheckedLidarInputed = FALSE
  /\ mCheckedModel = "none" /\ mCheckedChannel = 0
  /\ mbCheckOnGoing = FALSE /\ mVecTempBuf = <<>>
  /\ mVecLenBuf = KanaviDatagram(model)

(* The node may start while a scan is being sent: what was sent before is   *)
(* lost to it.                                                              *)
Init ==
  /\ KanaviNode /\ Lidar
  /\ sensor \in Models
  /\ sending \in {1} \X Parts(sensor)
  /\ disturbed = IF sending[2] = 1 THEN {} ELSE {1}
  /\ socket = <<>>
  /\ lost = 0 /\ overtakes = 0 /\ other = 0

-----------------------------------------------------------------------------
(*                         The sensor and the network                      *)

Advance ==
  sending' = IF sending[2] + 1 \in Parts(sensor)
             THEN <<sending[1], sending[2] + 1>> ELSE <<sending[1] + 1, 1>>

Send ==
  /\ sending[1] <= Frames
  /\ Len(socket) < MaxInSocket
  /\ socket' = Append(socket, Distance(sensor, sending[1], sending[2]))
  /\ Advance
  /\ UNCHANGED <<setup, node, history>>

(* On the wire, or because the socket is full. *)
Lose ==
  /\ sending[1] <= Frames
  /\ lost < MaxLost
  /\ lost' = lost + 1
  /\ disturbed' = disturbed \cup {sending[1]}
  /\ Advance
  /\ UNCHANGED <<setup, socket, node, overtakes, other>>

Overtake ==
  /\ overtakes < MaxOvertakes
  /\ overtakes' = overtakes + 1
  /\ \E i \in 1..(Len(socket) - 1) :
       /\ socket' = [socket EXCEPT ![i] = socket[i + 1], ![i + 1] = socket[i]]
       /\ disturbed' = disturbed \cup ({socket[i].frame, socket[i + 1].frame} \ {0})
  /\ UNCHANGED <<setup, sending, node, lost, other>>

SendOther ==
  /\ other < MaxOther
  /\ other' = other + 1
  /\ Len(socket) < MaxInSocket
  /\ \E parameter \in {0, 1, 192} : socket' = Append(socket, Other(parameter))
  /\ UNCHANGED <<setup, sending, node, disturbed, lost, overtakes>>

-----------------------------------------------------------------------------
(*                         Putting scans together                          *)

(* Only the low bits of PARAMETER are the channel. *)
Channel(d) == d.parameter % 16

(* All channels go into the cloud, whenever their lengths were received. *)
generatePointCloud(lengths) == [ch \in Channels(model) |-> lengths[ch]]

publishPointCloud(lengths) == published' = published \cup {generatePointCloud(lengths)}

(* Lengths come in one datagram or in two. *)
TotalSize(pieces) ==
  IF Len(pieces) = 1 THEN pieces[1].size ELSE pieces[1].size + pieces[2].size

Origins(pieces) == [i \in DOMAIN pieces |-> <<pieces[i].frame, pieces[i].part>>]

(* Too little data, or a channel the model does not have, changes nothing;  *)
(* the channel that completes a scan has it published.                      *)
parseLength(pieces, ch, checked) ==
  IF TotalSize(pieces) >= ScanSize /\ ch \in Channels(model)
  THEN /\ mVecLenBuf' = [mVecLenBuf EXCEPT ![ch] = Origins(pieces)]
       /\ IF ch = checked THEN publishPointCloud(mVecLenBuf') ELSE UNCHANGED published
  ELSE UNCHANGED <<mVecLenBuf, published>>

r2(d, checked) ==
  /\ parseLength(<<d>>, Channel(d), checked)
  /\ UNCHANGED <<mbCheckOnGoing, mVecTempBuf>>

r4(d, checked) ==
  /\ IF Channel(d) \in Channels("r4")
     THEN parseLength(<<d>>, Channel(d), checked)
     ELSE UNCHANGED <<mVecLenBuf, published>>
  /\ UNCHANGED <<mbCheckOnGoing, mVecTempBuf>>

(* Fault: the first datagram is not cleared when its scan is done. *)
Faulty_r270(d, checked) ==
  IF mVecTempBuf = <<>>
  THEN /\ mVecTempBuf' = <<d>> /\ mbCheckOnGoing' = TRUE
       /\ UNCHANGED <<mVecLenBuf, published>>
  ELSE /\ parseLength(Append(mVecTempBuf, d), 0, checked)
       /\ mbCheckOnGoing' = FALSE
       /\ UNCHANGED mVecTempBuf

(* The first datagram is kept; whatever comes next is taken for its rest.   *)
r270(d, checked) ==
  IF mVecTempBuf = <<>>
  THEN /\ mVecTempBuf' = <<d>> /\ mbCheckOnGoing' = TRUE
       /\ UNCHANGED <<mVecLenBuf, published>>
  ELSE /\ parseLength(Append(mVecTempBuf, d), 0, checked)
       /\ mVecTempBuf' = <<>> /\ mbCheckOnGoing' = FALSE

Parse(d, m, checked) ==
  \/ m = "r2" /\ r2(d, checked)
  \/ m = "r4" /\ r4(d, checked)
  \/ m = "r270" /\ r270(d, checked)

(* The product line byte, which only the sensor's own headers have. *)
classification(d) == IF d.header THEN sensor ELSE "none"

(* Fault: the whole byte is taken for the channel. *)
Faulty_FirstChannel(d) == d.parameter

(* The first datagram of the right model, whatever its mode, decides which  *)
(* channel completes a scan.                                                *)
FirstChannel(d) == Channel(d)

Unchanged == UNCHANGED <<mbCheckedLidarInputed, mCheckedChannel, mbCheckOnGoing,
                         mVecTempBuf, mVecLenBuf, published>>

(* Fault: what has no header is dropped, the rest of a scan with it. *)
Faulty_Headerless(d) == Unchanged /\ UNCHANGED mCheckedModel

(* Without a header it can only be the rest of an R270 scan. *)
Headerless(d) ==
  IF mbCheckOnGoing
  THEN /\ r270(d, mCheckedChannel)
       /\ UNCHANGED <<mbCheckedLidarInputed, mCheckedModel, mCheckedChannel>>
  ELSE Unchanged /\ UNCHANGED mCheckedModel

Process(d) ==
  \/ ~d.header /\ Headerless(d)
  \/ /\ d.header /\ ~mbCheckedLidarInputed /\ classification(d) # model
     /\ mCheckedModel' = classification(d)
     /\ Unchanged
  \/ /\ d.header /\ (mbCheckedLidarInputed \/ classification(d) = model)
     /\ mbCheckedLidarInputed' = TRUE
     /\ mCheckedModel' = IF mbCheckedLidarInputed THEN mCheckedModel ELSE classification(d)
     /\ mCheckedChannel' = IF mbCheckedLidarInputed THEN mCheckedChannel ELSE FirstChannel(d)
     /\ IF d.mode = "DISTANCE_DATA"
        THEN Parse(d, mCheckedModel', mCheckedChannel')
        ELSE UNCHANGED <<mbCheckOnGoing, mVecTempBuf, mVecLenBuf, published>>

(* recvfrom, which gives up after a second. *)
GetData == socket # <<>> /\ socket' = Tail(socket)

receiveData ==
  /\ mPtrTimer
  /\ GetData
  /\ Process(Head(socket))
  /\ UNCHANGED <<setup, sending, history>>

Next == Send \/ Lose \/ Overtake \/ SendOther \/ receiveData

Spec == Init /\ [][Next]_vars

-----------------------------------------------------------------------------
OriginsOf(lengths) == UNION {ToSet(lengths[ch]) : ch \in DOMAIN lengths}

(* Types; the kept datagram and the flag that says there is one agree, or a *)
(* scan's rest would be dropped, and the channel has four bits.             *)
TypeOK ==
  /\ model \in Models /\ sensor \in Models /\ mPtrTimer \in BOOLEAN
  /\ sending \in (1..(Frames + 1)) \X (1..4)
  /\ socket \in Seq(Datagrams)
  /\ mbCheckedLidarInputed \in BOOLEAN
  /\ mCheckedModel \in Models \cup {"none"}
  /\ mCheckedChannel \in 0..15
  /\ mVecTempBuf \in Seq(Datagrams) /\ Len(mVecTempBuf) <= 1
  /\ mbCheckOnGoing = (mVecTempBuf # <<>>)
  /\ DOMAIN mVecLenBuf = Channels(model)
  /\ disturbed \subseteq 1..Frames

(* A frame's own scan: for the R270 both parts, in order. *)
WholeScan(frame) ==
  IF model = "r270" THEN <<<<frame, 1>>, <<frame, 2>>>>
  ELSE <<<<frame, mCheckedChannel + 1>>>>

(* A published cloud never mixes scans that have arrived undisturbed.  The  *)
(* R270's two parts are of one frame; the channels of the R2 and the R4 are *)
(* of the newest frame or, not yet received again, of the one before it.    *)
(* For that a frame in it, or the one before, must have been disturbed, or  *)
(* the sensor only just been started.                                       *)
MixedOnlyIfDisturbed ==
  \A cloud \in published :
    LET frames == {o[1] : o \in OriginsOf(cloud)}
        newest == CHOOSE f \in frames : \A g \in frames : g <= f
    IN  \/ frames \cap disturbed # {}
        \/ model = "r270" /\ cloud[0] = WholeScan(newest)
        \/ /\ model # "r270"
           /\ \/ newest = 1 \/ newest - 1 \in disturbed
              \/ \A ch \in Channels(model) :
                   cloud[ch] \in {<<<<f, ch + 1>>>> : f \in {newest - 1, newest}}

(* All datagrams of the frame have been sent and read. *)
Done(frame) == sending[1] > frame /\ \A d \in ToSet(socket) : d.frame \notin 1..frame

(* However datagrams were lost or overtaken before, a scan that arrives     *)
(* undisturbed after another undisturbed one is published: a rest that is   *)
(* missing costs the scan after it too, and no more.  This takes a first    *)
(* datagram whose channel bits name a channel of the model.                 *)
RecoversAfterOne ==
  \A frame \in 1..Frames :
    /\ mPtrTimer /\ sensor = model
    /\ mCheckedChannel \in Channels(model)
    /\ {frame - 1, frame} \cap disturbed = {}
    /\ Done(frame)
    => \E cloud \in published : cloud[mCheckedChannel] = WholeScan(frame)
=============================================================================
