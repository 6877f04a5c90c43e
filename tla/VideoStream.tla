---------------------------- MODULE VideoStream ----------------------------
(***************************************************************************)
(* One connection of the camera streams' web server: the request, the      *)
(* reply, and the frames that are sent until the client is gone            *)
(* (async_web_server_cpp: http_connection.cpp, http_reply.cpp;             *)
(* web_video_server: web_video_server.cpp, multipart_stream.cpp and the    *)
(* streamers).                                                             *)
(*                                                                         *)
(* Two kinds of threads share the connection.  The server's threads read   *)
(* the request, run its handler and complete writes.  The callbacks of the *)
(* node (images, and the timers that send a frame again and that remove    *)
(* inactive streamers) exclude one another.  A write to the connection is  *)
(* one step, under write_mutex_; a handler or callback makes several, and  *)
(* `io' and `ros' are what each has still to do.                           *)
(***************************************************************************)
EXTENDS HttpRequest

CONSTANTS
  Requests,       \* what clients send: sequences over Alphabet
  Topics,         \* the values of the parameter topic that are published
  Chunks,         \* lengths of what is read at once
  Threads,        \* server_threads, 1 by default
  max_queue_size, \* 1 in the code
  publish_rate,   \* how often a frame is sent again; not at all when 0 or less
  MaxExpired,     \* bound: frames that stay unsent for more than half a second
  MaxPending      \* bound: pending writes when a snapshot is sent once more

ASSUME StreamAssumption ==
  /\ Requests \subseteq Seq(Alphabet)
  /\ Chunks \subseteq Nat \ {0}
  /\ Threads \in Nat \ {0}
  /\ max_queue_size \in Nat /\ MaxExpired \in Nat /\ MaxPending \in Nat
  /\ publish_rate \in Int

VARIABLES
  client,        \* reading, stalled (does not read), or gone
  text,          \* what the client sends
  arrived,       \* how much of it has been read
  parser,
  io,            \* what the handler has still to do
  ros,           \* what the callback that runs has still to do
  restreaming,   \* the callback is the restream timer's, and has streamers_mutex_
  kind,          \* of the streamer
  streamer,      \* none, made, listed (in streamers_) or erased
  inactive,      \* inactive_
  subscribed,    \* images are delivered
  image_sub,     \* image_sub_ is set
  footers,       \* how many entries pending_footers_ has
  old,           \* how many of them, the first ones, are from over half a second ago
  frame,         \* the topic's last image
  has_frame,     \* there is one that can be sent (last_msg_), initialized_
  write_in_progress,
  last_error,    \* last_error_ is set
  writing,       \* the buffers of the write in progress
  pending,       \* pending_write_buffers_
  received,      \* the last thing the client has got
  expired        \* history: footers given up after half a second

request == <<text, arrived, parser>>
callback == <<ros, restreaming>>
stream == <<kind, streamer, inactive, subscribed, image_sub, footers,
            old, frame, has_frame>>
line == <<write_in_progress, last_error, writing, pending>>
vars == <<client, request, io, callback, stream, line, received, expired>>

Writes == {"status", "headers", "boundary", "content", "part", "payload", "footer",
           "preamble", "chunk", "error"}

Item(what, number) == [what |-> what, frame |-> number]
Plain(what) == Item(what, 0)

Reply(content) == <<Plain("status"), Plain("headers"), Plain(content)>>

(* Kinds of streamers.  Those of raw images get them from image_transport;  *)
(* "video" is vp8, vp9 and h264.                                            *)
Multipart == {"mjpeg", "png", "ros_compressed"}
Streams   == Multipart \cup {"video"}
Snapshots == {"jpeg", "png_snapshot", "ros_snapshot"}
Raw       == (Streams \cup Snapshots) \ {"ros_compressed", "ros_snapshot"}

Init ==
  /\ client = "reading"
  /\ text \in Requests /\ arrived = 0 /\ parser = Parser
  /\ io = <<>> /\ ros = <<>> /\ restreaming = FALSE
  /\ kind = "none" /\ streamer = "none"
  /\ inactive = FALSE /\ subscribed = FALSE /\ image_sub = FALSE
  /\ footers = 0 /\ old = 0 /\ frame = 0 /\ has_frame = FALSE
  /\ write_in_progress = FALSE /\ last_error = FALSE
  /\ writing = <<>> /\ pending = <<>>
  /\ received = Plain("nothing")
  /\ expired = 0

-----------------------------------------------------------------------------
(*                               The connection                             *)

(* Starts a write of all that is pending, or throws.  What is pending then  *)
(* is never written, so the model does not add to it.                       *)
write_pending(buffers) ==
  IF last_error
  THEN UNCHANGED <<write_in_progress, writing, pending>>
  ELSE write_in_progress' = TRUE /\ writing' = buffers /\ pending' = <<>>

(* Fault: a write is started whether or not one is in progress. *)
Faulty_write(item) == write_pending(Append(pending, item)) /\ UNCHANGED last_error

write(item) ==
  /\ IF write_in_progress
     THEN pending' = Append(pending, item) /\ UNCHANGED <<write_in_progress, writing>>
     ELSE write_pending(Append(pending, item))
  /\ UNCHANGED last_error

Throws == last_error /\ ~write_in_progress

(* A server thread that is free; with one of them, none is while a handler  *)
(* runs.                                                                    *)
ThreadFree == io = <<>> \/ Threads > 1

(* Fault: what has been queued waits for the next write. *)
Faulty_Written ==
  /\ write_in_progress /\ ThreadFree
  /\ client # "stalled"
  /\ received' = writing[Len(writing)]
  /\ write_in_progress' = FALSE /\ writing' = <<>>
  /\ UNCHANGED <<pending, last_error>>
  /\ UNCHANGED <<client, request, io, callback, stream, expired>>

(* The write has completed: what has been queued meanwhile is written next. *)
(* What is written to a client that has just gone may still succeed.        *)
Written ==
  /\ write_in_progress /\ ThreadFree
  /\ client # "stalled"
  /\ received' = writing[Len(writing)]
  /\ IF pending # <<>> THEN write_pending(pending)
     ELSE write_in_progress' = FALSE /\ writing' = <<>> /\ UNCHANGED pending
  /\ UNCHANGED last_error
  /\ UNCHANGED <<client, request, io, callback, stream, expired>>

(* Fault: the error is not kept. *)
Faulty_WriteFailed ==
  /\ write_in_progress /\ ThreadFree
  /\ client = "gone"
  /\ write_in_progress' = FALSE /\ writing' = <<>>
  /\ UNCHANGED <<pending, last_error>>
  /\ UNCHANGED <<client, request, io, callback, stream, received, expired>>

(* What was queued stays. *)
WriteFailed ==
  /\ write_in_progress /\ ThreadFree
  /\ client = "gone"
  /\ write_in_progress' = FALSE /\ writing' = <<>>
  /\ last_error' = TRUE
  /\ UNCHANGED pending
  /\ UNCHANGED <<client, request, io, callback, stream, received, expired>>

handle_write == Written \/ WriteFailed

-----------------------------------------------------------------------------
(*                               The request                                *)

Known(uri) == get_query_param_value_or_default(uri, "topic", <<>>) \in Topics

(* The streamers that a request may get.  When the topic has no compressed  *)
(* images, others are taken.                                                *)
streamer_factories(type, known) ==
  {k \in Streams :
     \/ k = "mjpeg" /\ type \in {<<"mjpeg">>, <<"ros_compressed">>}
     \/ k = "png" /\ type = <<"png">>
     \/ k = "video" /\ type \in {<<"vp8">>, <<"vp9">>, <<"h264">>}
     \/ k = "ros_compressed" /\ type = <<"ros_compressed">> /\ known}

snapshot_streamer_factories(type, known) ==
  {k \in Snapshots :
     \/ k = "jpeg" /\ type \in {<<"jpeg">>, <<"ros_compressed">>}
     \/ k = "png_snapshot" /\ type = <<"png">>
     \/ k = "ros_snapshot" /\ type = <<"ros_compressed">> /\ known}

Begin(making, steps) == kind' = making /\ io' = steps

stock_reply == Begin("none", Reply("content"))

(* The reply to a bad request, which nothing guards.                        *)
refuse == Begin("refused", Reply("content"))

(* What a handler does with the streamer it has made. *)
Starting(known) ==
  <<Plain(IF known THEN "subscribe" ELSE "subscribe_unknown"), Plain("keep"), Plain("list")>>

(* The multipart streamers begin their answer when they are made. *)
handle_stream(uri) ==
  LET known == Known(uri)
      made  == streamer_factories(get_query_param_value_or_default(uri, "type", <<"mjpeg">>),
                                  known)
  IN  IF made = {} THEN stock_reply
      ELSE \E streamer_kind \in made :
             Begin(streamer_kind,
                   (IF streamer_kind \in Multipart THEN Reply("boundary") ELSE <<>>)
                     \o Starting(known))

handle_snapshot(uri) ==
  LET known == Known(uri)
      made  == snapshot_streamer_factories(
                 get_query_param_value_or_default(uri, "type", <<"jpeg">>), known)
  IN  IF made = {} THEN stock_reply
      ELSE \E streamer_kind \in made : Begin(streamer_kind, Starting(known))

(* A page that shows the stream. *)
handle_stream_viewer == Begin("none", Reply("content"))

(* The list is written in many pieces: two here. *)
handle_list_streams == Begin("none", Reply("content") \o <<Plain("content")>>)

PathMatcher(uri, path) == Path(uri) = path

(* The handlers that are registered, and what answers the other paths. *)
handler_group(uri) ==
  \/ PathMatcher(uri, <<"/">>) /\ handle_list_streams
  \/ PathMatcher(uri, <<"/", "stream">>) /\ handle_stream(uri)
  \/ PathMatcher(uri, <<"/", "stream_viewer">>) /\ handle_stream_viewer
  \/ PathMatcher(uri, <<"/", "snapshot">>) /\ handle_snapshot(uri)
  \/ /\ ~\E path \in {<<"/">>} \cup {<<"/", page>> : page \in {"stream", "stream_viewer", "snapshot"}} :
           PathMatcher(uri, path)
     /\ stock_reply

(* A chunk of the request; on a verdict, what answers it.  Bad requests are *)
(* answered from a stock of replies, and so are paths and types that        *)
(* nothing handles.                                                         *)
handle_read(size) ==
  /\ parser.state \notin Verdicts /\ arrived < Len(text) /\ ~last_error
  /\ LET chunk == SubSeq(text, arrived + 1,
                         IF arrived + size < Len(text) THEN arrived + size ELSE Len(text))
     IN  /\ arrived' = arrived + Len(chunk)
         /\ parser' = parse(parser, chunk)
         /\ \/ parser'.state = "good" /\ handler_group(parser'.request.uri)
            \/ parser'.state = "bad" /\ refuse
            \/ parser'.state \notin Verdicts /\ UNCHANGED <<kind, io>>
  /\ UNCHANGED <<client, text, callback, streamer, inactive, subscribed, image_sub,
                 footers, old, frame, has_frame, line, received, expired>>

(* The client is gone before its request is complete. *)
handle_read_raw ==
  /\ parser.state \notin Verdicts /\ text # <<>>
  /\ client = "gone" /\ ~last_error
  /\ last_error' = TRUE
  /\ UNCHANGED <<client, request, io, callback, stream, write_in_progress, writing,
                 pending, received, expired>>

(* The model forgets the request once its handler has begun. *)
HandlerDoes(what) ==
  /\ io # <<>> /\ Head(io).what \in what
  /\ text' = <<>> /\ arrived' = 0 /\ parser' = Parser
  /\ UNCHANGED <<client, callback, footers, old, frame, has_frame, received, expired>>

(* The exception of a write of the reply to a bad request. *)
Unhandled == io # <<>> /\ Head(io).what \in Writes /\ kind = "refused" /\ Throws

(* Any other write that throws ends the handler, and the streamer is not    *)
(* made.                                                                    *)
HandlerWrites ==
  /\ HandlerDoes(Writes) /\ ~Unhandled
  /\ write(Head(io))
  /\ io' = IF Throws THEN <<>> ELSE Tail(io)
  /\ kind' = IF Throws THEN "none" ELSE kind
  /\ UNCHANGED <<streamer, inactive, subscribed, image_sub>>

(* Images may come from now on. *)
start ==
  /\ HandlerDoes({"subscribe", "subscribe_unknown"})
  /\ streamer' = "made" /\ subscribed' = TRUE
  /\ inactive' = (Head(io).what = "subscribe_unknown")
  /\ io' = Tail(io)
  /\ UNCHANGED <<kind, image_sub, line>>

(* A topic whose name is not a legal one: create_subscription throws.       *)
StartFails ==
  /\ HandlerDoes({"subscribe_unknown"})
  /\ io' = <<>>
  /\ UNCHANGED <<kind, streamer, inactive, subscribed, image_sub, line>>

(* create_subscription has returned: image_sub_ is set. *)
StartReturns ==
  /\ HandlerDoes({"keep"})
  /\ image_sub' = TRUE
  /\ io' = Tail(io)
  /\ UNCHANGED <<kind, streamer, inactive, subscribed, line>>

ListStreamer ==
  /\ HandlerDoes({"list"}) /\ ~restreaming
  /\ streamer' = "listed"
  /\ io' = Tail(io)
  /\ UNCHANGED <<kind, inactive, subscribed, image_sub, line>>

HandlerStep == HandlerWrites \/ start \/ StartFails \/ StartReturns \/ ListStreamer

-----------------------------------------------------------------------------
(*                               The frames                                 *)

IsFooter(item) == item.what = "footer"

Footers(buffers) == Cardinality({i \in DOMAIN buffers : IsFooter(buffers[i])})

(* The footers whose contents have not expired: those not yet written. *)
Alive == Footers(writing) + Footers(pending)

Smaller(a, b) == IF a < b THEN a ELSE b

(* Of the footers waited for: those that are still to be written, those of  *)
(* them that are old, and the others.                                       *)
Unwritten == Smaller(footers, Alive)
Overdue   == LET written == footers - Unwritten
             IN  IF old > written THEN old - written ELSE 0
Waiting   == Unwritten - Overdue

(* Fault: one more frame than the queue has room for. *)
Faulty_is_busy == max_queue_size # 0 /\ Waiting > max_queue_size

is_busy == max_queue_size # 0 /\ Waiting >= max_queue_size

Part(number) == <<Item("part", number), Item("payload", number), Item("footer", number)>>

(* Fault: the footers that are no longer waited for are still counted as old. *)
Faulty_send_part(number) ==
  /\ footers' = Waiting /\ UNCHANGED old
  /\ expired' = IF last_error THEN expired ELSE expired + Overdue
  /\ ros' = IF is_busy THEN <<>> ELSE Part(number)

(* The writes for an image, unless the stream is busy. *)
send_part(number) ==
  /\ footers' = Waiting /\ old' = 0
  /\ expired' = IF last_error THEN expired ELSE expired + Overdue
  /\ ros' = IF is_busy THEN <<>> ELSE Part(number)

(* An encoder's output: no limit to what is pending.                        *)
send_chunk(number) ==
  /\ ros' = <<Item("chunk", number)>>
  /\ UNCHANGED <<footers, old, expired>>

(* The first image of a video stream: the head of the answer, or an error   *)
(* reply and an exception.  When it is avformat_write_header that fails,    *)
(* the error reply comes after the status and the headers of the answer.    *)
initialize(number) ==
  /\ \/ ros' = Reply("preamble") \o <<Item("chunk", number)>>
     \/ ros' = Reply("error") \o <<Plain("throw")>>
     \/ ros' = <<Plain("status"), Plain("headers")>> \o Reply("error") \o <<Plain("throw")>>
  /\ UNCHANGED <<footers, old, expired>>

send_snapshot(number) ==
  /\ ros' = <<Plain("status"), Plain("headers"), Item("payload", number), Plain("finish")>>
  /\ UNCHANGED <<footers, old, expired>>

send_image(number) ==
  \/ kind \in Multipart /\ send_part(number)
  \/ kind = "video" /\ IF has_frame THEN send_chunk(number) ELSE initialize(number)
  \/ kind \in Snapshots /\ send_snapshot(number)

(* The next image of the topic.  Only the streamers of raw images look at   *)
(* inactive_ first.                                                         *)
image_callback ==
  /\ ros = <<>> /\ subscribed
  /\ kind \in {"ros_snapshot", "video"} => Len(pending) <= MaxPending \/ last_error
  /\ frame' = 1 - frame
  /\ IF inactive /\ kind \in Raw
     THEN UNCHANGED <<has_frame, ros, footers, old, expired>>
     ELSE has_frame' = TRUE /\ send_image(frame')
  /\ UNCHANGED <<client, request, io, restreaming, kind, streamer, inactive, subscribed,
                 image_sub, line, received>>

(* An image that cannot be decoded or encoded, or whose format is not       *)
(* known: a compressed one is kept all the same, and not sent.              *)
BadImage ==
  /\ ros = <<>> /\ subscribed
  /\ inactive' = (inactive \/ kind \in Raw)
  /\ has_frame' = (has_frame /\ kind # "ros_compressed")
  /\ UNCHANGED <<client, request, io, callback, kind, streamer, subscribed, image_sub,
                 footers, old, frame, line, received, expired>>

restream_frame ==
  /\ publish_rate > 0 /\ ros = <<>>
  /\ streamer = "listed" /\ kind \in Streams
  /\ ~inactive /\ has_frame
  /\ kind = "video" => Len(pending) <= MaxPending \/ last_error
  /\ send_image(frame)
  /\ restreaming' = (ros' # <<>>)
  /\ UNCHANGED <<client, request, io, kind, streamer, inactive, subscribed, image_sub,
                 frame, has_frame, line, received>>

(* The end of a snapshot.  image_sub_.reset() ends the subscription only if *)
(* the handler has kept it by then.                                         *)
Finish ==
  /\ inactive' = TRUE
  /\ IF kind = "ros_snapshot"
     THEN image_sub' = FALSE /\ subscribed' = (subscribed /\ ~image_sub)
     ELSE UNCHANGED <<image_sub, subscribed>>
  /\ ros' = Tail(ros)
  /\ UNCHANGED <<footers, line>>

(* A write that throws ends the callback and makes the streamer inactive. *)
CallbackWrites ==
  /\ write(Head(ros))
  /\ ros' = IF Throws THEN <<>> ELSE Tail(ros)
  /\ inactive' = (inactive \/ Throws)
  /\ footers' = IF IsFooter(Head(ros)) /\ ~Throws /\ max_queue_size > 0
                THEN footers + 1 ELSE footers
  /\ UNCHANGED <<image_sub, subscribed>>

(* An exception that initialize lets out, image_callback does not catch: it *)
(* is not one of OpenCV's.                                                  *)
Uncaught ==
  /\ ros # <<>> /\ kind = "video"
  /\ \/ Head(ros).what = "throw"
     \/ Head(ros).what \in {"status", "headers", "preamble", "error"} /\ Throws

CallbackStep ==
  /\ ros # <<>> /\ ~Uncaught
  /\ IF Head(ros).what = "finish" THEN Finish ELSE CallbackWrites
  /\ restreaming' = (restreaming /\ ros' # <<>>)
  /\ UNCHANGED <<client, request, io, kind, streamer, old, frame, has_frame, received,
                 expired>>

(* The process ends, and with it every connection.                          *)
Terminate ==
  /\ Uncaught \/ Unhandled
  /\ client' = "gone" /\ streamer' = "erased" /\ subscribed' = FALSE
  /\ io' = <<>> /\ ros' = <<>>
  /\ text' = <<>> /\ arrived' = 0 /\ parser' = Parser
  /\ write_in_progress' = FALSE /\ last_error' = TRUE /\ writing' = <<>>
  /\ UNCHANGED <<restreaming, kind, inactive, image_sub, footers, old, frame,
                 has_frame, pending, received, expired>>

HalfSecond ==
  /\ old < footers
  /\ last_error \/ expired + footers <= MaxExpired
  /\ old' = footers
  /\ UNCHANGED <<client, request, io, callback, kind, streamer, inactive, subscribed,
                 image_sub, footers, frame, has_frame, line, received, expired>>

(* With the streamer goes its subscription. *)
cleanup_inactive_streams ==
  /\ ros = <<>>
  /\ streamer = "listed" /\ inactive
  /\ streamer' = "erased" /\ subscribed' = FALSE /\ image_sub' = FALSE
  /\ UNCHANGED <<client, request, io, callback, kind, inactive, footers, old, frame,
                 has_frame, line, received, expired>>

-----------------------------------------------------------------------------

(* The client may stop reading what it gets for a while, and leave at any   *)
(* time.                                                                    *)
ClientStalls ==
  /\ client \in {"reading", "stalled"} /\ text = <<>>
  /\ client' = IF client = "reading" THEN "stalled" ELSE "reading"
  /\ UNCHANGED <<request, io, callback, stream, line, received, expired>>

ClientLeaves ==
  /\ client # "gone" /\ client' = "gone"
  /\ UNCHANGED <<request, io, callback, stream, line, received, expired>>

Read == \E size \in Chunks : handle_read(size)

Next ==
  \/ Read \/ handle_read_raw \/ HandlerStep
  \/ handle_write
  \/ image_callback \/ BadImage \/ restream_frame \/ CallbackStep \/ Terminate
  \/ HalfSecond \/ cleanup_inactive_streams
  \/ ClientStalls \/ ClientLeaves

(* The io_context's threads run what is ready; the executor of the node     *)
(* runs its timers among the images.  A write to a client that is gone      *)
(* cannot succeed for ever.  No client has to send all of its request.      *)
Fairness ==
  /\ WF_vars(HandlerStep) /\ WF_vars(Written) /\ SF_vars(WriteFailed)
  /\ WF_vars(CallbackStep) /\ WF_vars(Terminate) /\ WF_vars(HalfSecond) /\ SF_vars(cleanup_inactive_streams)

Spec == Init /\ [][Next]_vars /\ Fairness

-----------------------------------------------------------------------------
(*                               Properties                                 *)

Kinds == {"none", "refused"} \cup Streams \cup Snapshots
Items(what) == [what : what, frame : {0, 1}]

(* The type invariant. *)
TypeOK ==
  /\ client \in {"reading", "stalled", "gone"}
  /\ arrived \in 0..Len(text)
  /\ io \in Seq(Items(Writes \cup {"subscribe", "subscribe_unknown", "keep", "list"}))
  /\ ros \in Seq(Items(Writes \cup {"finish", "throw"}))
  /\ restreaming \in BOOLEAN /\ (restreaming => ros # <<>>)
  /\ kind \in Kinds /\ streamer \in {"none", "made", "listed", "erased"}
  /\ inactive \in BOOLEAN /\ subscribed \in BOOLEAN /\ image_sub \in BOOLEAN
  /\ footers \in Nat /\ old \in 0..footers
  /\ frame \in {0, 1} /\ has_frame \in BOOLEAN
  /\ write_in_progress \in BOOLEAN /\ last_error \in BOOLEAN
  /\ writing \in Seq(Items(Writes)) /\ pending \in Seq(Items(Writes))
  /\ write_in_progress <=> writing # <<>>
  /\ received \in Items(Writes \cup {"nothing"})
  /\ expired \in 0..MaxExpired

(* What may follow what on the connection. *)
Follows(first, second) ==
  \/ first.what = "nothing"  /\ second.what = "status"
  \/ first.what = "status"   /\ second.what = "headers"
  \/ first.what = "headers"  /\ second.what \in {"content", "boundary", "payload", "preamble",
                                                 "error"}
  \/ first.what = "headers"  /\ second.what = "status"  /\ kind = "video"
  \/ first.what = "content"  /\ second.what = "content"
  \/ first.what = "boundary" /\ second.what = "part"
  \/ first.what = "part"     /\ second.what = "payload" /\ second.frame = first.frame
  \/ first.what = "payload"  /\ second.what = "footer"  /\ second.frame = first.frame
  \/ first.what = "payload"  /\ second.what = "status"  /\ kind = "ros_snapshot"
  \/ first.what = "footer"   /\ second.what = "part"
  \/ first.what \in {"preamble", "chunk"} /\ second.what = "chunk"

(* However the writes of handlers and callbacks interleave with the end of  *)
(* earlier ones, what the client gets is a reply with its parts in their    *)
(* order: each part's header goes with its own image, and nothing is lost,  *)
(* doubled or mixed with another part.  Only a video's head may be followed *)
(* by a second one, that of the error reply, after which nothing comes      *)
(* (http_connection.cpp, multipart_stream.cpp, libav_streamer.cpp).         *)
PartsWhole ==
  LET sent == <<received>> \o writing \o (IF last_error THEN <<>> ELSE pending)
  IN  \A i \in 1..Len(sent) - 1 : Follows(sent[i], sent[i + 1])

(* A client that does not read costs the memory of max_queue_size frames,   *)
(* and of one more for each that has stayed unsent for half a second        *)
(* (MultipartStream::is_busy).                                              *)
QueueBounded == max_queue_size > 0 => Alive <= max_queue_size + expired

Beginning(n) == SubSeq(text, 1, n)

(* The parser says "good" after the first characters that make a request,   *)
(* with its method, uri and headers, however the reads have cut it up; and  *)
(* it says "bad" only when no continuation of the client's makes one        *)
(* (http_request_parser.cpp).                                               *)
ParsedAsWritten ==
  LET complete == {n \in DOMAIN text : text[n] = LF /\ WellFormed(Beginning(n))}
      first    == CHOOSE n \in complete : \A k \in complete : n <= k
      read     == parser.request
  IN  IF complete = {} THEN parser.state # "good"
      ELSE /\ parser.state # "bad"
           /\ (parser.state = "good") = (first <= arrived)
           /\ parser.state = "good" =>
                Meaning(Beginning(first)) =
                  [method |-> read.method, uri |-> read.uri, headers |-> read.headers]

ImagesKeepComing == []<>(frame = 0) /\ []<>(frame = 1)

(* The streamer of a client that has gone is found inactive and removed,    *)
(* with its subscription, provided that images come: only a write tells     *)
(* that the client is gone.                                                 *)
GoneClientsReleased == <>[](client = "gone") => ~ImagesKeepComing

(* A client that reads gets its answer to the end of its head (snapshots    *)
(* and videos begin theirs with an image), and the frames of its stream do  *)
(* not stop while images come: a stream that is busy does not stay so.      *)
Served ==
  /\ (io # <<>> /\ kind \in {"none", "refused"} \cup Multipart)
       ~> (client # "reading" \/ received.what \notin {"nothing", "status", "headers"})
  /\ (<>[](client = "reading" /\ kind \in Streams /\ ~inactive) /\ ImagesKeepComing)
       => []<>(ros # <<>>)
=============================================================================
