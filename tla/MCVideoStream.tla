--------------------------- MODULE MCVideoStream ---------------------------
(* A small instance of VideoStream: requests for each handler, and one      *)
(* request with everything that can go wrong in a single place.             *)
EXTENDS VideoStream

MCWords == {"GET", "H", "T", "P", ".", "&", "name", "stream", "snapshot", "topic", "camera", "type",
            "stream_viewer", "vp8", "ros_compressed"}

Get(uri) == <<"GET", Space>> \o uri \o <<Space, "H", "T", "T", "P", "/", "1", ".", "0", CR, LF, CR, LF>>

Of(path, parameters) == <<"/", path, "?", "topic", "=", "camera">> \o parameters

MCTopics == {<<"camera">>}

Sample ==
  <<"GET", Space, "/", Space, "H", "T", "T", "P", "/", "1", ".", "0", CR, LF,
    "name", ":", Space, "name", CR, LF, Tab, Space, "GET", CR, LF, CR, LF>>

Oddities == {Space, CR, LF, Tab, ":", "/", "1", "name", "8-bit"}

MCRequests ==
  {Get(Of("stream", <<>>)),
   Get(Of("stream", <<"&", "type", "=", "ros_compressed">>)),
   Get(Of("snapshot", <<>>)),
   Get(Of("snapshot", <<"&", "type", "=", "ros_compressed">>)),
   Get(Of("stream", <<"&", "type", "=", "vp8">>)), Get(Of("stream_viewer", <<>>)),
   Get(<<"/", "stream">>), Get(<<"/">>), Get(Of("stream", <<"&", "type", "=", "GET">>)), Sample}
  \cup {RemoveAt(Sample, i) : i \in DOMAIN Sample}
  \cup {InsertAt(Sample, i, c) : i \in DOMAIN Sample, c \in Oddities}
=============================================================================
