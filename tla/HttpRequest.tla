---------------------------- MODULE HttpRequest ----------------------------
(***************************************************************************)
(* How the web server of the camera streams reads a request                *)
(* (async_web_server_cpp: http_request_parser.cpp, http_request.cpp): a    *)
(* parser that takes one character at a time, and the parts of the uri.    *)
(* The parser tells letters apart only in "HTTP", so any word of plain     *)
(* characters stands here as one character.                                *)
(***************************************************************************)
EXTENDS Integers, FiniteSets, Sequences, SequencesExt

CONSTANT Words  \* plain characters: neither digits, special nor control

Space == " "
CR == "CR"
LF == "LF"
Tab == "TAB"

Digits == {"0", "1"}                                     \* two of the ten
Specials == {"/", ":", "?", "=", "(", Space, Tab}        \* is_tspecial
Controls == {CR, LF, Tab, "NUL"}                         \* is_ctl
Foreign == {"8-bit"}                                     \* not is_char

Alphabet == Words \cup Digits \cup Specials \cup Controls \cup Foreign
Tokens == Words \cup Digits
Texts == Alphabet \ Controls

ASSUME WordsAssumption == Words \cap (Specials \cup Controls \cup Foreign) = {}

(* Which character leads from which state to which; with any other the      *)
(* request is bad.  A header can only be continued when there is one.       *)
Edges(headers) ==
  {<<"method_start", Tokens, "method">>,
   <<"method", Tokens, "method">>,
   <<"method", {Space}, "uri">>,
   <<"uri", Texts \ {Space}, "uri">>,
   <<"uri", {Space}, "http_version_h">>,
   <<"http_version_h", {"H"}, "http_version_t_1">>,
   <<"http_version_t_1", {"T"}, "http_version_t_2">>,
   <<"http_version_t_2", {"T"}, "http_version_p">>,
   <<"http_version_p", {"P"}, "http_version_slash">>,
   <<"http_version_slash", {"/"}, "http_version_major_start">>,
   <<"http_version_major_start", Digits, "http_version_major">>,
   <<"http_version_major", Digits, "http_version_major">>,
   <<"http_version_major", {"."}, "http_version_minor_start">>,
   <<"http_version_minor_start", Digits, "http_version_minor">>,
   <<"http_version_minor", Digits, "http_version_minor">>,
   <<"http_version_minor", {CR}, "expecting_newline_1">>,
   <<"expecting_newline_1", {LF}, "header_line_start">>,
   <<"header_line_start", {CR}, "expecting_newline_3">>,
   <<"header_line_start", Tokens, "header_name">>,
   <<"header_lws", {CR}, "expecting_newline_2">>,
   <<"header_lws", {Space, Tab}, "header_lws">>,
   <<"header_lws", Texts \ {Space}, "header_value">>,
   <<"header_name", {":"}, "space_before_header_value">>,
   <<"header_name", Tokens, "header_name">>,
   <<"space_before_header_value", {Space}, "header_value">>,
   <<"header_value", {CR}, "expecting_newline_2">>,
   <<"header_value", Texts, "header_value">>,
   <<"expecting_newline_2", {LF}, "header_line_start">>,
   <<"expecting_newline_3", {LF}, "good">>}
  \cup (IF headers = <<>> THEN {} ELSE {<<"header_line_start", {Space, Tab}, "header_lws">>})

Value(digit) == IF digit = "0" THEN 0 ELSE 1

Unread == [method |-> <<>>, uri |-> <<>>, version |-> <<0, 0>>, headers |-> <<>>]

(* Into the field of the request that belongs to the step. *)
Stored(request, from, c, to) ==
  LET last == Len(request.headers)
  IN  CASE to = "method" -> [request EXCEPT !.method = Append(@, c)]
        [] from = "uri" /\ to = "uri" -> [request EXCEPT !.uri = Append(@, c)]
        [] to = "http_version_major" -> [request EXCEPT !.version[1] = 10 * @ + Value(c)]
        [] to = "http_version_minor" -> [request EXCEPT !.version[2] = 10 * @ + Value(c)]
        [] from = "header_line_start" /\ to = "header_name" ->
             [request EXCEPT !.headers = Append(@, [name |-> <<c>>, value |-> <<>>])]
        [] from = "header_name" /\ to = "header_name" ->
             [request EXCEPT !.headers[last].name = Append(@, c)]
        [] to = "header_value" /\ from # "space_before_header_value" ->
             [request EXCEPT !.headers[last].value = Append(@, c)]
        [] OTHER -> request

Parser == [state |-> "method_start", request |-> Unread]

Verdicts == {"good", "bad"}

(* After the verdict nothing is consumed. *)
consume(parser, c) ==
  LET ways == {edge \in Edges(parser.request.headers) :
                 edge[1] = parser.state /\ c \in edge[2]}
      way  == CHOOSE edge \in ways : TRUE
  IN  IF parser.state \in Verdicts THEN parser
      ELSE IF ways = {} THEN [parser EXCEPT !.state = "bad"]
      ELSE [state   |-> way[3],
            request |-> Stored(parser.request, way[1], c, way[3])]

(* Fault: the request begins anew with each chunk. *)
Faulty_parse(parser, chunk) ==
  LET after[i \in 0..Len(chunk)] ==
        IF i = 0 THEN [parser EXCEPT !.request = Unread] ELSE consume(after[i - 1], chunk[i])
  IN  after[Len(chunk)]

(* A chunk, from where the last one has left the parser. *)
parse(parser, chunk) ==
  LET after[i \in 0..Len(chunk)] ==
        IF i = 0 THEN parser ELSE consume(after[i - 1], chunk[i])
  IN  after[Len(chunk)]

-----------------------------------------------------------------------------
(*                                 The uri                                  *)

(* Up to the first such character, and what comes after it. *)
Before(text, c) ==
  IF \E i \in DOMAIN text : text[i] = c
  THEN SubSeq(text, 1, SelectInSeq(text, LAMBDA x : x = c) - 1) ELSE text

After(text, c) ==
  IF \E i \in DOMAIN text : text[i] = c
  THEN SubSeq(text, SelectInSeq(text, LAMBDA x : x = c) + 1, Len(text)) ELSE <<>>

Path(uri) == Before(uri, "?")

(* Where the pairs of the query begin. *)
Pairs(query) == {i \in 1..Len(query) : i = 1 \/ query[i - 1] = "&"}

Pair(query, i) == Before(SubSeq(query, i, Len(query)), "&")

(* Of several pairs with the same name, the last one is in force.           *)
get_query_param_value_or_default(uri, name, default) ==
  LET query == After(uri, "?")
      named == {i \in Pairs(query) : Before(Pair(query, i), "=") = <<name>>}
  IN  IF named = {} THEN default
      ELSE After(Pair(query, CHOOSE i \in named : \A j \in named : j <= i), "=")

-----------------------------------------------------------------------------
(* What a request is, apart from how it is read: a request line, header     *)
(* lines, each perhaps continued, and an empty line.                        *)
AllIn(text, set) == \A i \in DOMAIN text : text[i] \in set

(* One character more: LF after CR ends a line.  A CR or an LF that stands  *)
(* alone stays in its line, where nothing allows it.                        *)
Longer(cut, c) ==
  LET rest == cut.rest
      last == Len(rest)
  IN  IF c = LF /\ rest # <<>> /\ rest[last] = CR
      THEN [lines |-> Append(cut.lines, SubSeq(rest, 1, last - 1)), rest |-> <<>>]
      ELSE [lines |-> cut.lines, rest |-> Append(rest, c)]

(* The lines, and what comes after the last one. *)
Cut(text) ==
  LET cut[i \in 0..Len(text)] ==
        IF i = 0 THEN [lines |-> <<>>, rest |-> <<>>] ELSE Longer(cut[i - 1], text[i])
  IN  cut[Len(text)]

Method(line)  == Before(line, Space)
Uri(line)     == Before(After(line, Space), Space)
Version(line) == After(After(line, Space), Space)
Major(line)   == Before(After(Version(line), "/"), ".")
Minor(line)   == After(After(Version(line), "/"), ".")

RequestLine(line) ==
  /\ line = Method(line) \o <<Space>> \o Uri(line) \o <<Space>> \o Version(line)
  /\ Version(line) = <<"H", "T", "T", "P", "/">> \o Major(line) \o <<".">> \o Minor(line)
  /\ AllIn(Method(line), Tokens) /\ AllIn(Uri(line), Texts \ {Space})
  /\ AllIn(Major(line), Digits) /\ AllIn(Minor(line), Digits)
  /\ <<>> \notin {Method(line), Major(line), Minor(line)}

Name(line) == Before(line, ":")
Content(line) == After(After(line, ":"), Space)

HeaderLine(line) ==
  /\ line = Name(line) \o <<":", Space>> \o Content(line)
  /\ Name(line) # <<>> /\ AllIn(Name(line), Tokens) /\ AllIn(Content(line), Texts)

Unindented(line) ==
  IF AllIn(line, {Space, Tab}) THEN <<>>
  ELSE SubSeq(line, SelectInSeq(line, LAMBDA c : c \notin {Space, Tab}), Len(line))

Continuation(line) ==
  line # <<>> /\ line[1] \in {Space, Tab} /\ AllIn(Unindented(line), Texts)

(* The first lines of a request. *)
Legal(lines) ==
  /\ lines # <<>> /\ RequestLine(lines[1])
  /\ \A k \in 2..Len(lines) : HeaderLine(lines[k]) \/ (k > 2 /\ Continuation(lines[k]))

WellFormed(text) ==
  LET lines == Cut(text).lines
      last  == Len(lines)
  IN  /\ Cut(text).rest = <<>>
      /\ last > 1 /\ lines[last] = <<>> /\ Legal(SubSeq(lines, 1, last - 1))

(* A header line begins a header, and a continuation goes on with its value *)
(* but without the blanks that begin it.                                    *)
Extended(headers, line) ==
  IF Continuation(line)
  THEN [headers EXCEPT ![Len(headers)].value = @ \o Unindented(line)]
  ELSE Append(headers, [name |-> Name(line), value |-> Content(line)])

Headers(lines) ==
  LET headers[k \in 0..Len(lines)] ==
        IF k = 0 THEN <<>> ELSE Extended(headers[k - 1], lines[k])
  IN  headers[Len(lines)]

Meaning(text) ==
  LET all   == Cut(text).lines
      lines == SubSeq(all, 1, Len(all) - 1)
  IN  [method |-> Method(lines[1]), uri |-> Uri(lines[1]), headers |-> Headers(Tail(lines))]
=============================================================================
