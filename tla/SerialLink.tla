----------------------------- MODULE SerialLink -----------------------------
(***************************************************************************)
(* The request/answer protocol of the serial ports (include/rs232_common.c,*)
(* rs232.c, power_module.c of tetra_interface).  The node writes a request *)
(* and reads one answer.  A read that gets no byte for 0.2 s gives up, but *)
(* nothing flushes the port and no answer names its request, so an answer  *)
(* that comes too late is read after the next request.                     *)
(*                                                                         *)
(* An answer is either an "ack" (STX flag ETX LRC) or the data of one kind *)
(* of read request (STX length data ETX LRC).  Bytes are abstracted: an    *)
(* answer is lost, or arrives whole, intact or with a bad LRC; STX and ETX *)
(* are taken not to occur among the data.                                  *)
(***************************************************************************)
EXTENDS Integers, Sequences, FiniteSets

CONSTANT
  Leftover  \* what get_response2 returns for a good answer: it has no return
            \* statement there.  Unoptimised code returns the LRC, a byte;
            \* optimised code whatever the register holds.

ASSUME LeftoverAssumption == Leftover \subseteq Int

-----------------------------------------------------------------------------
(* Results of a read: the return value, the data that ends up in the packet *)
(* buffer, and the answers still unread.  An empty buffer reads as "zero",  *)
(* one holding a broken-up sequence of answers as "debris".                 *)
Result(ret, data, rest) == [ret |-> ret, data |-> data, rest |-> rest]

Answer(of, good) == [of |-> of, good |-> good]
Zero   == Answer("zero", FALSE)
Debris == Answer("debris", FALSE)

(* Scans to STX, then to ETX, reads the LRC, and accepts FLAG_OK only.  The *)
(* data of a read request has no flag.                                      *)
get_response(buffer) ==
  IF buffer = <<>> THEN {Result(-1, Zero, <<>>)}
  ELSE {Result(IF Head(buffer) = Answer("ack", TRUE) THEN 0 ELSE -1,
               Head(buffer), Tail(buffer))}

(* Fault: what follows the length is not checked against its LRC. *)
Faulty_get_response2(buffer) ==
  IF buffer = <<>> THEN {Result(-10, Zero, <<>>)}
  ELSE IF Head(buffer).of = "ack" THEN {Result(-11, Debris, <<>>)}
  ELSE {Result(ret, Head(buffer), Tail(buffer)) : ret \in Leftover}

(* Scans to STX and takes two bytes as the length.  The flag of an ack      *)
(* makes a length of over 12000 bytes: the read eats every answer there is  *)
(* and gives up.                                                            *)
get_response2(buffer) ==
  IF buffer = <<>> THEN {Result(-10, Zero, <<>>)}
  ELSE IF Head(buffer).of = "ack" THEN {Result(-11, Debris, <<>>)}
  ELSE IF ~Head(buffer).good THEN {Result(-1, Head(buffer), Tail(buffer))}
  ELSE {Result(ret, Head(buffer), Tail(buffer)) : ret \in Leftover}

Read(kind, buffer) ==
  IF kind = "ack" THEN get_response(buffer) ELSE get_response2(buffer)

(* A link is what has arrived and has not been read, and what the board has *)
(* still to send.                                                           *)
Idle == [arrived |-> <<>>, owed |-> <<>>]

Backlog(link) == Len(link.arrived) + Len(link.owed)

(* The 500 samples are the one answer that is longer than the 255 bytes     *)
(* most requests read into.                                                 *)
Samples(link) ==
  Cardinality({i \in 1..Backlog(link) : (link.arrived \o link.owed)[i].of = "samples"})

(* What the board owes after a request: one more answer, unless request or  *)
(* answer is lost or the board is off.                                      *)
Owed(link, kind, on) ==
  {link.owed} \cup
    {Append(link.owed, Answer(kind, good)) : good \in IF on THEN BOOLEAN ELSE {}}

(* One exchange: the first n answers the board owes arrive in time.         *)
Exchanges(link, kind, on) ==
  UNION {UNION {{[ret  |-> r.ret, data |-> r.data,
                  link |-> [arrived |-> r.rest,
                            owed    |-> SubSeq(owed, n + 1, Len(owed))]] :
                 r \in Read(kind, link.arrived \o SubSeq(owed, 1, n))} :
           n \in 0..Len(owed)} :
     owed \in Owed(link, kind, on)}
=============================================================================
