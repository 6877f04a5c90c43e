------------------------------- MODULE Rs232 --------------------------------
(***************************************************************************)
(* What both serial drivers share (include/rs232_common.c, of which the    *)
(* tetra and the tetra_interface package have a copy each): the characters *)
(* that frame a packet and the check byte (LRC) that follows it.           *)
(***************************************************************************)
EXTENDS Integers, Sequences

STX == 2
ETX == 3
FLAG_OK == 48

Power(base, exponent) == base ^ exponent  \* mypow

Total(f) == f[0] + f[1] + f[2] + f[3] + f[4] + f[5] + f[6] + f[7]

Bit(word, i) == (word \div Power(2, i)) % 2

(* decimal2binary, for a word of no more than eight bits. *)
decimal2binary(word) == [i \in 0..7 |-> Bit(word, i)]

Value(bits) == Total([i \in 0..7 |-> bits[i] * Power(2, i)])

(* The exclusive or of two bytes. *)
Xor ==
  [a \in 0..255 |-> [b \in 0..255 |-> Value([i \in 0..7 |-> (Bit(a, i) + Bit(b, i)) % 2])]]

(* Fault: the last byte is left out. *)
Faulty_make_lrc(bytes) ==
  LET lrc[i \in 0..Len(bytes)] == IF i = 0 THEN 0 ELSE Xor[lrc[i - 1]][bytes[i]]
  IN  lrc[Len(bytes) - 1]

make_lrc(bytes) ==
  LET lrc[i \in 0..Len(bytes)] == IF i = 0 THEN 0 ELSE Xor[lrc[i - 1]][bytes[i]]
  IN  lrc[Len(bytes)]
=============================================================================
