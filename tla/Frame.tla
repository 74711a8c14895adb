-------------------------------- MODULE Frame --------------------------------
(***************************************************************************)
(* The frames of broadcast_daemon octet by octet: the type and the CRC-6   *)
(* in the first octet, the OTI, the tag, the symbol (daemon.c, crc6.c).    *)
(***************************************************************************)
EXTENDS OctField, Layout, Sequences

PACKET_RQ_CONFIG == 2

\* crc6_table: the remainder of octet * x^6 modulo the polynomial 0x6f, found
\* bit by bit from the left; 0xbc is the polynomial without its first bit.
Crc6Shift == [o \in Octet |->
                 IF o >= 128 THEN Xor[2 * o - 256][188] ELSE 2 * o]
Crc6Table ==
    LET shifted[n \in 0 .. 8] ==
            IF n = 0 THEN [o \in Octet |-> o]
            ELSE [o \in Octet |-> Crc6Shift[shifted[n - 1][o]]]
    IN  [o \in Octet |-> shifted[8][o] \div 4]

\* A slip of Crc6: the remainder starts from 0 at each octet.
Crc6NoChain(data) == Crc6Table[data[Len(data)]]

\* crc6_0X6F(1, data)
Crc6(data) ==
    LET crc[n \in 0 .. Len(data)] ==
            IF n = 0 THEN 1 ELSE Crc6Table[Xor[4 * crc[n - 1]][data[n]]]
    IN  crc[Len(data)]

\* tx_send_one_frame, the frame it puts together
MakeFrame(oti, sbn, esi, symbol) ==
    LET body == oti \o Tag(sbn, esi) \o symbol
    IN  <<64 * PACKET_RQ_CONFIG + Crc6(body)>> \o body

\* rx_thread_main: type and CRC, and what it takes from a frame
IsValid(f) ==
    /\ f[1] \div 64 = PACKET_RQ_CONFIG
    /\ f[1] % 64 = Crc6(Tail(f))
OtiOf(f) == SubSeq(f, 2, 9)
TagOf(f) == SubSeq(f, 10, 12)
SymbolOf(f) == SubSeq(f, 13, Len(f))

\* What the polynomial is for: no burst of damage up to six bits long in what
\* follows the first octet is taken for a good frame.
BurstsAreSeen(f) ==
    \A n \in 2 .. Len(f), unit \in {1, 2, 4, 8, 16, 32, 64, 128}, bits \in 1 .. 63 :
        LET damage == bits * unit
        IN  n > 2 \/ damage < 256 =>
                ~IsValid([f EXCEPT ![n] = Xor[@][damage % 256],
                                   ![n - 1] = Xor[@][damage \div 256]])
=============================================================================
