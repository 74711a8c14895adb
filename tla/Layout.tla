------------------------------- MODULE Layout -------------------------------
(***************************************************************************)
(* How an object of F octets is divided into source blocks, symbols and    *)
(* sub-symbols, and how both ends come to agree on it (nanorq.c): the      *)
(* encoder chooses the partition, the OTI and the tag of each frame carry  *)
(* it, and the decoder computes the same partition from them.              *)
(***************************************************************************)
EXTENDS Integers

CONSTANTS
    KMax,          \* K_max: the most symbols a block can have
    MinBlocks      \* the least number of blocks that is tried

ASSUME LayoutAssumption == KMax \in Nat \ {0} /\ MinBlocks \in Nat \ {0}

DivCeil(a, b) == a \div b + (IF a % b # 0 THEN 1 ELSE 0)

\* A slip of Partition: the long blocks are counted one short.
PartitionLongShort(I, J) ==
    LET JL == I - (I \div J) * J
    IN  [IL |-> IF JL = 0 THEN 0 ELSE I \div J, IS |-> I \div J, JL |-> JL, JS |-> J - JL]

\* What is left of a number in a uint16_t
Uint16(n) == n % 65536

NoParts == [IL |-> 0, IS |-> 0, JL |-> 0, JS |-> 0]

\* fill_partition: I things in J parts, JL long ones of IL, JS short ones of IS
Partition(I, J) ==
    LET JL == I - (I \div J) * J
    IN  IF J = 0 THEN NoParts ELSE
        [IL |-> IF JL = 0 THEN 0 ELSE DivCeil(I, J), IS |-> I \div J,
         JL |-> JL, JS |-> J - JL]

\* The fields of nanorq: common, scheme and the two partitions.  The number of
\* parts is handed over in 16 bits: of the 65536 sub-symbols that an OTI can
\* speak of, and no encoder does, none are left.  Z is never more than 256.
Nanorq(F, T, Al, Z, N) ==
    [F |-> F, T |-> T, Al |-> Al, Z |-> Z, N |-> N,
     src |-> Partition(DivCeil(F, T), Z), sub |-> Partition(T \div Al, Uint16(N))]

\* gen_scheme_specific with neither K nor Z given
BlocksTried(Kt) ==
    CHOOSE z \in MinBlocks .. MinBlocks + Kt :
        /\ DivCeil(Kt, z) <= KMax
        /\ \A y \in MinBlocks .. z - 1 : DivCeil(Kt, y) > KMax
SchemeZ(Kt) == DivCeil(Kt, DivCeil(Kt, BlocksTried(Kt)))

\* nanorq_encoder_new, of a symbol size that is a multiple of the alignment
EncoderNew(F, T, Al) == Nanorq(F, T, Al, SchemeZ(DivCeil(F, T)), 1)

-----------------------------------------------------------------------------
(***************************************************************************)
(* Where the octets of a symbol are in the object.                         *)
(***************************************************************************)

NumBlocks(rq) == rq.src.JL + rq.src.JS
BlockSymbols(rq, sbn) ==
    IF sbn < rq.src.JL THEN rq.src.IL
    ELSE IF sbn - rq.src.JL < rq.src.JS THEN rq.src.IS ELSE 0

\* get_source_block: where the block starts, in units of the alignment
BlockStart(rq, sbn) ==
    (rq.T \div rq.Al) *
    (IF sbn < rq.src.JL THEN sbn * rq.src.IL
     ELSE IF sbn - rq.src.JL < rq.src.JS
     THEN rq.src.IL * rq.src.JL + (sbn - rq.src.JL) * rq.src.IS ELSE 0)

\* get_symbol_offset: where place pos of symbol esi is
SymbolOffset(rq, sbn, esi, pos) ==
    LET K == BlockSymbols(rq, sbn)
        long == rq.sub.IL * rq.sub.JL
        in(p, len) == (p \div len) * K * len + esi * len + (p % len)
    IN  BlockStart(rq, sbn) +
        (IF pos < long THEN in(pos, rq.sub.IL)
         ELSE long * K + in(pos - long, rq.sub.IS))

\* transfer_esi: the places of a symbol where a piece of it begins
PieceStarts(rq) ==
    {n * rq.sub.IL : n \in 0 .. rq.sub.JL - 1}
    \union {rq.sub.IL * rq.sub.JL + n * rq.sub.IS : n \in 0 .. rq.sub.JS - 1}
PieceLength(rq, pos) ==
    IF pos < rq.sub.IL * rq.sub.JL THEN rq.sub.IL ELSE rq.sub.IS

\* transfer_esi: for each octet of the symbol that is moved, its place in the
\* object; what is behind the object's end is padding and stays out.
Placed(rq, sbn, esi) ==
    UNION {{[octet |-> pos * rq.Al + n,
             at |-> SymbolOffset(rq, sbn, esi, pos) * rq.Al + n] :
                n \in 0 .. PieceLength(rq, pos) * rq.Al - 1} :
           pos \in PieceStarts(rq)}
Transfer(rq, sbn, esi) == {x \in Placed(rq, sbn, esi) : x.at < rq.F}

-----------------------------------------------------------------------------
(***************************************************************************)
(* The OTI and the tags, octet by octet.                                   *)
(***************************************************************************)

\* One octet of a number, by its unit: 1, 256 or 65536
OctetOf(n, unit) == (n \div unit) % 256

\* A slip of Oti: of the symbol size only one octet is sent.
OtiShortSize(rq) ==
    <<OctetOf(rq.F, 1), OctetOf(rq.F, 256), OctetOf(rq.F, 65536), OctetOf(rq.T - 1, 1), 0,
      OctetOf(rq.Z - 1, 1), OctetOf(rq.N - 1, 1), OctetOf(rq.N - 1, 256)>>

\* nanorq_oti_common_reduced and nanorq_oti_scheme_specific_align1
Oti(rq) ==
    <<OctetOf(rq.F, 1), OctetOf(rq.F, 256), OctetOf(rq.F, 65536),
      OctetOf(rq.T - 1, 1), OctetOf(rq.T - 1, 256),
      OctetOf(rq.Z - 1, 1), OctetOf(rq.N - 1, 1), OctetOf(rq.N - 1, 256)>>

\* nanorq_tag_reduced
Tag(sbn, esi) == <<OctetOf(sbn, 1), OctetOf(esi, 1), OctetOf(esi, 256)>>

\* parse_oti_common_from_frame, parse_oti_scheme_from_frame (which puts in the
\* alignment that is not sent), and nanorq_decoder_new
DecoderNew(oti) ==
    Nanorq(oti[1] + 256 * oti[2] + 65536 * oti[3],
           (oti[4] + 256 * oti[5] + 1) % 65536, 1,
           oti[6] + 1, oti[7] + 256 * oti[8] + 1)

TagSbn(tag) == tag[1]
TagEsi(tag) == tag[2] + 256 * tag[3]

-----------------------------------------------------------------------------
(***************************************************************************)
(* What the layout promises.                                               *)
(***************************************************************************)

Symbols(rq) ==
    UNION {{<<sbn, esi>> : esi \in 0 .. BlockSymbols(rq, sbn) - 1} :
               sbn \in 0 .. NumBlocks(rq) - 1}

\* Every octet of the object is in exactly one place of one symbol of one block,
\* whatever the lengths leave over in the last block, symbol and sub-symbol,
\* and nothing is moved to a place behind the object's end.
CoversObject(rq) ==
    LET holds(s, at) == \E x \in Transfer(rq, s[1], s[2]) : x.at = at
    IN  /\ \A at \in 0 .. rq.F - 1 :
               \E s \in Symbols(rq) : {z \in Symbols(rq) : holds(z, at)} = {s}
        /\ \A s \in Symbols(rq) : \A x, y \in Transfer(rq, s[1], s[2]) :
               /\ x.octet \in 0 .. rq.T - 1 /\ x.at \in 0 .. rq.F - 1
               /\ x.at = y.at <=> x.octet = y.octet

\* The decoder that is made from the OTI has the encoder's layout.
SameAtBothEnds(rq) == DecoderNew(Oti(rq)) = rq
=============================================================================
