----------------------------- MODULE BlockCodec -----------------------------
(***************************************************************************)
(* A source block on its way from the encoder to the file at the receiver  *)
(* (nanorq.c with daemon.c on both sides): the encoder computes the        *)
(* intermediate symbols from the block's octets, frames carry encoding     *)
(* symbols, some are lost, the decoder writes the source symbols that      *)
(* arrive and repairs the others by inverting the matrix of what it has.   *)
(* One block is followed: the blocks of an object share nothing but the    *)
(* parameters.                                                             *)
(***************************************************************************)
EXTENDS Precode, Frame

CONSTANTS
    File,        \* the octets of the object, counted from 0
    SymbolSize,  \* ctx->symbol_size
    MaxEsi,      \* MAX_ESI, of both ends
    Attempts,    \* per block followed: what has been received when the caller
                 \* asks for a repair.  The daemon asks at each symbol that is
                 \* added from the K-th on.  Only these symbols arrive.
    Layouts,     \* objects whose division is checked, as nanorq records
    Lengths,     \* lengths of files
    Sizes        \* and the symbol sizes they are sent with

\* The OTI has three octets for the length of a file and two for the size of a
\* symbol, and tx_load_file takes no file that is longer; Z_max = 256 blocks of
\* K_max symbols have room for the longest, in the smallest symbols.
ASSUME LengthsAssumption ==
    /\ Lengths \subseteq Nat \ {0} /\ Sizes \subseteq Nat \ {0}
    /\ \A F \in Lengths, T \in Sizes :
           F < 16777216 /\ T < 65536 /\ DivCeil(F, T) <= 256 * KMax
    /\ MinBlocks <= 256

\* A symbol is a whole number of alignment units (nanorq_encoder_new_ex rounds
\* its size, nanorq_decoder_new refuses another one), and there is one for each
\* sub-symbol.
ASSUME LayoutsAssumption ==
    \A rq \in Layouts :
        /\ {rq.F, rq.T, rq.Al, rq.Z, rq.N} \subseteq Nat \ {0}
        /\ rq.T % rq.Al = 0 /\ rq.N <= rq.T \div rq.Al /\ rq.N < 65536
        /\ rq = Nanorq(rq.F, rq.T, rq.Al, rq.Z, rq.N)

VARIABLES
    sbn,      \* the block that is followed
    encoded,  \* D of the encoder once it is inverted; until then empty
    mask,     \* repair_mask
    bin,      \* repair_bin
    tried,    \* the mask at the attempt that failed last
    out       \* the octets written at the receiver, by their place

codecVars == <<sbn, encoded, mask, bin, tried, out>>
vars == <<precodeVars, codecVars>>

Encoder == EncoderNew(Cardinality(DOMAIN File), SymbolSize, 1)
EncoderParams == ParamsInit(BlockSymbols(Encoder, 0))
K == BlockSymbols(Encoder, sbn)

\* An octmat whose rows have SymbolSize octets
ZeroRows(n) == [r \in Upto(n) |-> ZeroRow(1 .. SymbolSize)]

\* The object is a file the OTI has room for, table2.h has a row for the
\* symbols of its largest block, and rnd_get returns remainders.
ASSUME ObjectAssumption ==
    /\ File \in [Upto(Cardinality(DOMAIN File)) -> Octet]
    /\ Cardinality(DOMAIN File) \in Nat \ {0} /\ Cardinality(DOMAIN File) < 16777216
    /\ SymbolSize \in Nat \ {0} /\ SymbolSize < 65536
    /\ DivCeil(Cardinality(DOMAIN File), SymbolSize) <= 256 * KMax
    /\ DOMAIN Attempts \subseteq Upto(NumBlocks(Encoder))
    /\ MaxEsi \in Nat /\ MaxEsi < 65536
ASSUME CodeAssumption ==
    /\ \E i \in DOMAIN Table2 : BlockSymbols(Encoder, 0) <= Table2[i].Kprime
    /\ \A X \in 0 .. EncoderParams.Kprime + MaxEsi : TupleInRange(X, EncoderParams)
    /\ \A col \in 0 .. EncoderParams.Kprime + EncoderParams.S - 2 :
           ColumnInRange(col, EncoderParams)

-----------------------------------------------------------------------------
(***************************************************************************)
(* The encoder.                                                            *)
(***************************************************************************)

\* transfer_esi from the file; what is behind the file's end stays 0.
ReadSymbol(rq, esi) ==
    LET moved == Transfer(rq, sbn, esi)
    IN  [n \in 1 .. SymbolSize |->
            LET at == {x.at : x \in {y \in moved : y.octet = n - 1}}
            IN  IF at = {} THEN 0 ELSE File[CHOOSE a \in at : TRUE]]

\* nanorq_generate_symbols with load_symbol_matrix
Generate ==
    LET p == EncoderParams
        first == p.S + p.H
    IN  /\ pc = "start"
        /\ BeginInvert(p, PrecodeMatrix(p, [n \in Upto(p.Kprime) |-> n]),
                       [r \in Upto(p.L) |->
                           IF r - first \in Upto(K) THEN ReadSymbol(Encoder, r - first)
                           ELSE ZeroRow(1 .. SymbolSize)])
        /\ UNCHANGED codecVars

\* enc->inverted: the block can be sent.  At the other end the decoder's D
\* (get_block_encoder) has room for every symbol up to MaxEsi.
Generated ==
    /\ pc = "inverted" /\ encoded = << >>
    /\ encoded' = D
    /\ D' = ZeroRows(P.L + MaxEsi - K)
    /\ pc' = "receive"
    /\ UNCHANGED <<step, P, A, S, NZT, U, sbn, mask, bin, tried, out>>

\* decode_row: the sum of the rows that make up symbol isi
DecodeRow(p, symbols, isi) ==
    LET rows == Idxs(isi, p)
        sum[n \in 0 .. Len(rows)] ==
            IF n = 0 THEN ZeroRow(1 .. SymbolSize)
            ELSE AddRow(sum[n - 1], symbols[rows[n]], 1)
    IN  sum[Len(rows)]

\* nanorq_encode of an inverted block; repair symbols are counted from Kprime
\* in the matrix and from K in the frames.
Isi(p, esi) == IF esi < K THEN esi ELSE esi + p.Kprime - K
Encode(esi) == DecodeRow(EncoderParams, encoded, Isi(EncoderParams, esi))

-----------------------------------------------------------------------------
(***************************************************************************)
(* The decoder.                                                            *)
(***************************************************************************)

Gaps == Upto(K) \ mask

\* transfer_esi to the file
WriteSymbol(file, rq, esi, symbol) ==
    LET moved == Transfer(rq, sbn, esi)
        places == {x.at : x \in moved}
    IN  [at \in places \union DOMAIN file |->
            IF at \in places THEN symbol[1 + (CHOOSE x \in moved : x.at = at).octet]
            ELSE file[at]]

ToAttempt == mask \in Attempts[sbn] /\ mask # tried

AfterFailure == mask = tried /\ mask # {}

\* Symbols arrive in the order they are sent; after an attempt that failed
\* any other one may be next, from the carousel's next round.
Arrives(esi) ==
    /\ esi \in 0 .. MaxEsi /\ esi \notin mask
    /\ \/ \E all \in Attempts[sbn] : esi \in all /\ mask = {e \in all : e < esi}
       \/ AfterFailure /\ mask \union {esi} \in Attempts[sbn]

\* rx_thread_main of a frame, and nanorq_decoder_add_symbol
Receive(sent) ==
    /\ pc = "receive" /\ ~ToAttempt /\ Arrives(sent)
    /\ Gaps # {}
    /\ LET frame == MakeFrame(Oti(Encoder), sbn, sent, Encode(sent))
           rq == DecoderNew(OtiOf(frame))
           esi == TagEsi(TagOf(frame))
           symbol == SymbolOf(frame)
       IN  /\ IsValid(frame)
           /\ TagSbn(TagOf(frame)) = sbn
           /\ mask' = mask \union {esi}
           /\ IF esi < BlockSymbols(rq, sbn)
              THEN /\ D' = [D EXCEPT ![P.S + P.H + esi] = symbol]
                   /\ out' = WriteSymbol(out, rq, esi, symbol)
                   /\ UNCHANGED bin
              ELSE /\ bin' = Append(bin, [esi |-> esi, row |-> symbol])
                   /\ UNCHANGED <<D, out>>
    /\ UNCHANGED <<pc, step, P, A, S, NZT, U, sbn, encoded, tried>>

\* nanorq_repair_block without gaps
NothingMissing ==
    /\ pc = "receive" /\ ToAttempt /\ Gaps = {}
    /\ pc' = "decoded"
    /\ UNCHANGED <<step, P, A, S, NZT, U, D, codecVars>>

Overhead == Len(bin) - Cardinality(Gaps)

\* The repair symbol for row n of those behind the HDPC rows: the gaps take
\* the first ones in order, rows from Kprime on the others.
RepairFor(n) ==
    bin[IF n \in Gaps THEN Cardinality({g \in Gaps : g <= n})
        ELSE n - P.Kprime + Cardinality(Gaps) + 1]
Repairs(n) == n \in Gaps \/ n >= P.Kprime

\* A slip of Patched: the padding between K and Kprime is forgotten.
PatchedNoPadding ==
    [n \in Upto(P.Kprime + Overhead) |-> IF Repairs(n) THEN RepairFor(n).esi ELSE n]

\* patch_precode_matrix
Patched ==
    [n \in Upto(P.Kprime + Overhead) |->
        IF Repairs(n) THEN Isi(P, RepairFor(n).esi) ELSE n]

\* fill_symbol_matrix_gaps
Filled ==
    LET first == P.S + P.H
    IN  [r \in DOMAIN D |->
            IF r - first \in Upto(P.Kprime + Overhead) /\ Repairs(r - first)
            THEN RepairFor(r - first).row ELSE D[r]]

\* nanorq_repair_block up to the inversion
Repair ==
    /\ pc = "receive" /\ ToAttempt /\ Gaps # {}
    /\ Overhead >= 0
    /\ P.L + Overhead <= Cardinality(DOMAIN D)
    /\ BeginInvert(P, PrecodeMatrix(P, Patched), Filled)
    /\ UNCHANGED codecVars

\* It returns false; D keeps what was filled in.
Failed ==
    /\ pc = "singular" /\ encoded # << >>
    /\ pc' = "receive"
    /\ tried' = mask
    /\ A' = << >> /\ S' = << >> /\ U' = << >> /\ step' = 0
    /\ UNCHANGED <<P, NZT, D, sbn, encoded, mask, bin, out>>

\* decode_repair_rows and write_repair_rows
Repaired ==
    /\ pc = "inverted" /\ encoded # << >>
    /\ LET written[g \in 0 .. K] ==
               IF g = 0 THEN out
               ELSE IF g - 1 \in Gaps
               THEN WriteSymbol(written[g - 1], Encoder, g - 1, DecodeRow(P, D, g - 1))
               ELSE written[g - 1]
       IN  out' = written[K]
    /\ mask' = mask \union Gaps
    /\ pc' = "decoded"
    /\ UNCHANGED <<step, P, A, S, NZT, U, D, sbn, encoded, bin, tried>>

\* The block is done with, or no more frames come.
Ended ==
    /\ \/ pc \in {"decoded", "overrun", "aborted"}
       \/ pc = "receive" /\ AfterFailure
    /\ UNCHANGED vars

Init ==
    /\ sbn \in DOMAIN Attempts
    /\ pc = "start" /\ step = 0
    /\ P = << >> /\ A = << >> /\ S = << >> /\ U = << >> /\ D = << >>
    /\ NZT = << >>
    /\ encoded = << >> /\ mask = {} /\ bin = << >> /\ tried = {} /\ out = << >>

Next ==
    \/ Generate \/ Generated
    \/ Invert /\ UNCHANGED codecVars
    \/ \E esi \in 0 .. MaxEsi : Receive(esi)
    \/ NothingMissing \/ Repair \/ Failed \/ Repaired
    \/ Ended

Spec == Init /\ [][Next]_vars

-----------------------------------------------------------------------------
(***************************************************************************)
(* The properties.                                                         *)
(***************************************************************************)

\* The places of the block's octets in the object, by the sizes of the blocks
\* before it.
BlockPlaces ==
    LET octets(b) == SymbolSize * BlockSymbols(Encoder, b)
        first[b \in 0 .. sbn] == IF b = 0 THEN 0 ELSE first[b - 1] + octets(b - 1)
    IN  {at \in DOMAIN File : first[sbn] <= at /\ at < first[sbn] + octets(sbn)}

\* A block that is decoded is written to its last octet, and nothing is ever
\* written outside of it.
BlockIsWhole ==
    /\ DOMAIN out \subseteq BlockPlaces
    /\ pc = "decoded" => DOMAIN out = BlockPlaces

\* The octets written are the file's.
OctetsAreSource == \A at \in DOMAIN out : out[at] = File[at]

\* The first K encoding symbols are the source symbols.
IsSystematic ==
    encoded # << >> => \A esi \in Upto(K) : Encode(esi) = ReadSymbol(Encoder, esi)

\* What is written stays as it is: no later frame, failed inversion or repair
\* writes other octets over it or takes it away.
KeepsOctets == \A at \in DOMAIN out : at \in DOMAIN out' /\ out'[at] = out[at]
OctetsStay == [][KeepsOctets]_vars

\* Whatever symbols arrive, what the receiver writes is what the file has at
\* that place, once and for all: generation, encoding, framing, matrix, schedule,
\* permutations and layout of the two sides undo each other.
DecodedIsSource == [](OctetsAreSource /\ BlockIsWhole /\ IsSystematic) /\ OctetsStay

\* The rank of a matrix over GF(256), rows and columns given as sets, by
\* elimination column after column.
RankOf(matrix, columns) ==
    LET Reduce(m, pivot, col) ==
            [r \in DOMAIN m \ {pivot} |->
                AddRow(m[r], m[pivot], Mul(m[r][col], OCT_INV[m[pivot][col]]))]
        after[c \in 0 .. Cardinality(columns)] ==
            IF c = 0 THEN [rank |-> 0, m |-> matrix]
            ELSE LET last == after[c - 1]
                     with == {r \in DOMAIN last.m : last.m[r][c - 1] # 0}
                 IN  IF with = {} THEN last
                     ELSE [rank |-> last.rank + 1,
                           m |-> Reduce(last.m, CHOOSE r \in with : TRUE, c - 1)]
    IN  after[Cardinality(columns)].rank

\* The whole matrix with its HDPC rows, as octets
FullMatrix ==
    [r \in Upto(NumRows) |->
        [col \in Upto(P.L) |->
            IF r \in P.S .. P.S + P.H - 1
            THEN IF col < P.Kprime + P.S THEN HdpcColumn(P, col)[r - P.S]
                 ELSE IF col - P.Kprime - P.S = r - P.S THEN 1 ELSE 0
            ELSE IF HasCol(A[r], col) THEN 1 ELSE 0]]

\* precode.c takes shortcuts in the choice of rows.  They never cost a block:
\* an inversion that is given up is one of a matrix whose rank is too small,
\* so that no order of rows and columns could have inverted it.
SingularOnly == pc = "singular" => RankOf(FullMatrix, Upto(P.L)) < P.L

\* The counters that the choice of rows relies on are kept by decrements, and
\* the permutations by swaps.  While the triangle grows they are true: d and
\* di, c and ci are inverse to each other, a row from S.i on has S.nz ones in V
\* (one that had none at the start counts as full), the triangle has its ones
\* on the diagonal and none right of it, outside of the last S.u columns.
ScheduleTracksMatrix ==
    pc = "precond" =>
        LET rows == Upto(NumRows)
            onesInV(r) == Cardinality({q \in S.i .. P.L - S.u - 1 : HasCol(A[r], S.c[q])})
        IN  /\ \A r \in rows : S.d[S.di[r]] = r
            /\ \A col \in Upto(P.L) : S.c[S.ci[col]] = col
            /\ \A r \in rows : S.di[r] >= S.i =>
                   S.nz[r] = onesInV(r)
                             + (IF InitialNnz(P, A[r]) = P.L THEN P.L ELSE 0)
            /\ \A m \in Upto(S.i) :
                   /\ HasCol(A[S.d[m]], S.c[m])
                   /\ \A q \in m + 1 .. P.L - S.u - 1 : ~HasCol(A[S.d[m]], S.c[q])

\* The work matrix has H spare rows for the bit rows that turn into octet rows;
\* wrkmat_axpy ends the program when there is none left.  No choice of symbols
\* that is followed comes to need one more.
NoAbort == pc # "aborted"

\* precode_matrix_apply_sched applies the operations of the schedule and
\* nothing behind them.
AppliesOnlyItsOps == pc # "overrun"

\* The octets of a file are divided among blocks, symbols and sub-symbols
\* without a gap and without an overlap (get_source_block, get_symbol_offset,
\* transfer_esi): a symbol lost or written twice can damage only its own part.
LayoutCoversObject == pc = "start" => \A rq \in Layouts : CoversObject(rq)

\* For every symbol size a mode gives and every length up to 16 MB, the layout
\* the encoder chooses is the one a receiver computes from the eight octets of
\* the OTI.
BothEndsAgree ==
    pc = "start" => \A F \in Lengths, T \in Sizes : SameAtBothEnds(EncoderNew(F, T, 1))

\* A frame that a burst of up to six bits has hit does not reach the decoder.
DamageIsSeen ==
    pc = "receive" /\ mask = {} =>
        BurstsAreSeen(MakeFrame(Oti(Encoder), sbn, MaxEsi, Encode(MaxEsi)))

\* The tables of oblas are a field's (see OctField).
TablesAreAField == pc = "start" => TablesMultiply
=============================================================================
