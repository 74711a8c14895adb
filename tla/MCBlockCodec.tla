---------------------------- MODULE MCBlockCodec ----------------------------
(***************************************************************************)
(* An object of 157 octets in 79 symbols of two: 16 blocks, the first 15   *)
(* of 5 symbols and the last of 4, whose last symbol has one octet of      *)
(* padding.  Both kinds are followed, as the blocks 0 and 15.              *)
(***************************************************************************)
EXTENDS BlockCodec

MCFile == [n \in 0 .. 156 |-> (37 * n + 11) % 256]

\* table2.h up to Kprime = 12
MCTable2 == <<[Kprime |-> 10, J |-> 254, S |-> 7, H |-> 10, W |-> 17],
              [Kprime |-> 12, J |-> 630, S |-> 7, H |-> 10, W |-> 19]>>

\* What rnd_get of rand.c returns: row X + 1 has Rnd(y, 0, 2^20), Rnd(y, 1, 16)
\* and Rnd(y, 2, 17) for the y of GenTuple(X, p), then Rnd(X, 3, 2),
\* Rnd(X, 4, 10) and Rnd(X, 5, 11).
RndOfSymbol == <<
    <<31081, 3, 9, 0, 4, 1>>, <<886842, 5, 12, 1, 0, 3>>,
    <<1004165, 5, 3, 1, 0, 0>>, <<80938, 0, 4, 1, 2, 8>>,
    <<89492, 0, 7, 1, 5, 8>>, <<409120, 7, 7, 0, 2, 4>>,
    <<552417, 3, 5, 1, 3, 5>>, <<140680, 5, 6, 0, 2, 2>>,
    <<567487, 4, 16, 1, 7, 3>>, <<871722, 2, 16, 0, 5, 4>>,
    <<386731, 14, 15, 0, 9, 7>>, <<465471, 11, 7, 0, 8, 10>>,
    <<939584, 11, 7, 1, 4, 5>>, <<191861, 3, 2, 1, 3, 4>>,
    <<12908, 6, 9, 0, 6, 7>>, <<440330, 6, 7, 1, 1, 8>>,
    <<747735, 7, 11, 0, 3, 3>>, <<34372, 14, 12, 0, 3, 2>>,
    <<347434, 9, 15, 0, 7, 9>>, <<608327, 13, 8, 0, 0, 1>>,
    <<480638, 8, 14, 1, 6, 4>>, <<975063, 15, 8, 1, 0, 7>>,
    <<651723, 4, 10, 1, 0, 5>>, <<813, 8, 6, 1, 7, 2>>,
    <<830824, 5, 8, 0, 9, 4>>, <<429504, 15, 14, 0, 7, 0>>,
    <<345883, 13, 4, 0, 8, 8>>>>

\* Row c has Rnd(c, 6, 10) and Rnd(c, 7, 9).
RndOfColumn == <<
    <<0, 8>>, <<9, 5>>, <<6, 7>>, <<5, 5>>, <<0, 3>>, <<3, 6>>, <<7, 7>>, <<3, 7>>,
    <<8, 5>>, <<4, 3>>, <<7, 6>>, <<4, 8>>, <<7, 1>>, <<1, 8>>, <<5, 6>>, <<9, 2>>>>

MCRnd(y, i, m) ==
    IF i <= 2 THEN RndOfSymbol[(y - 2618085) \div 306829 + 1][i + 1]
    ELSE IF i <= 5 THEN RndOfSymbol[y + 1][i + 1]
    ELSE RndOfColumn[y][i - 5]

SmallSubsets(set, sizes) == {m \in SUBSET set : Cardinality(m) \in sizes}

\* The daemon's attempts, with 5 symbols or 4 and with each that comes after,
\* on several choices of symbols; a block that arrives whole; and a caller that
\* waits until there are ten symbols or more than the block has.
MCAttempts ==
    0 :> (SmallSubsets({1, 2, 4, 7, 11, 13, 14, 16}, {5, 6})
          \union SmallSubsets({0, 4, 6, 9, 11, 12}, {5, 6})
          \union {0 .. 4, {5, 11, 12, 14, 16}, {2, 4, 9, 10, 14}}
          \union {0 .. 16 \ {1, m} : m \in 2 .. 16})
    @@ 15 :> (SmallSubsets({0, 1, 2, 5, 6, 10, 12}, {4, 5, 6})
              \union {{2, 8, 9, 13}}
              \union {0 .. 16 \ {3, m} : m \in {0, 1, 7, 16}})

\* One of the choices after which an inversion has nothing to eliminate in X
MCEmptyForward == 0 :> {{1, 2, 4, 7, 13}}

\* All divisions of small objects, with every alignment and interleaving
MCLayouts ==
    {rq \in {Nanorq(F, T, Al, Z, N) : F \in 1 .. 14, T \in 1 .. 4, Al \in {1, 2, 4},
                                     Z \in 1 .. 4, N \in 1 .. 4} :
        rq.T % rq.Al = 0 /\ rq.N <= rq.T \div rq.Al}

\* What the modes' frames leave for a symbol (hermes_frame_size without mode 5,
\* whose frames are too short)
MCSizes == {n - 12 : n \in {510, 126, 14, 54, 30}}
MCLengths == {1, 2, 3, 31, 32, 33, 255, 256, 7968, 65535, 65536, 902448, 902449, 16777215}
=============================================================================
