------------------------------- MODULE Params -------------------------------
(***************************************************************************)
(* The parameters of the RaptorQ code for a number of symbols (params.c,   *)
(* table2.h), and which intermediate symbols make up an encoding symbol    *)
(* (tuple.c, rand.c).                                                      *)
(***************************************************************************)
EXTENDS Integers, Sequences, FiniteSetsExt, SequencesExt

CONSTANTS
    Table2,       \* the rows of table2.h, smallest Kprime first
    Rnd(_, _, _)  \* rnd_get(y, i, m): the generator of rand.c, for y modulo 2^32

IsPrime(n) == n > 1 /\ \A q \in 2 .. n - 1 : n % q # 0

\* What the rows of table2.h have in common.  Between a number and its double
\* there is a prime, which params_init counts up to.
ASSUME Table2Assumption ==
    /\ Table2 \in Seq([Kprime : Nat, J : Nat, S : Nat, H : 2 .. 255, W : Nat])
    /\ \A i \in DOMAIN Table2 :
           LET row == Table2[i]
               P == row.Kprime + row.S + row.H - row.W
           IN  /\ row.Kprime > 0 /\ IsPrime(row.W) /\ row.S \in 1 .. row.W
               /\ P >= 3 /\ P >= row.H
               /\ \E q \in P .. 2 * P : IsPrime(q)

\* The numbers of a set, from the least to the greatest.  (SetToSortSeq takes
\* the order as an operator, which no prover follows.)
Sorted(set) ==
    [k \in 1 .. Cardinality(set) |->
        CHOOSE n \in set : Cardinality({m \in set : m <= n}) = k]

\* What of seq is in set, in the order of seq
Kept(seq, set) ==
    LET places == Sorted({n \in DOMAIN seq : seq[n] \in set})
    IN  [k \in DOMAIN places |-> seq[places[k]]]

\* params_init
ParamsInit(K) ==
    LET row == Table2[Min({i \in DOMAIN Table2 : K <= Table2[i].Kprime})]
        L == row.Kprime + row.S + row.H
        P == L - row.W
    IN  [Kprime |-> row.Kprime, J |-> row.J, S |-> row.S, H |-> row.H,
         W |-> row.W, L |-> L, P |-> P, U |-> P - row.H, B |-> row.W - row.S,
         P1 |-> CHOOSE q \in P .. 2 * P :
                    IsPrime(q) /\ \A s \in P .. q - 1 : ~IsPrime(s)]

DegreeDist ==
    <<0,       5243,    529531,  704294,  791675,  844104,  879057,  904023,
      922747,  937311,  948962,  958494,  966438,  973160,  978921,  983914,
      988283,  992138,  995565,  998631,  1001391, 1003887, 1006157, 1008229,
      1010129, 1011876, 1013490, 1014983, 1016370, 1017662, 1048576>>

\* deg: the place of v in degree_dist, counted from 0
Deg(v, W) ==
    LET d == Min({i \in DOMAIN DegreeDist : v < DegreeDist[i]}) - 1
    IN  IF d < W - 2 THEN d ELSE W - 2

\* y of gen_tuple
Seed(X, p) ==
    LET A == 53591 + p.J * 997
    IN  10267 * (p.J + 1) + X * (IF A % 2 = 0 THEN A + 1 ELSE A)

GenTuple(X, p) ==
    LET y == Seed(X, p)
        d == Deg(Rnd(y, 0, 1048576), p.W)
    IN  [d |-> d, a |-> 1 + Rnd(y, 1, p.W - 1), b |-> Rnd(y, 2, p.W),
         d1 |-> IF d < 4 THEN 2 + Rnd(X, 3, 2) ELSE 2,
         a1 |-> 1 + Rnd(X, 4, p.P1 - 1), b1 |-> Rnd(X, 5, p.P1)]

\* What rnd_get returns is a remainder by its last argument: for what gen_tuple
\* asks of symbol X, and precode_matrix_make_HDPC of column col.
TupleInRange(X, p) ==
    LET y == Seed(X, p)
    IN  /\ Rnd(y, 0, 1048576) \in Nat /\ Rnd(y, 0, 1048576) < 1048576
        /\ Rnd(y, 1, p.W - 1) \in 0 .. p.W - 2 /\ Rnd(y, 2, p.W) \in 0 .. p.W - 1
        /\ Rnd(X, 3, 2) \in 0 .. 1
        /\ Rnd(X, 4, p.P1 - 1) \in 0 .. p.P1 - 2 /\ Rnd(X, 5, p.P1) \in 0 .. p.P1 - 1
ColumnInRange(col, p) ==
    /\ Rnd(col + 1, 6, p.H) \in 0 .. p.H - 1
    /\ Rnd(col + 1, 7, p.H - 1) \in 0 .. p.H - 2

\* params_set_idxs and decode_row: the columns of encoding symbol X.  The walk
\* over the last P columns goes through all residues of the prime P1 and skips
\* those from P on.
Idxs(X, p) ==
    LET t == GenTuple(X, p)
        walk == [n \in 1 .. p.P1 |-> (t.b1 + (n - 1) * t.a1) % p.P1]
        kept == Kept(walk, 0 .. p.P - 1)
    IN  [n \in 1 .. Max({t.d, 1}) |-> (t.b + (n - 1) * t.a) % p.W]
        \o [n \in 1 .. t.d1 |-> p.W + kept[n]]
=============================================================================
