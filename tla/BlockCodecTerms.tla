-------------------------- MODULE BlockCodecTerms ---------------------------
(***************************************************************************)
(* The terms in which BlockCodecProofs reasons about BlockCodec: what it   *)
(* calls a partition, a layout, a schedule, a burst of damage; the         *)
(* inductive invariant CodecInv of the codec; and Written, what the        *)
(* receiver's file holds.                                                  *)
(***************************************************************************)
EXTENDS BlockCodec

-----------------------------------------------------------------------------
(***************************************************************************)
(* The division of an object.                                              *)
(***************************************************************************)

\* z is what the loop of gen_scheme_specific ends with.
FirstFit(Kt, z) ==
    /\ DivCeil(Kt, z) <= KMax
    /\ \A y \in MinBlocks .. z - 1 : DivCeil(Kt, y) > KMax

IsPartition(p, I, J) ==
    /\ p.JL \in Nat /\ p.JS \in Nat \ {0} /\ p.JL + p.JS = J
    /\ p.IL \in Nat /\ p.IS \in Nat
    /\ p.IL * p.JL + p.IS * p.JS = I

\* No part is empty or longer than the least number that suffices.
SizesFit(p, most) == p.IS \in 1 .. most /\ (p.JL > 0 => p.IL \in 1 .. most)

\* A file and a size of a symbol that the two ends may be given
IsCase(F, T) ==
    /\ F \in Nat /\ F > 0 /\ F < 16777216
    /\ T \in Nat /\ T > 0 /\ T < 65536
    /\ DivCeil(F, T) <= 256 * KMax

\* The number of things in part b of a partition and of those before it
Size(p, b) == IF b < p.JL THEN p.IL ELSE p.IS

First(p, b) == IF b < p.JL THEN p.IL * b ELSE p.IL * p.JL + p.IS * (b - p.JL)

IsPlace(p, J, b, e) == b \in 0 .. J - 1 /\ e \in 0 .. Size(p, b) - 1

\* Each thing may itself be made of k.
Times(k, p) == [IL |-> k * p.IL, IS |-> k * p.IS, JL |-> p.JL, JS |-> p.JS]

IsTimes(k, p, J, t) ==
    \A b \in 0 .. J - 1 :
        /\ Size(p, b) \in Nat /\ First(p, b) \in Nat
        /\ Size(t, b) = k * Size(p, b) /\ First(t, b) = k * First(p, b)

IsUnit(p, s, Z, N, b, e, j, a) ==
    /\ b \in 0 .. Z - 1 /\ e \in 0 .. Size(p, b) - 1
    /\ j \in 0 .. N - 1 /\ a \in 0 .. Size(s, j) - 1

InSubBlock(s, e, j, a) == Size(s, j) * e + a

InBlock(k, s, e, j, a) == k * First(s, j) + InSubBlock(s, e, j, a)

UnitAt(p, s, Tn, b, e, j, a) == Tn * First(p, b) + InBlock(Size(p, b), s, e, j, a)

\* A unit in its sub-block, in its block and in the object
HasParts(p, s, Z, Tn, N, Kt, b, e, j, a) ==
    /\ Size(p, b) \in Nat /\ First(p, b) \in Nat
    /\ Size(s, j) \in Nat /\ First(s, j) \in Nat
    /\ IsPlace(Times(Size(p, b), s), N, j, InSubBlock(s, e, j, a))
    /\ InBlock(Size(p, b), s, e, j, a) =
           First(Times(Size(p, b), s), j) + InSubBlock(s, e, j, a)
    /\ IsPlace(Times(Tn, p), Z, b, InBlock(Size(p, b), s, e, j, a))
    /\ UnitAt(p, s, Tn, b, e, j, a) =
           First(Times(Tn, p), b) + InBlock(Size(p, b), s, e, j, a)
    /\ UnitAt(p, s, Tn, b, e, j, a) \in 0 .. Tn * Kt - 1

\* What nanorq holds of an object's division, of Al octets a unit, Kt symbols
\* of Tn units, Z blocks and N sub-symbols
IsLayout(rq, Al, Kt, Z, Tn, N) ==
    /\ rq.Al = Al /\ rq.T = Al * Tn /\ rq.T \div rq.Al = Tn
    /\ rq.F \in Nat /\ rq.F <= rq.T * Kt
    /\ IsPartition(rq.src, Kt, Z) /\ IsPartition(rq.sub, Tn, N)
    /\ rq.sub.IS \in Nat \ {0} /\ (rq.sub.JL > 0 => rq.sub.IL \in Nat \ {0})

HasBlocks(rq, Z, Tn) ==
    /\ NumBlocks(rq) = Z
    /\ \A b \in 0 .. Z - 1 :
           /\ BlockSymbols(rq, b) = Size(rq.src, b)
           /\ BlockStart(rq, b) = Tn * First(rq.src, b)

\* Where the pieces of a symbol are
HasPieces(rq, N, Tn, b, e) ==
    /\ PieceStarts(rq) = {First(rq.sub, j) : j \in 0 .. N - 1}
    /\ \A j \in 0 .. N - 1 :
           /\ First(rq.sub, j) \in Nat /\ Size(rq.sub, j) \in Nat
           /\ PieceLength(rq, First(rq.sub, j)) = Size(rq.sub, j)
           /\ SymbolOffset(rq, b, e, First(rq.sub, j)) =
                  Tn * First(rq.src, b)
                  + (Size(rq.src, b) * First(rq.sub, j) + Size(rq.sub, j) * e)

\* The octets of a symbol, unit by unit
IsOctet(rq, Al, Z, N, b, e, j, a, c) ==
    IsUnit(rq.src, rq.sub, Z, N, b, e, j, a) /\ c \in 0 .. Al - 1

OctetOfUnit(rq, Al, j, a, c) == Al * (First(rq.sub, j) + a) + c

AtOfUnit(rq, Al, Tn, b, e, j, a, c) == Al * UnitAt(rq.src, rq.sub, Tn, b, e, j, a) + c

MovedAs(rq, Al, Tn, b, e, j, a, c) ==
    [octet |-> OctetOfUnit(rq, Al, j, a, c), at |-> AtOfUnit(rq, Al, Tn, b, e, j, a, c)]

IsSymbol(rq, Z, z) == \E b, e : IsPlace(rq.src, Z, b, e) /\ z = <<b, e>>

-----------------------------------------------------------------------------
(***************************************************************************)
(* Lists of the members of a set.                                          *)
(***************************************************************************)

\* The rank of n in T
Rank(T, n) == Cardinality({m \in T : m <= n})

\* seq goes through the elements of T once each.
Lists(seq, T) ==
    /\ seq \in Seq(T)
    /\ \A t \in T : \E k \in 1 .. Len(seq) : seq[k] = t
    /\ \A k, l \in 1 .. Len(seq) : seq[k] = seq[l] => k = l

\* Kept(seq, set) has the entries of seq that are in set.
Keeps(kept, seq, set, X) ==
    /\ kept \in Seq(X)
    /\ \A k \in 1 .. Len(kept) : kept[k] \in set /\ \E n \in 1 .. Len(seq) : seq[n] = kept[k]
    /\ \A n \in 1 .. Len(seq) :
          seq[n] \in set => \E k \in 1 .. Len(kept) : kept[k] = seq[n]
    /\ IsInjective(seq) => IsInjective(kept)

IsWalk(w, q, a, b, len) == w = [n \in 1 .. len |-> (b + (n - 1) * a) % q]

-----------------------------------------------------------------------------
(***************************************************************************)
(* Codes and their rows.                                                   *)
(***************************************************************************)

\* What the proofs use of the parameters of a code
IsCode(p) ==
    /\ p.Kprime \in Nat /\ p.Kprime > 0 /\ p.S \in Nat /\ p.S > 0
    /\ p.H \in 2 .. 255
    /\ p.W \in Nat /\ p.L \in Nat /\ p.P \in Nat /\ p.B \in Nat /\ p.P1 \in Nat
    /\ p.L = p.Kprime + p.S + p.H /\ p.L = p.W + p.P /\ p.W = p.B + p.S
    /\ p.P >= 3 /\ p.P >= p.H
    /\ IsPrime(p.W) /\ IsPrime(p.P1) /\ p.P1 >= p.P

\* A row of the sparse matrix: columns, none of them twice
IsRow(row, L) == row \in Seq(Upto(L)) /\ IsInjective(row)

-----------------------------------------------------------------------------
(***************************************************************************)
(* Octets, symbols and the blocks of the object.                           *)
(***************************************************************************)

Nibble == 0 .. 15

\* Twice an octet: 29 is 16 + 8 + 4 + 1.
Doubled(o) ==
    IF o < 128 THEN 2 * o
    ELSE 2 * o - 227 - 8 * ((o \div 2) % 2) - 16 * ((o \div 4) % 2) - 32 * ((o \div 8) % 2)

\* A function g that is F of its value before, from x on: recursive functions on
\* 0 .. n are of this kind.
Follows(g, F, x, n) == g[0] = x /\ \A i \in 1 .. n : g[i] = F[<<g[i - 1], i>>]

\* Power i of 2 is o.
Goes(i, o) == i \in 0 .. 254 /\ o \in Octet /\ Power[i] = o

\* A row of symbols, and rows of them
Symbol == [1 .. SymbolSize -> Octet]

\* The blocks of a case: none is empty, and the first is the longest.
Divided(rq) ==
    /\ NumBlocks(rq) \in 1 .. 256 /\ NumBlocks(rq) = rq.Z
    /\ \A b \in 0 .. NumBlocks(rq) - 1 :
           BlockSymbols(rq, b) \in 1 .. KMax /\ BlockSymbols(rq, b) <= BlockSymbols(rq, 0)

\* The block that is followed fits the code.
Followed == sbn \in Upto(NumBlocks(Encoder))

-----------------------------------------------------------------------------
(***************************************************************************)
(* The CRC of a frame, and bursts of damage.                               *)
(***************************************************************************)

\* An entry of the table: eight shifts, and what is left of the two bits that
\* are none of the remainder's.
EightTimes(o) ==
    Crc6Shift[Crc6Shift[Crc6Shift[Crc6Shift[Crc6Shift[Crc6Shift[Crc6Shift[Crc6Shift[o]]]]]]]]

\* A remainder of the CRC
Remainder == 0 .. 63

\* crc6_0X6F, one octet further
Crc6Step(c, o) == Crc6Table[Xor[4 * c][o]]

\* The remainders of the beginnings of a sequence
IsCrc6(crc, data) ==
    /\ crc \in [0 .. Len(data) -> Remainder] /\ crc[0] = 1
    /\ \A n \in 1 .. Len(data) : crc[n] = Crc6Step(crc[n - 1], data[n])

\* u is s followed by t.
IsConcat(u, s, t, X) ==
    /\ u \in Seq(X) /\ Len(u) = Len(s) + Len(t)
    /\ \A n \in 1 .. Len(s) : u[n] = s[n]
    /\ \A n \in 1 .. Len(t) : u[Len(s) + n] = t[n]

\* A frame, and what the receiver takes from it
IsFrame(f, oti, b, esi, symbol) ==
    /\ f \in Seq(Octet) /\ Len(f) = 12 + SymbolSize
    /\ f[1] = 128 + Crc6(Tail(f))
    /\ OtiOf(f) = oti /\ TagSbn(TagOf(f)) = b /\ TagEsi(TagOf(f)) = esi /\ SymbolOf(f) = symbol

Bit == 0 .. 1

\* o has these bits, from the left.
HasBits(o, b7, b6, b5, b4, b3, b2, b1, b0) ==
    /\ {b7, b6, b5, b4, b3, b2, b1, b0} \subseteq Bit
    /\ o = 128 * b7 + 64 * b6 + 32 * b5 + 16 * b4 + 8 * b3 + 4 * b2 + 2 * b1 + b0

\* n has these bits, from the left.
NibbleHas(n, b3, b2, b1, b0) ==
    {b3, b2, b1, b0} \subseteq Bit /\ n = 8 * b3 + 4 * b2 + 2 * b1 + b0

\* An entry of the table: the sum of the entries of the octet's bits.
TableEntry(o, b7, b6, b5, b4, b3, b2, b1, b0) ==
    Crc6Table[o] = 32 * ((b0 + b1 + b4) % 2) + 16 * ((b1 + b3 + b4 + b7) % 2)
                   + 8 * ((b0 + b2 + b3 + b6 + b7) % 2) + 4 * ((b0 + b2 + b4 + b5 + b6 + b7) % 2)
                   + 2 * ((b0 + b3 + b5 + b6) % 2) + ((b0 + b1 + b2 + b5) % 2)

\* The remainder of an octet, bit by bit
EntryBits(o, b7, b6, b5, b4, b3, b2, b1, b0) ==
    HasBits(Crc6Table[o], 0, 0, (b0 + b1 + b4) % 2, (b1 + b3 + b4 + b7) % 2,
            (b0 + b2 + b3 + b6 + b7) % 2, (b0 + b2 + b4 + b5 + b6 + b7) % 2,
            (b0 + b3 + b5 + b6) % 2, (b0 + b1 + b2 + b5) % 2)

Units == {1, 2, 4, 8, 16, 32, 64, 128}

\* A burst of up to six bits, of which e1 is in one octet and e2 in the next.
IsBurst(e1, e2) ==
    \E unit \in Units, bits \in 1 .. 63 :
        e1 = (bits * unit) \div 256 /\ e2 = (bits * unit) % 256

Associate(a, b, c) == Xor[Xor[a][b]][c] = Xor[a][Xor[b][c]]

\* hit is data with a burst that ends in octet m.
IsHit(hit, data, m) ==
    /\ data \in Seq(Octet) /\ hit \in Seq(Octet) /\ Len(hit) = Len(data)
    /\ m \in 1 .. Len(data)
    /\ \A n \in 1 .. Len(data) : n # m /\ n # m - 1 => hit[n] = data[n]
    /\ \E e1, e2 :
           /\ IsBurst(e1, e2)
           /\ hit[m] = Xor[data[m]][e2]
           /\ IF m = 1 THEN e1 = 0 ELSE hit[m - 1] = Xor[data[m - 1]][e1]

-----------------------------------------------------------------------------
(***************************************************************************)
(* Matrices and their schedules.                                           *)
(***************************************************************************)

\* f and g are permutations of X that undo each other.
Inverses(f, g, X) ==
    /\ f \in [X -> X] /\ g \in [X -> X]
    /\ \A x \in X : f[g[x]] = x /\ g[f[x]] = x

\* h is f after its values at m and k have changed places.
Exchanged(h, f, m, k, X) ==
    /\ h \in [X -> X] /\ h[m] = f[k] /\ h[k] = f[m]
    /\ \A x \in X : x # m /\ x # k => h[x] = f[x]

\* The columns of a row that are in T
RowIn(row, T) == {col \in T : HasCol(row, col)}

\* and their places in the sequence
EntriesIn(row, T) == {k \in DOMAIN row : row[k] \in T}

\* A matrix of n rows for the code p
IsMatrix(a, n, p) ==
    /\ n \in Nat /\ DOMAIN a = Upto(n) /\ n >= p.L
    /\ \A r \in Upto(n) : IsRow(a[r], p.L)

\* The operations of a schedule: a multiple of row j is added to row i, or
\* row i is scaled by j.
Ops(n) ==
    {op \in [i : Upto(n), j : Nat, beta : Octet] :
        IF op.beta = 0 THEN op.j \in Octet ELSE op.j \in Upto(n)}

\* The index of an operation, or that of none
Mark == Nat \union {NoMark}

\* The last P columns stay where they are.
IsSchedule(s, n, p) ==
    /\ s \in [d : [Upto(n) -> Upto(n)], di : [Upto(n) -> Upto(n)],
              c : [Upto(p.L) -> Upto(p.L)], ci : [Upto(p.L) -> Upto(p.L)],
              nz : [Upto(n) -> Int], ops : Seq(Ops(n)), i : Nat, u : Nat,
              marks : Mark \X Mark]
    /\ Inverses(s.d, s.di, Upto(n)) /\ Inverses(s.c, s.ci, Upto(p.L))
    /\ \A q \in p.L - p.P .. p.L - 1 : s.c[q] = q
    /\ s.i <= p.L - p.P

\* The columns whose places are in V
ColsInV(s, p) == {s.c[q] : q \in s.i .. p.L - s.u - 1}

OnesInV(a, s, p, r) == RowIn(a[r], ColsInV(s, p))

CounterTrue(a, s, p, r) ==
    s.nz[r] = Cardinality(OnesInV(a, s, p, r)) + (IF InitialNnz(p, a[r]) = p.L THEN p.L ELSE 0)

CountersTrue(a, s, p, n) ==
    \A r \in Upto(n) : s.di[r] >= s.i => CounterTrue(a, s, p, r)

\* The ones of the triangle's row at place m
TriangleRow(a, s, p, m) ==
    /\ HasCol(a[s.d[m]], s.c[m])
    /\ \A q \in m + 1 .. p.L - s.u - 1 : ~HasCol(a[s.d[m]], s.c[q])

TriangleTrue(a, s, p) == \A m \in Upto(s.i) : TriangleRow(a, s, p, m)

\* The places of V
Places(s, p) == s.i .. p.L - s.u - 1

\* precode_matrix_swap_cols only moves columns within V: the first one of the
\* row to its start, the second to its end.
ColsMoved(c, e, i, last, ones) ==
    /\ \A q \in DOMAIN c : q \notin i .. last => e[q] = c[q]
    /\ e[i] = c[Min(ones)]
    /\ Cardinality(ones) = 2 => i # last /\ e[last] = c[Max(ones)]

OnesOf(ones, i, last, b) == ones \subseteq i .. last /\ IsFiniteSet(ones) /\ Cardinality(ones) = b

SwapsCols(e, c, i, last, ones, b) ==
    e = IF b = 2 THEN Exchange(Exchange(c, i, Min(ones)), last, Max(ones))
        ELSE Exchange(c, i, Min(ones))

IsFound(g, f, X) == g = [x \in X |-> CHOOSE m \in X : f[m] = x]

\* The values of c on a part V of X, before and after values have been moved
\* within V
ImageOf(c, V) == {c[q] : q \in V}

\* The columns that leave V: those of the ones of the chosen row.
Left(c, ones) == ImageOf(c, ones)

Leaves(cols, e, i, last, b) == cols = IF b = 2 THEN <<e[i], e[last]>> ELSE <<e[i]>>

HaveLeft(c, e, i, last, ones, b, cols) ==
    /\ Lists(cols, Left(c, ones)) /\ Len(cols) = b
    /\ ImageOf(e, i .. last) = ImageOf(c, i .. last)
    /\ ImageOf(e, i + 1 .. last - (b - 1)) = ImageOf(c, i .. last) \ Left(c, ones)
    /\ Left(c, ones) \subseteq ImageOf(c, i .. last)

\* The chosen row comes to the place of the next row of the triangle; the rows
\* above it stay.
RowsMoved(d, di, e, ei, i, row, n) ==
    /\ Inverses(e, ei, Upto(n)) /\ e[i] = row
    /\ \A m \in Upto(i) : e[m] = d[m]
    /\ \A r \in Upto(n) : ei[r] >= i + 1 => r # row /\ di[r] >= i

\* One step of the loop, from s to t
Grown(t, s, a, p, n, row, b, ones, cols) ==
    /\ RowsMoved(s.d, s.di, t.d, t.di, s.i, row, n)
    /\ ColsMoved(s.c, t.c, s.i, p.L - s.u - 1, ones) /\ Inverses(t.c, t.ci, Upto(p.L))
    /\ t.i = s.i + 1 /\ t.u = s.u + b - 1
    /\ t.nz = [r \in Upto(n) |->
                  s.nz[r] - Cardinality({m \in 1 .. Len(cols) : HasCol(a[r], cols[m])})]

\* ones are those of the row in V, b of them.
AreOnes(ones, s, a, p, row, b) ==
    /\ \A q : q \in ones <=> q \in Places(s, p) /\ HasCol(a[row], s.c[q])
    /\ IsFiniteSet(ones) /\ Cardinality(ones) = b

\* The fields of a schedule
FieldsTyped(s, n, L) ==
    s \in [d : [Upto(n) -> Upto(n)], di : [Upto(n) -> Upto(n)],
           c : [Upto(L) -> Upto(L)], ci : [Upto(L) -> Upto(L)],
           nz : [Upto(n) -> Int], ops : Seq(Ops(n)), i : Nat, u : Nat,
           marks : Mark \X Mark]

\* What the loop of precode_matrix_precond keeps
Growing(a, s, nzt, p, n) ==
    /\ IsMatrix(a, n, p) /\ IsSchedule(s, n, p)
    /\ nzt \in [1 .. 2 -> Seq(Upto(n))]
    /\ s.u >= p.P /\ s.i + s.u <= p.L
    /\ CountersTrue(a, s, p, n) /\ TriangleTrue(a, s, p)

\* The schedule s with new columns, counters, and one more row of the triangle
Shrunk(t, s, e, ei, nz, r) ==
    t = [[s EXCEPT !.c = e, !.ci = ei] EXCEPT !.nz = nz, !.i = @ + 1, !.u = @ + r - 1]

-----------------------------------------------------------------------------
(***************************************************************************)
(* The inductive invariant of the codec.                                   *)
(***************************************************************************)

\* The rows of wrkmat have width octets; how many of them are octet rows.
IsWork(w, n, width) ==
    w \in [row : [Upto(n) -> [Upto(width) -> Octet]], type : SUBSET Upto(n),
           spare : Nat, hdpc : {w.hdpc}]

\* The parts of an inversion: the triangle, the work matrix, the symbols
Precond == pc = "precond"

Working == pc \in {"forward", "below", "gf2", "hdpc", "gf256", "back"}

Applying == pc \in {"apply1", "apply2", "apply3", "apply4", "permute"}

Inverting == Precond \/ Working \/ Applying

\* The encoder is done before the decoder starts; the decoder holds symbols of
\* the frames.
SourceTyped ==
    /\ Followed
    /\ bin \in Seq([esi : 0 .. MaxEsi, row : Symbol])
    /\ encoded = << >> \/ encoded \in [Upto(EncoderParams.L) -> Symbol]
    /\ pc = "start" => encoded = << >>
    /\ pc \in {"receive", "decoded"} => encoded # << >>

Room == IF encoded = << >> THEN P.L ELSE P.L + MaxEsi - K

SymbolsTyped == pc # "start" => P = EncoderParams /\ D \in [Upto(Room) -> Symbol]

MatrixTyped ==
    Inverting => /\ IsMatrix(A, NumRows, P) /\ IsSchedule(S, NumRows, P)
                 /\ NumRows <= Room

PrecondTrue == Precond => Growing(A, S, NZT, P, NumRows)

\* Where the loops over the work matrix stand
StepInWork ==
    /\ pc \in {"forward", "below"} => step \in 0 .. S.i
    /\ pc \in {"gf2", "gf256"} => step \in S.i .. P.L
    /\ pc = "hdpc" => step \in -1 .. S.i
    /\ pc = "hdpc" /\ step >= 0 =>
           U.hdpc \in [Upto(P.Kprime + P.S) -> [Upto(P.H) -> Octet]]
    /\ pc = "back" => step \in S.i - 1 .. P.L - 1

WorkTyped ==
    Working => S.u = P.L - S.i /\ IsWork(U, NumRows, S.u) /\ StepInWork

StepsTyped ==
    /\ pc \in {"apply1", "apply3", "apply4"} => step \in Nat
    /\ pc = "apply2" => step \in Int
    /\ pc \in {"apply2", "apply3"} => S.marks[2] \in Nat

CodecInv ==
    /\ SourceTyped /\ SymbolsTyped /\ MatrixTyped /\ PrecondTrue /\ WorkTyped /\ StepsTyped

\* Rows of which all are in set
IsRows(rows, n, set) ==
    /\ rows \in Seq(Upto(n)) /\ ToSet(rows) \in SUBSET Upto(n)
    /\ \A k \in 1 .. Len(rows) : rows[k] \in set
    /\ ToSet(rows) \subseteq set

\* The symbols isis[x] in the rows of the matrix
AreRows(isis, m, p) == DOMAIN isis = Upto(m) /\ \A x \in Upto(m) : TupleInRange(isis[x], p)

\* No inversion is under way.
Resting == pc \in {"receive", "decoded", "singular", "inverted"}

-----------------------------------------------------------------------------
(***************************************************************************)
(* Sums, doubles and products of octets.                                   *)
(***************************************************************************)

\* Sums of bits, in another order
Reorders(a, b, c, d) == (((a + b) % 2) + ((c + d) % 2)) % 2 = (((a + c) % 2) + ((b + d) % 2)) % 2

\* f holds the first n doubles of o, one of the other.
AreDoubles(f, o, n) == f = [k \in 0 .. n |-> IF k = 0 THEN o ELSE Twice[f[k - 1]]]

\* Doubling n times: the double of a sum is the sum of the doubles, and 0 stays 0.
SumKept(a, b, n) == Shifted(Xor[a][b], n) = Xor[Shifted(a, n)][Shifted(b, n)]

\* f sums the places of the bits of u in doubles of o.
IsSum(f, u, o) ==
    f = [k \in 0 .. 8 |->
            IF k = 0 THEN 0
            ELSE IF (u \div PlaceValue[k]) % 2 = 1
                 THEN Xor[f[k - 1]][Shifted(o, k - 1)] ELSE f[k - 1]]

-----------------------------------------------------------------------------
(***************************************************************************)
(* The file that is written.                                               *)
(***************************************************************************)

\* The places of a symbol of the block that is followed
PlacesOf(e) == {x.at : x \in Transfer(Encoder, sbn, e)}

\* The division of the object, as the lemmas on layouts have it
ObjectBlocks == Encoder.Z

ObjectSymbols == DivCeil(Cardinality(DOMAIN File), SymbolSize)

\* The files that the receiver can have written so far
Files == UNION {[places -> Octet] : places \in SUBSET (DOMAIN File)}

\* After the symbol e is written the file has it at its places, and is
\* otherwise as it was.
IsWritten(file, next, e, symbol) ==
    /\ next \in Files /\ DOMAIN next = DOMAIN file \union PlacesOf(e)
    /\ \A x \in Transfer(Encoder, sbn, e) : next[x.at] = symbol[1 + x.octet]
    /\ \A at \in DOMAIN file : at \notin PlacesOf(e) => next[at] = file[at]

PlacesOfAll(symbols) == UNION {PlacesOf(e) : e \in symbols}

\* At every moment the receiver's file holds the octets of the source symbols
\* that it has, at their places, and no others.  An inversion that is done has
\* left a row for each intermediate symbol.
Written ==
    /\ out \in Files
    /\ DOMAIN out = PlacesOfAll(mask \intersect Upto(K))
    /\ encoded = << >> => mask = {}
    /\ pc = "inverted" => P.L <= Room
    /\ pc = "decoded" => Upto(K) \subseteq mask
    /\ pc # "decoded" =>
           \A e \in mask \intersect Upto(K) : \A x \in Transfer(Encoder, sbn, e) :
               out[x.at] = Encode(e)[1 + x.octet]

\* f[k] is the file once the first k symbols of the block are looked at.
IsWriting(f) ==
    f = [g \in 0 .. K |->
            IF g = 0 THEN out
            ELSE IF g - 1 \in Gaps
            THEN WriteSymbol(f[g - 1], Encoder, g - 1, DecodeRow(P, D, g - 1))
            ELSE f[g - 1]]

\* The file f, after the gaps before the symbol k are filled
IsFilledTo(f, k) ==
    /\ f \in Files
    /\ DOMAIN f = DOMAIN out \union PlacesOfAll({g \in Gaps : g < k})
    /\ \A at \in DOMAIN out : f[at] = out[at]

\* What a frame that arrives does to the file
IsReceived(sent) ==
    /\ pc = "receive" /\ pc' = "receive" /\ encoded # << >> /\ Followed
    /\ UNCHANGED <<sbn, encoded, P>>
    /\ sent \notin mask /\ mask' = mask \union {sent}
    /\ IF sent \in Upto(K) THEN IsWritten(out, out', sent, Encode(sent)) ELSE out' = out

\* What a repair does to the file
IsRepaired ==
    /\ Followed /\ UNCHANGED sbn /\ encoded' # << >> /\ pc' = "decoded"
    /\ mask' = mask \union Gaps
    /\ IsFilledTo(out', K)

\* The block's places begin behind those of the blocks before it.
BlockBegin == SymbolSize * First(Encoder.src, sbn)

=============================================================================
