------------------------------ MODULE OctField ------------------------------
(***************************************************************************)
(* GF(256) as the code computes with it (oblas): octets, whose sum is XOR, *)
(* and whose product is looked up in tables that tablegen.c computes from  *)
(* the powers of 2 modulo x^8 + x^4 + x^3 + x^2 + 1 and that octtables.h   *)
(* holds.  A row is a function from columns to octets.                     *)
(***************************************************************************)
EXTENDS Naturals

Octet == 0 .. 255

XorOfNibbles ==
    [a \in 0 .. 15 |-> [b \in 0 .. 15 |->
        LET bit(k) == ((a \div k + b \div k) % 2) * k
        IN  bit(1) + bit(2) + bit(4) + bit(8)]]

Xor == [a \in Octet |-> [b \in Octet |-> 16 * XorOfNibbles[a \div 16][b \div 16]
                                          + XorOfNibbles[a % 16][b % 16]]]

\* x^8 modulo the polynomial, whose bits are those of 285: EXP[8].
Reduction == 285 % 256

\* fill_tabs: twice an octet, without the bit that is shifted out.
Twice == [o \in Octet |->
             IF o >= 128 THEN Xor[Reduction][2 * o - 256] ELSE 2 * o]

Power[i \in 0 .. 254] == IF i = 0 THEN 1 ELSE Twice[Power[i - 1]]

\* The table has two periods: a sum of two logarithms needs no reduction.
OCT_EXP == [i \in 0 .. 509 |-> Power[i % 255]]
OCT_LOG == [o \in Octet |->
               IF o = 0 THEN 255 ELSE CHOOSE i \in 0 .. 254 : OCT_EXP[i] = o]
OCT_INV == [o \in Octet |-> IF o < 2 THEN o ELSE OCT_EXP[255 - OCT_LOG[o]]]

\* print_shuf_lo_tab and print_shuf_hi_tab, the entry of u and v
ProductEntry(u, v) ==
    IF u = 0 \/ v = 0 THEN 0 ELSE OCT_EXP[(OCT_LOG[u] + OCT_LOG[v]) % 255]
OCT_MUL_LO == [u \in Octet |-> [n \in 0 .. 15 |-> ProductEntry(u, n)]]
OCT_MUL_HI == [u \in Octet |-> [n \in 0 .. 15 |-> ProductEntry(u, 16 * n)]]

\* A slip of Mul: the nibbles are taken from the wrong tables.
MulNibblesSwapped(u, o) == Xor[OCT_MUL_HI[u][o % 16]][OCT_MUL_LO[u][o \div 16]]

Mul(u, o) == Xor[OCT_MUL_HI[u][o \div 16]][OCT_MUL_LO[u][o % 16]]

\* oaxpy, oaddrow, oaxpy_b32 (whose row y holds bits), gf2mat_xor
AddRow(x, y, u) == [k \in DOMAIN x |-> Xor[x[k]][Mul(u, y[k])]]

\* oscal: a factor below 2 changes nothing.
ScaleRow(x, u) == IF u < 2 THEN x ELSE [k \in DOMAIN x |-> Mul(u, x[k])]

ZeroRow(columns) == [k \in columns |-> 0]

-----------------------------------------------------------------------------
\* The product by the definition of the field: the sum of o * x^k over the
\* bits of u, each x^k a doubling with reduction.
Shifted(o, n) ==
    LET f[k \in 0 .. n] == IF k = 0 THEN o ELSE Twice[f[k - 1]] IN f[n]
PlaceValue == <<1, 2, 4, 8, 16, 32, 64, 128>>
Product(u, o) ==
    LET f[k \in 0 .. 8] ==
            IF k = 0 THEN 0
            ELSE IF (u \div PlaceValue[k]) % 2 = 1
                 THEN Xor[f[k - 1]][Shifted(o, k - 1)] ELSE f[k - 1]
    IN  f[8]

\* The tables multiply: each product of the nibbles' tables is the product of
\* the field, and each octet but 0 has the inverse the table names.
TablesMultiply ==
    \A u \in Octet :
        /\ \A o \in Octet : Mul(u, o) = Product(u, o)
        /\ u # 0 => Mul(u, OCT_INV[u]) = 1
=============================================================================
